------------------------------ MODULE MCSearch ------------------------------
(* A small instance of UserSearch: three users and a field with two texts.   *)
EXTENDS UserSearch
CONSTANTS all, some  \* the texts

\* One finds everybody, the other all but the first user.
MCMatching == (all :> Emails) @@ (some :> Emails \ {1})
=============================================================================
