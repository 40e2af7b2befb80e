----------------------------- MODULE MCSession -----------------------------
(* Instances of Session for TLC. *)
EXTENDS Session, TLC

Symmetry == Permutations(Devices) \union Permutations(Emails) \union
            Permutations(Passwords) \union Permutations(Slots)
=============================================================================
