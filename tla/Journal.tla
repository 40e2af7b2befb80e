------------------------------ MODULE Journal ------------------------------
(* What DB::Write promises its callers, whatever the threads, the groups and *)
(* the memtables behind it: a batch that was submitted enters the journal at *)
(* most once and whole, a caller is told "ok" exactly for a batch that did,  *)
(* and the journal only grows.  WriteQueue implements it.                    *)
EXTENDS Naturals, FiniteSets, Sequences, SequencesExt

CONSTANT Batches    \* the identities of the batches callers may submit

VARIABLES submitted,    \* batches some caller handed over
          journal,      \* the batches readers see, in the order they apply
          outcome       \* what each caller was, or is about to be, told

jvars == <<submitted, journal, outcome>>

Init ==
    /\ submitted = {}
    /\ journal = <<>>
    /\ outcome = [b \in Batches |-> "none"]

Submit(b) ==
    /\ b \notin submitted
    /\ submitted' = submitted \cup {b}
    /\ UNCHANGED <<journal, outcome>>

\* A group of waiting batches becomes visible in one step ...
Commit(group) ==
    /\ ToSet(group) \subseteq {b \in submitted : outcome[b] = "none"}
    /\ ToSet(group) \cap ToSet(journal) = {}
    /\ IsInjective(group)
    /\ journal' = journal \o group
    /\ UNCHANGED <<submitted, outcome>>

\* ... its callers are told so, and only they are ...
Accept(S) ==
    /\ S \subseteq ToSet(journal)
    /\ \A b \in S : outcome[b] = "none"
    /\ outcome' = [b \in Batches |-> IF b \in S THEN "ok" ELSE outcome[b]]
    /\ UNCHANGED <<submitted, journal>>

\* ... or a group fails and leaves no trace.
Reject(S) ==
    /\ S \subseteq submitted \ ToSet(journal)
    /\ \A b \in S : outcome[b] = "none"
    /\ outcome' = [b \in Batches |-> IF b \in S THEN "error" ELSE outcome[b]]
    /\ UNCHANGED <<submitted, journal>>

Groups == UNION {[1 .. n -> submitted] : n \in 1 .. Cardinality(submitted)}

Next ==
    \/ \E b \in Batches : Submit(b)
    \/ \E g \in Groups : Commit(g)
    \/ \E S \in SUBSET Batches : Accept(S) \/ Reject(S)

Spec == Init /\ [][Next]_jvars
=============================================================================
