------------------------------- MODULE DBIter -------------------------------
(* The iterator LevelDB gives to its users (db/db_iter.cc) over the merged   *)
(* entries of the memtable and the tables, while other threads write.        *)
(*                                                                           *)
(* A step is one round of a loop, or one move of the merged iterator; a      *)
(* write may come between any two.  A value is the sequence number it was    *)
(* written with.                                                             *)
EXTENDS Merger, FiniteSets

CONSTANTS Keys,      \* user keys, some steps apart
          MaxSeq,    \* bound: sequence numbers
          Starts     \* databases to start with: memtable, tables, snapshot, sequence

VARIABLES snapshot, lastSeq,
          iter,      \* direction_, valid_, saved_key_, saved_value_, and the locals
          badKey,    \* status_: a key that could not be parsed
          pc,
          op, from,  \* history: the operation, and what was shown before it
          shown      \* what valid(), key() and value() give between operations

vars == <<mem, table, merge, snapshot, lastSeq, iter, badKey, pc, op, from, shown>>
database == <<mem, table, snapshot, lastSeq>>

Types == {"value", "deletion", "bad"}

Init ==
    /\ \E s \in Starts :
        /\ mem = s.mem /\ table = s.table
        /\ snapshot = s.snapshot /\ lastSeq = s.last
    /\ merge = [child |-> [c \in Children |-> IF c = 0 THEN None ELSE Unpositioned],
                current |-> None, forward |-> TRUE]
    /\ iter = [forward |-> TRUE, valid |-> FALSE, key |-> None, value |-> None,
               skipping |-> FALSE, type |-> "deletion"]
    /\ badKey = FALSE /\ pc = "idle"
    /\ op = [name |-> "none", arg |-> None] /\ from = None /\ shown = None

-----------------------------------------------------------------------------
Begin(name, arg) ==
    /\ pc = "idle"
    /\ op' = [name |-> name, arg |-> arg] /\ from' = shown
    /\ UNCHANGED <<database, badKey>>

\* FindNextUserEntry begins if the merged iterator m is valid.
FindNext(m, it) ==
    /\ merge' = m
    /\ IF Valid(m) THEN pc' = "next" /\ iter' = it /\ UNCHANGED shown
       ELSE pc' = "idle" /\ shown' = None /\ iter' = [it EXCEPT !.valid = FALSE]

\* FindPrevUserEntry ends with what was collected.
Collected(it) ==
    /\ pc' = "idle"
    /\ IF it.type = "deletion"
       THEN /\ iter' = [it EXCEPT !.valid = FALSE, !.forward = TRUE, !.key = None, !.value = None]
            /\ shown' = None
       ELSE /\ iter' = [it EXCEPT !.valid = TRUE]
            /\ shown' = [key |-> it.key, value |-> it.value]

FindPrev(m, it) ==
    /\ merge' = m
    /\ IF Valid(m) THEN pc' = "prev" /\ iter' = it /\ UNCHANGED shown ELSE Collected(it)

Seek(k) ==
    /\ Begin("Seek", k)
    /\ FindNext(SeekAll(merge, [key |-> k, seq |-> snapshot]),
                [iter EXCEPT !.forward = TRUE, !.skipping = FALSE, !.key = k, !.value = None])

SeekToFirst ==
    /\ Begin("SeekToFirst", None)
    /\ FindNext(FirstOfAll(merge), [iter EXCEPT !.forward = TRUE, !.skipping = FALSE, !.value = None])

SeekToLast ==
    /\ Begin("SeekToLast", None)
    /\ FindPrev(LastOfAll(merge),
                [iter EXCEPT !.forward = FALSE, !.value = None, !.type = "deletion"])

Next ==
    /\ iter.valid
    /\ Begin("Next", None)
    /\ IF iter.forward
       THEN FindNext(merge, [iter EXCEPT !.skipping = TRUE, !.key = Key(merge).key])
       ELSE FindNext(IF Valid(merge) THEN MergeNext(merge) ELSE FirstOfAll(merge),
                     [iter EXCEPT !.forward = TRUE, !.skipping = TRUE])

Prev ==
    /\ iter.valid
    /\ Begin("Prev", None)
    /\ IF iter.forward
       THEN /\ pc' = "switch" /\ iter' = [iter EXCEPT !.key = Key(merge).key]
            /\ UNCHANGED <<merge, shown>>
       ELSE FindPrev(merge, [iter EXCEPT !.type = "deletion"])

-----------------------------------------------------------------------------
Visible(e) == e.type # "bad" /\ e.seq <= snapshot

Hidden(e) == iter.skipping /\ e.key <= iter.key

\* FindNextUserEntry: an entry to show.
FoundNext ==
    LET e == Key(merge) IN
    /\ pc = "next" /\ Visible(e) /\ e.type = "value" /\ ~Hidden(e)
    /\ pc' = "idle" /\ iter' = [iter EXCEPT !.valid = TRUE, !.key = None]
    /\ shown' = [key |-> e.key, value |-> e.seq]
    /\ UNCHANGED <<database, merge, badKey, op, from>>

\* Fault: a deletion hides nothing.
IgnoresDeletion ==
    LET e == Key(merge)
        m == MergeNext(merge) IN
    /\ pc = "next" /\ ~(Visible(e) /\ e.type = "value" /\ ~Hidden(e))
    /\ badKey' = (badKey \/ e.type = "bad")
    /\ FindNext(m, iter)
    /\ UNCHANGED <<database, op, from>>

\* An entry to pass: a deletion hides those of its key that follow.
PassedNext ==
    LET e == Key(merge)
        m == MergeNext(merge)
        hides == Visible(e) /\ e.type = "deletion"
        it == IF hides THEN [iter EXCEPT !.skipping = TRUE, !.key = e.key] ELSE iter IN
    /\ pc = "next" /\ ~(Visible(e) /\ e.type = "value" /\ ~Hidden(e))
    /\ badKey' = (badKey \/ e.type = "bad")
    /\ FindNext(m, IF Valid(m) THEN it ELSE [it EXCEPT !.key = None])
    /\ UNCHANGED <<database, op, from>>

-----------------------------------------------------------------------------
(* Prev while the direction is forward: back to an entry of another key.     *)

SwitchSeeksMem ==
    /\ pc = "switch" /\ TurnsMem(merge)
    /\ merge' = SeekMem(merge) /\ pc' = "turn"
    /\ UNCHANGED <<database, iter, badKey, op, from, shown>>

SwitchSteps ==
    LET m == MergePrev(merge) IN
    /\ pc = "turn" \/ (pc = "switch" /\ ~TurnsMem(merge))
    /\ merge' = m
    /\ IF ~Valid(m)
       THEN /\ pc' = "idle" /\ shown' = None
            /\ iter' = [iter EXCEPT !.valid = FALSE, !.key = None, !.value = None]
       ELSE IF Key(m).key < iter.key
       THEN FindPrev(m, [iter EXCEPT !.forward = FALSE, !.type = "deletion"])
       ELSE pc' = "switch" /\ UNCHANGED <<iter, shown>>
    /\ UNCHANGED <<database, badKey, op, from>>

\* Fault: the next entry the snapshot sees ends the search.
StopsEarly ==
    LET e == Key(merge) IN
    /\ pc = "prev" /\ Visible(e) /\ iter.type # "deletion"
    /\ Collected(iter)
    /\ UNCHANGED <<database, merge, badKey, op, from>>

\* FindPrevUserEntry: the entries of the key were all collected.
FoundPrev ==
    LET e == Key(merge) IN
    /\ pc = "prev" /\ Visible(e) /\ iter.type # "deletion" /\ e.key < iter.key
    /\ Collected(iter)
    /\ UNCHANGED <<database, merge, badKey, op, from>>

\* An entry that is newer than what was collected takes its place.
PassedPrev ==
    LET e == Key(merge)
        it == IF ~Visible(e) THEN iter
              ELSE IF e.type = "deletion"
              THEN [iter EXCEPT !.type = e.type, !.key = None, !.value = None]
              ELSE [iter EXCEPT !.type = e.type, !.key = e.key, !.value = e.seq] IN
    /\ pc = "prev" /\ ~(Visible(e) /\ iter.type # "deletion" /\ e.key < iter.key)
    /\ badKey' = (badKey \/ e.type = "bad")
    /\ FindPrev(MergePrev(merge), it)
    /\ UNCHANGED <<database, op, from>>

-----------------------------------------------------------------------------
\* Another thread writes to the memtable.
Write(k, type) ==
    /\ lastSeq < MaxSeq
    /\ lastSeq' = lastSeq + 1
    /\ mem' = mem \cup {[key |-> k, seq |-> lastSeq + 1, type |-> type]}
    /\ UNCHANGED <<table, merge, snapshot, iter, badKey, pc, op, from, shown>>

Step == FoundNext \/ PassedNext \/ SwitchSeeksMem \/ SwitchSteps \/ FoundPrev \/ PassedPrev

Moves ==
    \/ \E k \in Keys : Seek(k)
    \/ SeekToFirst \/ SeekToLast \/ Next \/ Prev
    \/ Step
    \/ \E k \in Keys, type \in {"value", "deletion"} : Write(k, type)

Spec == Init /\ [][Moves]_vars

-----------------------------------------------------------------------------
EntryOrNone(e) == e = None \/ (e.key \in Int /\ e.seq \in 1..MaxSeq /\ e.type \in Types)

\* The state has its types.
TypeOK ==
    /\ \A c \in Children : EntryOrNone(At(merge, c))
    /\ merge.current \in Children \cup {None} /\ merge.forward \in BOOLEAN
    /\ \A t \in Tables : {merge.child[t].index, merge.child[t].block} \subseteq 0..Len(table[t].block)
    /\ iter.forward \in BOOLEAN /\ iter.valid \in BOOLEAN /\ iter.type \in Types
    /\ pc \in {"idle", "next", "switch", "turn", "prev"}
    /\ pc \in {"next", "prev", "turn"} => Valid(merge)

Readable(c) ==
    IF c = 0 THEN mem ELSE UNION {Entries(c, b) : b \in DOMAIN table[c].block}
AllEntries == UNION {Readable(c) : c \in Children}

\* What the snapshot holds of a key: its newest value, unless deleted.
Newest(E, k) ==
    LET es == {e \in E : e.key = k /\ Visible(e)}
        e == First(es)
    IN  IF es = {} THEN None ELSE IF e.type = "deletion" THEN None ELSE e.seq

\* The iterator is a cursor over its snapshot: each operation lands on the
\* key, with the value, that the snapshot says, whatever was written since
\* and in whatever direction it moved before.
SnapshotCursor ==
    INSTANCE Cursor WITH view <- [k \in Keys |-> Newest(AllEntries, k)], at <- shown
\* A child holds everything its table holds: for readers, bad blocks too.
Stored == mem \cup UNION {UNION {table[t].block[b] : b \in DOMAIN table[t].block} : t \in Tables}
WholeCursor ==
    INSTANCE Cursor WITH view <- [k \in Keys |-> Newest(Stored, k)], at <- shown

Ok == ~badKey /\ ~MergeFailed(merge)

\* Blocks that cannot be read and keys that cannot be parsed are passed over,
\* but never silently: as long as status() is ok, each answer is the one the
\* whole database gives (TwoLevelIterator::SaveError, ParseKey).
TruthfulOrError ==
    (pc = "idle" /\ Ok /\ op.name # "none") => shown = WholeCursor!Target(op.name, op.arg, from)

\* The merged iterator's children are past its key in the direction it moves,
\* and no entry the snapshot may still need lies between the key and a
\* child's position: nothing is skipped when the direction changes
\* (merger.cc).  Until DBIter has left its key, only smaller keys matter.
NoneSkipped ==
    (Valid(merge) /\ pc # "turn") =>
        \A c \in Children \ {merge.current} :
            LET p == At(merge, c)
                between(e) == e.seq <= snapshot /\ (pc = "switch" => e.key < iter.key) /\
                    IF merge.forward THEN Before(Key(merge), e) /\ (p = None \/ Before(e, p))
                    ELSE Before(e, Key(merge)) /\ (p = None \/ Before(p, e))
            IN  /\ \A e \in Readable(c) : ~between(e)
                /\ p # None => IF merge.forward THEN Before(Key(merge), p) ELSE Before(p, Key(merge))

\* Between operations the merged iterator is at the exact entry that is shown
\* when it moved forward, and when it moved backward just before all entries
\* of the key that the snapshot sees (the comment on DBIter::Direction).
PositionedAsDocumented ==
    (pc = "idle" /\ iter.valid) =>
        IF iter.forward
        THEN Valid(merge) /\ [key |-> Key(merge).key, value |-> Key(merge).seq] = shown
        ELSE /\ shown.key = iter.key
             /\ Valid(merge) => Key(merge).key < shown.key
             /\ \A e \in AllEntries :
                    (e.seq <= snapshot /\ e.type # "bad" /\ e.key < shown.key) =>
                        Valid(merge) /\ ~Before(Key(merge), e)

=============================================================================
