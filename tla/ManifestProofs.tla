--------------------------- MODULE ManifestProofs ---------------------------
(* A LevelDB database can be opened again after any sequence of crashes and  *)
(* failed writes to the MANIFEST, and then has what was promised; and no     *)
(* file it needs is written over.  For any number of batches, files, crashes *)
(* and outputs.                                                              *)
EXTENDS Manifest, FiniteSetTheorems, TLAPS

\* What a manifest, a log and a table are made of.
State == [version : SUBSET Nat, log : Nat, next : Nat]
Edit == [log : Nat, next : Nat, add : SUBSET Nat, del : SUBSET Nat]

ManifestsTyped ==
    \A m \in DOMAIN manifests :
        m \in Nat /\ manifests[m] \in [after : Seq(State), synced : Nat]
            /\ manifests[m].synced <= Len(manifests[m].after)
TablesTyped ==
    \A t \in DOMAIN tables : t \in Nat /\ tables[t] \in [has : SUBSET (1..written), whole : BOOLEAN]
LogsTyped ==
    \A n \in DOMAIN logs :
        n \in Nat /\ logs[n] \in [has : Seq(1..written), synced : Nat]
            /\ logs[n].synced <= Len(logs[n].has)
GhostsTyped ==
    /\ current \in Nat /\ written \in Nat /\ crashes \in Nat
    /\ durable \subseteq promised /\ promised \subseteq 1..written
DiskTyped == ManifestsTyped /\ TablesTyped /\ LogsTyped /\ GhostsTyped

MemoryTyped ==
    /\ pc \in {"down", "created", "recover", "replay", "apply", "up"}
    /\ vs \in [version : SUBSET Nat, next : Nat, log : Nat, manifest : Nat, opened : BOOLEAN]
    /\ replay \in [logs : SUBSET Nat, made : SUBSET Nat]
    /\ log \in Nat /\ flush \in Nat
    /\ mem \subseteq 1..written /\ imm \subseteq 1..written
    /\ merge \in [inputs : SUBSET Nat, outs : SUBSET Nat, whole : BOOLEAN]
    /\ applying \in [who : {"none", "open", "flush", "merge"}, edit : Edit,
                     stage : {"none", "record", "sync", "current", "install"}]
    /\ failed \in BOOLEAN /\ reader \subseteq Nat

-----------------------------------------------------------------------------
(* What is on the disk.  A crash of the machine may cut the MANIFEST down to *)
(* any record not before the last one synced: so each state from there on    *)
(* must do, with the synced batches, and the last one with all the promises. *)

Kept(m) == {i \in 1..Len(m.after) : i >= m.synced}
InTables(ts, S, b) == \E t \in S : b \in ts[t].has
InLog(g, b) == \E i \in 1..Len(g.has) : g.has[i] = b
InSynced(g, b) == \E i \in 1..g.synced : g.has[i] = b
Finds(r, ts, ls, b) ==
    InTables(ts, r.version, b) \/ \E n \in DOMAIN ls : n >= r.log /\ InLog(ls[n], b)
FindsSynced(r, ts, ls, b) ==
    InTables(ts, r.version, b) \/ \E n \in DOMAIN ls : n >= r.log /\ InSynced(ls[n], b)

WholeIn(S, ts) == \A t \in S : t \in DOMAIN ts /\ ts[t].whole
Below(S, n) == \A t \in S : t < n

Final(m) == m.after[Len(m.after)]

\* The state r of the MANIFEST c can be recovered from.
Good(r, c, ts, ls, dur) ==
    /\ c < r.next /\ r.log < r.next
    /\ WholeIn(r.version, ts)
    /\ \A b \in dur : FindsSynced(r, ts, ls, b)

ManifestOK(m, c, ts, ls, pro, dur) ==
    /\ Len(m.after) >= 1
    /\ c # 1 => m.synced >= 1
    /\ \A i \in Kept(m) : Good(m.after[i], c, ts, ls, dur)
    /\ \A i, j \in Kept(m) : i <= j => Below(m.after[i].version, m.after[j].next)
    /\ \A b \in pro : Finds(Final(m), ts, ls, b)

CurrentOK ==
    IF current = 0 THEN promised = {}
    ELSE /\ current \in DOMAIN manifests
         /\ ManifestOK(manifests[current], current, tables, logs, promised, durable)

LastState == Final(manifests[current])

-----------------------------------------------------------------------------
(* What the process has in memory. *)

\* Before Recover there is nothing.
DownOK ==
    pc \in {"down", "created", "recover"} =>
        /\ vs = NoVersionSet /\ merge = NoMerge /\ applying = NoApply /\ flush = 0
        /\ mem = {} /\ imm = {} /\ reader = {} /\ failed = FALSE
        /\ pc = "created" => /\ current = 0 /\ 1 \in DOMAIN manifests
                             /\ manifests[1] = [after |-> <<[version |-> {}, log |-> 0, next |-> 2]>>,
                                                synced |-> 0]
        /\ pc = "recover" => current # 0

\* What is in the logs not yet replayed is not lost, nor is what was.
Replaying ==
    pc = "replay" =>
        /\ applying = NoApply /\ replay.logs \subseteq DOMAIN logs
        /\ \A n \in DOMAIN logs : n < vs.next \/ n \in replay.logs
        /\ \A n \in DOMAIN logs : n >= vs.log /\ n \notin replay.logs =>
               \A b : InLog(logs[n], b) => InTables(tables, replay.made, b)

Writing ==     \* the first LogAndApply of a process
    pc = "apply" =>
        /\ applying.who = "open" /\ applying.stage # "none"
        /\ applying.edit = [log |-> log, next |-> vs.next, add |-> replay.made, del |-> {}]
        /\ log \in DOMAIN logs /\ logs[log].has = <<>>
        /\ vs.manifest < log /\ log < vs.next /\ vs.log < log
        /\ \A n \in DOMAIN logs : n <= log
        /\ \A n \in DOMAIN logs : n >= vs.log =>
               \A b : InLog(logs[n], b) => InTables(tables, replay.made, b)
        /\ applying.stage \in {"sync", "current", "install"} =>
               /\ vs.manifest \in DOMAIN manifests
               /\ manifests[vs.manifest].after = <<Snapshot, ApplyEdit(Snapshot, applying.edit)>>
        /\ applying.stage \in {"current", "install"} => manifests[vs.manifest].synced = 2

OpeningOK ==
    pc \in {"replay", "apply"} =>
        /\ current # 0 /\ ~vs.opened
        /\ merge = NoMerge /\ flush = 0 /\ mem = {} /\ imm = {} /\ reader = {} /\ failed = FALSE
        /\ vs.manifest < vs.next /\ vs.log < vs.next
        /\ LastState.next <= vs.next
        /\ WholeIn(vs.version \cup replay.made, tables) /\ Below(vs.version \cup replay.made, vs.next)
        /\ IF applying.stage = "install" THEN current = vs.manifest
           ELSE /\ current < vs.manifest
                /\ LastState.version = vs.version /\ LastState.log = vs.log

-----------------------------------------------------------------------------
(* The database in use. *)

\* Each log that recovery may need is the current one or that of imm_.
LogsOK ==
    /\ log \in DOMAIN logs /\ log < vs.next /\ 0 < vs.log /\ vs.log <= log
    /\ \A n \in DOMAIN logs : n <= log
    /\ \A i \in Kept(manifests[current]) : manifests[current].after[i].log <= log
    /\ \A b : InLog(logs[log], b) => b \in mem
    /\ \A n \in DOMAIN logs : vs.log <= n /\ n < log =>
           \A b : InLog(logs[n], b) => b \in imm \/ InTables(tables, vs.version, b)

VersionOK ==
    /\ vs.opened /\ current # 0 /\ vs.manifest = current
    /\ LastState.next <= vs.next
    /\ WholeIn(vs.version \cup reader, tables) /\ Below(vs.version \cup reader, vs.next)
    /\ merge.inputs \subseteq vs.version

\* The tables being written are in no version yet.
InUse == reader \cup vs.version \cup UNION {manifests[current].after[i].version : i \in Kept(manifests[current])}
OutputsOK ==
    /\ merge.outs \subseteq DOMAIN tables /\ Below(merge.outs, vs.next) /\ 0 \notin merge.outs
    /\ flush # 0 => flush \in DOMAIN tables /\ flush < vs.next /\ imm # {}
    /\ flush \notin merge.outs
    /\ applying.who # "merge" => merge.outs \cap InUse = {}
    /\ applying.who # "flush" /\ flush # 0 => flush \notin InUse

\* What the record being written adds and says.
EditOK ==
    LET e == applying.edit IN
    /\ applying.stage # "current"
    /\ IF applying.stage = "none" THEN applying = NoApply
       ELSE /\ applying.who \in {"flush", "merge"}
            /\ 0 < e.log /\ e.log < e.next /\ e.next <= vs.next
            /\ WholeIn(e.add, tables) /\ Below(e.add, e.next)
            /\ applying.who = "flush" =>
                   /\ flush # 0 /\ e.log = log /\ e.add = {flush} /\ e.del = {}
                   /\ tables[flush].has = imm
            /\ applying.who = "merge" =>
                   /\ flush = 0 /\ e.log = vs.log /\ e.add = merge.outs /\ e.del = merge.inputs
                   /\ merge.outs # {}
                   /\ \A t \in merge.outs : \A b : b \in tables[t].has <=> InTables(tables, merge.inputs, b)
    /\ applying.stage = "record" =>
           /\ current < e.next /\ LastState.next <= e.next
           /\ \A i \in Kept(manifests[current]) : Below(manifests[current].after[i].version, e.next)

\* What the disk says, next to what memory says: the same, or after an error,
\* which leaves a record there or not, no less.
RecordOK ==
    /\ vs.log <= LastState.log
    /\ \A b : InTables(tables, vs.version, b) => InTables(tables, LastState.version, b)
    /\ IF applying.stage \in {"none", "record"}
       THEN ~failed => LastState.version = vs.version /\ LastState.log = vs.log
       ELSE /\ applying.edit.add \subseteq LastState.version /\ LastState.log = applying.edit.log
            /\ ~failed => LastState.version = (vs.version \ applying.edit.del) \cup applying.edit.add
    /\ applying.stage = "install" => manifests[current].synced = Len(manifests[current].after)

UpOK == pc = "up" => LogsOK /\ VersionOK /\ OutputsOK /\ EditOK /\ RecordOK

IInv == DiskTyped /\ MemoryTyped /\ CurrentOK /\ DownOK /\ Replaying /\ Writing /\ OpeningOK /\ UpOK

-----------------------------------------------------------------------------
(* Files. *)

\* One file is made or written over.
LEMMA WithIs ==
    ASSUME NEW f, NEW n, NEW v, NEW g, g = With(f, n, v)
    PROVE  /\ DOMAIN g = DOMAIN f \cup {n}
           /\ g[n] = v
           /\ \A m \in DOMAIN f : m # n => g[m] = f[m]
BY DEF With

\* Some files are removed.
LEMMA WithoutIs ==
    ASSUME NEW f, NEW S
    PROVE  /\ DOMAIN Without(f, S) = DOMAIN f \ S
           /\ \A m \in DOMAIN f \ S : Without(f, S)[m] = f[m]
BY DEF Without

\* What a crash leaves of a file is a prefix with all that was synced.
LEMMA CutIs ==
    ASSUME NEW S, NEW s \in Seq(S), NEW synced \in Nat, synced <= Len(s), NEW lost \in 0..2
    PROVE  LET c == Cut(s, synced, lost) IN
           /\ c \in Seq(S) /\ synced <= Len(c) /\ Len(c) <= Len(s)
           /\ \A i \in 1..Len(c) : c[i] = s[i]
<1> DEFINE k == IF Len(s) - lost < synced THEN synced ELSE Len(s) - lost
<1>1. Len(s) \in Nat
  OBVIOUS
<1>2. k \in Nat /\ synced <= k /\ k <= Len(s)
  BY <1>1
<1>3. Cut(s, synced, lost) = SubSeq(s, 1, k)
  BY DEF Cut
<1> HIDE DEF k
<1>4. SubSeq(s, 1, k) \in Seq(S) /\ Len(SubSeq(s, 1, k)) = k /\ \A i \in 1..k : SubSeq(s, 1, k)[i] = s[i]
  BY <1>1, <1>2
<1> QED BY <1>2, <1>3, <1>4

-----------------------------------------------------------------------------
(* What a MANIFEST needs of the other files. *)

\* What every state of a MANIFEST finds is found again when no file that it
\* needs lost anything.
LEMMA ManifestStays ==
    ASSUME NEW m, NEW c, NEW ts, NEW us, NEW ls, NEW ks, NEW pro, NEW dur, NEW pro2, NEW dur2,
           m \in [after : Seq(State), synced : Nat], m.synced <= Len(m.after),
           ManifestOK(m, c, ts, ls, pro, dur),
           \A i \in Kept(m) : \A t \in m.after[i].version :
               t \in DOMAIN us /\ us[t].whole /\ ts[t].has \subseteq us[t].has,
           \A i \in Kept(m) : \A n \in DOMAIN ls : n >= m.after[i].log =>
               /\ n \in DOMAIN ks
               /\ \A b : (InLog(ls[n], b) => InLog(ks[n], b)) /\ (InSynced(ls[n], b) => InSynced(ks[n], b)),
           \A b \in pro2 : b \in pro \/ Finds(Final(m), us, ks, b),
           \A b \in dur2 : b \in dur \/ \A i \in Kept(m) : FindsSynced(m.after[i], us, ks, b)
    PROVE  ManifestOK(m, c, us, ks, pro2, dur2)
<1>1. Len(m.after) \in Kept(m)
  <2>1. m.after \in Seq(State) /\ m.synced \in Nat
    OBVIOUS
  <2> QED BY <2>1 DEF ManifestOK, Kept
<1>2. ASSUME NEW i \in Kept(m), NEW b, Finds(m.after[i], ts, ls, b)
      PROVE  Finds(m.after[i], us, ks, b)
  BY <1>2 DEF Finds, InTables
<1>3. ASSUME NEW i \in Kept(m), NEW b, FindsSynced(m.after[i], ts, ls, b)
      PROVE  FindsSynced(m.after[i], us, ks, b)
  BY <1>3 DEF FindsSynced, InTables
<1>4. \A b \in pro2 : Finds(Final(m), us, ks, b)
  BY <1>1, <1>2 DEF ManifestOK, Final
<1>5. \A i \in Kept(m) : Good(m.after[i], c, us, ks, dur2)
  BY <1>3 DEF ManifestOK, Good, WholeIn
<1> QED BY <1>4, <1>5 DEF ManifestOK

-----------------------------------------------------------------------------
(* Types. *)

\* A record's state is a state, and what it says is what the edit says.
LEMMA EditApplied ==
    ASSUME NEW v \in State, NEW e \in Edit
    PROVE  /\ ApplyEdit(v, e) \in State
           /\ ApplyEdit(v, e).version = (v.version \ e.del) \cup e.add
           /\ e.log # 0 => ApplyEdit(v, e).log = e.log
           /\ e.next # 0 => ApplyEdit(v, e).next = e.next
BY DEF ApplyEdit, State, Edit

\* A new MANIFEST begins with the version in memory, and its second record
\* says the rest.
LEMMA SnapshotIs ==
    ASSUME MemoryTyped
    PROVE  /\ Snapshot = [version |-> vs.version, log |-> 0, next |-> 0]
           /\ Snapshot \in State
BY DEF MemoryTyped, Snapshot, ApplyEdit, Nothing, NoEdit, State

\* What opening reads from a MANIFEST is the state after its last record.
LEMMA RecoveredIs ==
    ASSUME ManifestsTyped, NEW m \in DOMAIN manifests
    PROVE  /\ Recovered(m) \in State
           /\ Len(manifests[m].after) >= 1 => Recovered(m) = Final(manifests[m])
<1>1. manifests[m].after \in Seq(State)
  BY DEF ManifestsTyped
<1>2. CASE manifests[m].after = <<>>
  BY <1>2 DEF Recovered, Nothing, State
<1>3. CASE manifests[m].after # <<>>
  <2>1. Len(manifests[m].after) \in 1..Len(manifests[m].after)
    BY <1>1, <1>3
  <2> QED BY <1>1, <1>3, <2>1 DEF Recovered, Last, Final
<1> QED BY <1>1, <1>2, <1>3

\* A MANIFEST grows by one record.
LEMMA Longer ==
    ASSUME NEW old \in [after : Seq(State), synced : Nat], NEW r
    PROVE  [old EXCEPT !.after = Append(@, r)] = [after |-> Append(old.after, r), synced |-> old.synced]
<1>1. old = [after |-> old.after, synced |-> old.synced]
  OBVIOUS
<1>2. ASSUME NEW b PROVE [old EXCEPT !.after = b] = [after |-> b, synced |-> old.synced]
  BY <1>1
<1> QED BY <1>2

\* A record is added to a MANIFEST.
LEMMA RecordWritten ==
    ASSUME ManifestsTyped, MemoryTyped, vs.opened => vs.manifest \in DOMAIN manifests
    PROVE  /\ DOMAIN WithRecord = DOMAIN manifests \cup {vs.manifest}
           /\ \A m \in DOMAIN manifests : m # vs.manifest => WithRecord[m] = manifests[m]
           /\ WithRecord[vs.manifest] =
                  IF vs.opened
                  THEN [after |-> Append(manifests[vs.manifest].after,
                                         ApplyEdit(Recovered(vs.manifest), applying.edit)),
                        synced |-> manifests[vs.manifest].synced]
                  ELSE [after |-> <<Snapshot, ApplyEdit(Snapshot, applying.edit)>>, synced |-> 0]
           /\ WithRecord[vs.manifest] \in [after : Seq(State), synced : Nat]
           /\ WithRecord[vs.manifest].synced <= Len(WithRecord[vs.manifest].after)
<1> DEFINE w == IF vs.opened
                THEN [manifests[vs.manifest] EXCEPT !.after =
                         Append(@, ApplyEdit(Recovered(vs.manifest), applying.edit))]
                ELSE [after |-> <<Snapshot, ApplyEdit(Snapshot, applying.edit)>>, synced |-> 0]
           x == IF vs.opened
                THEN [after |-> Append(manifests[vs.manifest].after,
                                       ApplyEdit(Recovered(vs.manifest), applying.edit)),
                      synced |-> manifests[vs.manifest].synced]
                ELSE [after |-> <<Snapshot, ApplyEdit(Snapshot, applying.edit)>>, synced |-> 0]
<1>1. WithRecord = With(manifests, vs.manifest, w)
  BY DEF WithRecord
<1>2. w = x
  <2>1. CASE vs.opened
    <3>1. manifests[vs.manifest] \in [after : Seq(State), synced : Nat]
      BY <2>1 DEF ManifestsTyped
    <3> QED BY <2>1, <3>1, Longer
  <2>2. CASE ~vs.opened
    BY <2>2
  <2> QED BY <2>1, <2>2
<1>3. x \in [after : Seq(State), synced : Nat] /\ x.synced <= Len(x.after)
  <2>1. CASE vs.opened
    <3> DEFINE old == manifests[vs.manifest]
               r == ApplyEdit(Recovered(vs.manifest), applying.edit)
    <3>1. old.after \in Seq(State) /\ old.synced \in Nat /\ old.synced <= Len(old.after)
      BY <2>1 DEF ManifestsTyped
    <3>2. applying.edit \in Edit
      BY DEF MemoryTyped
    <3>3. r \in State
      BY <2>1, <3>2, RecoveredIs, EditApplied
    <3> HIDE DEF r
    <3>4. Append(old.after, r) \in Seq(State) /\ Len(Append(old.after, r)) = Len(old.after) + 1
      BY <3>1, <3>3
    <3>5. x = [after |-> Append(old.after, r), synced |-> old.synced]
      BY <2>1 DEF r
    <3> QED BY <3>1, <3>4, <3>5
  <2>2. CASE ~vs.opened
    <3> DEFINE r == ApplyEdit(Snapshot, applying.edit)
    <3>1. Snapshot \in State /\ r \in State
      BY SnapshotIs, EditApplied DEF MemoryTyped
    <3> HIDE DEF r
    <3> DEFINE both == <<Snapshot, r>>
    <3>2. both \in Seq(State) /\ Len(both) = 2
      BY <3>1
    <3>3. x = [after |-> both, synced |-> 0]
      BY <2>2 DEF r
    <3> HIDE DEF x, both
    <3> QED BY <3>2, <3>3
  <2> QED BY <2>1, <2>2
<1>5. /\ DOMAIN With(manifests, vs.manifest, w) = DOMAIN manifests \cup {vs.manifest}
      /\ \A m \in DOMAIN manifests : m # vs.manifest => With(manifests, vs.manifest, w)[m] = manifests[m]
      /\ With(manifests, vs.manifest, w)[vs.manifest] = w
  <2> HIDE DEF w
  <2> QED BY DEF With
<1> HIDE DEF w, x
<1>4. /\ DOMAIN WithRecord = DOMAIN manifests \cup {vs.manifest}
      /\ \A m \in DOMAIN manifests : m # vs.manifest => WithRecord[m] = manifests[m]
      /\ WithRecord[vs.manifest] = x
  BY <1>1, <1>2, <1>5
<1> QED BY <1>3, <1>4 DEF x

\* A function on 1..n is a sequence.
LEMMA FunctionIsSeq ==
    ASSUME NEW S, NEW n \in Nat, NEW s \in [1..n -> S]
    PROVE  s \in Seq(S)
OBVIOUS

\* A sequence over a set is one over a larger set.
LEMMA SeqMonotone ==
    ASSUME NEW S, NEW T, S \subseteq T, NEW s \in Seq(S)
    PROVE  s \in Seq(T)
<1> DEFINE n == Len(s)
<1>1. n \in Nat /\ s \in [1..n -> S]
  OBVIOUS
<1> HIDE DEF n
<1>2. s \in [1..n -> T]
  BY <1>1
<1>3. \A t \in [1..n -> T] : t \in Seq(T)
  BY <1>1
<1> QED BY <1>2, <1>3

\* The elements of a sequence are where they should be.
LEMMA SeqElements ==
    ASSUME NEW S, NEW s \in Seq(S)
    PROVE  \A i \in 1..Len(s) : s[i] \in S
OBVIOUS

\* A log's batches are batches.
LEMMA SetOfLog ==
    ASSUME LogsTyped, NEW n \in DOMAIN logs
    PROVE  /\ SetOf(logs[n].has) \subseteq 1..written
           /\ \A b : b \in SetOf(logs[n].has) <=> InLog(logs[n], b)
<1>1. logs[n].has \in Seq(1..written)
  BY DEF LogsTyped
<1>2. DOMAIN logs[n].has = 1..Len(logs[n].has)
  BY <1>1
<1> DEFINE s == logs[n].has
<1>3. SetOf(s) = {s[i] : i \in 1..Len(s)}
  BY <1>2 DEF SetOf
<1>6. s \in Seq(1..written)
  BY <1>1
<1> HIDE DEF s
<1>4. \A i \in 1..Len(s) : s[i] \in 1..written
  BY <1>6, SeqElements
<1>5. \A b : b \in SetOf(s) <=> \E i \in 1..Len(s) : s[i] = b
  BY <1>3
<1> QED BY <1>3, <1>4, <1>5 DEF InLog, s

\* Only a database in use has its MANIFEST open.
LEMMA OpenedIsUp ==
    ASSUME IInv, vs.opened
    PROVE  pc = "up" /\ current # 0 /\ vs.manifest = current /\ vs.manifest \in DOMAIN manifests
<1>1. pc \in {"down", "created", "recover"} => ~vs.opened
  BY DEF IInv, DownOK, NoVersionSet
<1>2. pc \in {"replay", "apply"} => ~vs.opened
  BY DEF IInv, OpeningOK
<1>3. pc = "up"
  BY <1>1, <1>2 DEF IInv, MemoryTyped
<1> QED BY <1>3 DEF IInv, UpOK, VersionOK, CurrentOK

\* Every step keeps the MANIFESTs well formed, with no more synced than written.
LEMMA ManifestsTypedKept == IInv /\ [Next]_vars => ManifestsTyped'
<1> SUFFICES ASSUME IInv, [Next]_vars
             PROVE  ManifestsTyped'
  OBVIOUS
<1>1. ManifestsTyped /\ MemoryTyped
  BY DEF IInv, DiskTyped
<1>2. CASE UNCHANGED manifests
  BY <1>1, <1>2 DEF ManifestsTyped
<1>3. CASE manifests' = WithRecord
  <2>1. vs.opened => vs.manifest \in DOMAIN manifests
    BY OpenedIsUp
  <2>2. vs.manifest \in Nat
    BY <1>1 DEF MemoryTyped
  <2> QED BY <1>1, <1>3, <2>1, <2>2, RecordWritten DEF ManifestsTyped
<1>4. ASSUME NEW S, manifests' = Without(manifests, S)
      PROVE  ManifestsTyped'
  <2>1. DOMAIN manifests' = DOMAIN manifests \ S /\ \A m \in DOMAIN manifests \ S : manifests'[m] = manifests[m]
    BY <1>4, WithoutIs
  <2> QED BY <1>1, <2>1 DEF ManifestsTyped
<1>5. CASE NewDB
  <2> DEFINE s == ApplyEdit(Nothing, [NoEdit EXCEPT !.next = 2])
             m == [after |-> <<s>>, synced |-> 0]
  <2>1. s \in State
    BY DEF ApplyEdit, Nothing, NoEdit, State
  <2> HIDE DEF s
  <2>2. <<s>> \in Seq(State) /\ Len(<<s>>) = 1
    BY <2>1
  <2>3. m \in [after : Seq(State), synced : Nat] /\ m.synced <= Len(m.after)
    BY <2>2
  <2> HIDE DEF m
  <2>4. manifests' = With(manifests, 1, m)
    BY <1>5 DEF NewDB, s, m
  <2>5. /\ DOMAIN manifests' = DOMAIN manifests \cup {1} /\ manifests'[1] = m
        /\ \A k \in DOMAIN manifests : k # 1 => manifests'[k] = manifests[k]
    BY <2>4 DEF With
  <2> QED BY <1>1, <2>3, <2>5 DEF ManifestsTyped
<1>6. CASE ApplySync
  <2> DEFINE c == vs.manifest
  <2>1. manifests' = [manifests EXCEPT ![c].synced = Len(manifests[c].after)]
    BY <1>6 DEF ApplySync
  <2>2. DOMAIN manifests' = DOMAIN manifests
    BY <2>1
  <2>3. ASSUME NEW m \in DOMAIN manifests
        PROVE  /\ manifests'[m] \in [after : Seq(State), synced : Nat]
               /\ manifests'[m].synced <= Len(manifests'[m].after)
    <3>1. manifests[m] \in [after : Seq(State), synced : Nat] /\ manifests[m].synced <= Len(manifests[m].after)
      BY <1>1 DEF ManifestsTyped
    <3>2. CASE m # c
      BY <2>1, <3>1, <3>2
    <3>3. CASE m = c
      <4> DEFINE old == manifests[c]
      <4>1. manifests'[m] = [old EXCEPT !.synced = Len(old.after)]
        BY <2>1, <3>3
      <4>2. old \in [after : Seq(State), synced : Nat]
        BY <3>1, <3>3
      <4> HIDE DEF old
      <4>3. Len(old.after) \in Nat
        BY <4>2
      <4> QED BY <4>1, <4>2, <4>3
    <3> QED BY <3>2, <3>3
  <2> QED BY <1>1, <2>2, <2>3 DEF ManifestsTyped
<1>7. CASE MachineCrash
  <2>1. PICK lost \in [DOMAIN manifests -> 0..2] :
            manifests' = [m \in DOMAIN manifests |->
                [manifests[m] EXCEPT !.after = Cut(@, manifests[m].synced, lost[m])]]
    BY <1>7 DEF MachineCrash
  <2>2. DOMAIN manifests' = DOMAIN manifests
    BY <2>1
  <2>3. ASSUME NEW m \in DOMAIN manifests
        PROVE  /\ manifests'[m] \in [after : Seq(State), synced : Nat]
               /\ manifests'[m].synced <= Len(manifests'[m].after)
    <3> DEFINE old == manifests[m]
               cut == Cut(old.after, old.synced, lost[m])
    <3>1. old \in [after : Seq(State), synced : Nat] /\ old.synced <= Len(old.after)
      BY <1>1 DEF ManifestsTyped
    <3>2. lost[m] \in 0..2
      OBVIOUS
    <3>3. manifests'[m] = [old EXCEPT !.after = cut]
      BY <2>1
    <3> HIDE DEF old
    <3>4. cut \in Seq(State) /\ old.synced <= Len(cut)
      BY <3>1, <3>2, CutIs
    <3> HIDE DEF cut
    <3> QED BY <3>1, <3>3, <3>4
  <2> QED BY <1>1, <2>2, <2>3 DEF ManifestsTyped
<1>8. CASE Install
  BY <1>2, <1>4, <1>8 DEF Install, DeleteObsoleteFiles
<1>9. CASE CrashInDelete
  BY <1>4, <1>9 DEF CrashInDelete
<1>10. CASE Crash
  BY <1>2, <1>7, <1>10 DEF Crash, ProcessCrash, disk
<1>11. CASE ApplyRecord \/ SetCurrentFile \/ ApplyError
  BY <1>2, <1>3, <1>4, <1>11 DEF ApplyRecord, SetCurrentFile, ApplyError
<1>12. CASE NewDBCurrent \/ Recover \/ RecoverLogFile \/ NewLog
  BY <1>2, <1>12 DEF NewDBCurrent, Recover, RecoverLogFile, NewLog, disk
<1>13. CASE Background \/ Write \/ SwitchMemTable \/ Read \/ UNCHANGED vars
  BY <1>2, <1>13 DEF Background, FlushBegin, FlushEnd, MergeBegin, OpenCompactionOutputFile,
                     InstallCompactionResults, Write, SwitchMemTable, Read, vars, disk
<1> QED BY <1>5, <1>6, <1>8, <1>9, <1>10, <1>11, <1>12, <1>13 DEF Next, Open, LogAndApply

\* Every step keeps the tables well formed.
LEMMA TablesTypedKept == IInv /\ [Next]_vars => TablesTyped'
<1> SUFFICES ASSUME IInv, [Next]_vars
             PROVE  TablesTyped'
  OBVIOUS
<1>1. TablesTyped /\ LogsTyped /\ GhostsTyped /\ MemoryTyped
  BY DEF IInv, DiskTyped
<1>2. CASE UNCHANGED <<tables, written>>
  BY <1>1, <1>2 DEF TablesTyped
<1>3. ASSUME NEW S, tables' = Without(tables, S), UNCHANGED written
      PROVE  TablesTyped'
  <2>1. DOMAIN tables' = DOMAIN tables \ S /\ \A t \in DOMAIN tables \ S : tables'[t] = tables[t]
    BY <1>3, WithoutIs
  <2> QED BY <1>1, <1>3, <2>1 DEF TablesTyped
<1>4. ASSUME NEW n \in Nat, NEW has \in SUBSET (1..written), NEW whole \in BOOLEAN,
             tables' = With(tables, n, [has |-> has, whole |-> whole]), UNCHANGED written
      PROVE  TablesTyped'
  <2> DEFINE v == [has |-> has, whole |-> whole]
  <2>1. v \in [has : SUBSET (1..written), whole : BOOLEAN]
    BY <1>4
  <2>2. tables' = With(tables, n, v)
    BY <1>4
  <2> HIDE DEF v
  <2>3. /\ DOMAIN tables' = DOMAIN tables \cup {n} /\ tables'[n] = v
        /\ \A k \in DOMAIN tables : k # n => tables'[k] = tables[k]
    BY <2>2 DEF With
  <2> QED BY <1>1, <1>4, <2>1, <2>3 DEF TablesTyped
<1>5. CASE RecoverLogFile
  <2>1. PICK n \in replay.logs :
            tables' = IF SetOf(logs[n].has) = {} THEN tables
                      ELSE With(tables, vs.next, [has |-> SetOf(logs[n].has), whole |-> TRUE])
    BY <1>5 DEF RecoverLogFile
  <2>2. n \in DOMAIN logs /\ vs.next \in Nat
    BY <1>1, <1>5 DEF RecoverLogFile, IInv, Replaying, MemoryTyped
  <2>3. SetOf(logs[n].has) \in SUBSET (1..written)
    BY <1>1, <2>2, SetOfLog
  <2>4. UNCHANGED written
    BY <1>5 DEF RecoverLogFile, ghosts
  <2>5. CASE SetOf(logs[n].has) = {}
    BY <1>2, <2>1, <2>4, <2>5
  <2>6. CASE SetOf(logs[n].has) # {}
    <3>1. tables' = With(tables, vs.next, [has |-> SetOf(logs[n].has), whole |-> TRUE])
      BY <2>1, <2>6
    <3> DEFINE h == SetOf(logs[n].has)
    <3> HIDE DEF h
    <3> QED BY <1>4, <2>2, <2>3, <2>4, <3>1 DEF h
  <2> QED BY <2>5, <2>6
<1>6. CASE FlushBegin \/ OpenCompactionOutputFile
  <2>1. tables' = With(tables, vs.next, [has |-> {}, whole |-> FALSE]) /\ UNCHANGED written
    BY <1>6 DEF FlushBegin, OpenCompactionOutputFile, ghosts
  <2>2. vs.next \in Nat
    BY <1>1 DEF MemoryTyped
  <2> QED BY <1>4, <2>1, <2>2
<1>7. CASE FlushEnd
  <2>1. tables' = [tables EXCEPT ![flush] = [has |-> imm, whole |-> TRUE]] /\ UNCHANGED written
    BY <1>7 DEF FlushEnd, ghosts
  <2>2. imm \subseteq 1..written
    BY <1>1 DEF MemoryTyped
  <2>3. DOMAIN tables' = DOMAIN tables
        /\ \A t \in DOMAIN tables : tables'[t] = IF t = flush THEN [has |-> imm, whole |-> TRUE] ELSE tables[t]
    BY <2>1
  <2> QED BY <1>1, <2>1, <2>2, <2>3 DEF TablesTyped
<1>8. CASE InstallCompactionResults
  <2> DEFINE all == UNION {tables[i].has : i \in merge.inputs}
  <2>1. tables' = [t \in DOMAIN tables |->
                      IF t \in merge.outs THEN [has |-> all, whole |-> TRUE] ELSE tables[t]]
        /\ UNCHANGED written
    BY <1>8 DEF InstallCompactionResults, ghosts
  <2>2. merge.inputs \subseteq DOMAIN tables
    <3>1. pc = "up"
      BY <1>8 DEF IInv, DownOK, OpeningOK, InstallCompactionResults, MemoryTyped, NoMerge
    <3> QED BY <3>1 DEF IInv, UpOK, VersionOK, WholeIn
  <2>3. \A i \in merge.inputs : tables[i].has \subseteq 1..written
    BY <1>1, <2>2 DEF TablesTyped
  <2>4. all \subseteq 1..written
    BY <2>3
  <2> HIDE DEF all
  <2> QED BY <1>1, <2>1, <2>4 DEF TablesTyped
<1>9. CASE Install
  <2>1. UNCHANGED written
    BY <1>9 DEF Install, ghosts
  <2> QED BY <1>2, <1>3, <1>9, <2>1 DEF Install, DeleteObsoleteFiles
<1>10. CASE CrashInDelete
  BY <1>3, <1>10 DEF CrashInDelete
<1>11. CASE Write
  <2>1. UNCHANGED tables /\ written' = written + 1
    BY <1>11 DEF Write
  <2>2. 1..written \subseteq 1..written'
    BY <1>1, <2>1 DEF GhostsTyped
  <2> QED BY <1>1, <2>1, <2>2 DEF TablesTyped
<1>12. CASE NewDB \/ NewDBCurrent \/ Recover \/ NewLog \/ ApplyRecord \/ ApplySync \/ SetCurrentFile
  BY <1>2, <1>12 DEF NewDB, NewDBCurrent, Recover, NewLog, ApplyRecord, ApplySync, SetCurrentFile, disk, ghosts
<1>13. CASE ApplyError \/ Crash \/ MergeBegin \/ SwitchMemTable \/ Read \/ UNCHANGED vars
  BY <1>2, <1>13 DEF ApplyError, Crash, ProcessCrash, MachineCrash, MergeBegin, SwitchMemTable, Read,
                     vars, disk, ghosts
<1> QED BY <1>5, <1>6, <1>7, <1>8, <1>9, <1>10, <1>11, <1>12, <1>13
        DEF Next, Open, LogAndApply, Background

\* Every step keeps the logs well formed.
LEMMA LogsTypedKept == IInv /\ [Next]_vars => LogsTyped'
<1> SUFFICES ASSUME IInv, [Next]_vars
             PROVE  LogsTyped'
  OBVIOUS
<1>1. LogsTyped /\ GhostsTyped /\ MemoryTyped
  BY DEF IInv, DiskTyped
<1>2. CASE UNCHANGED <<logs, written>>
  BY <1>1, <1>2 DEF LogsTyped
<1>3. ASSUME NEW S, logs' = Without(logs, S), UNCHANGED written
      PROVE  LogsTyped'
  <2>1. DOMAIN logs' = DOMAIN logs \ S /\ \A n \in DOMAIN logs \ S : logs'[n] = logs[n]
    BY <1>3, WithoutIs
  <2> QED BY <1>1, <1>3, <2>1 DEF LogsTyped
<1>4. CASE NewLog \/ SwitchMemTable
  <2> DEFINE g == [has |-> <<>>, synced |-> 0]
  <2>1. logs' = With(logs, vs.next, g) /\ UNCHANGED written /\ vs.next \in Nat
    BY <1>1, <1>4 DEF NewLog, SwitchMemTable, ghosts, MemoryTyped
  <2>2. g \in [has : Seq(1..written), synced : Nat] /\ g.synced <= Len(g.has)
    OBVIOUS
  <2> HIDE DEF g
  <2>3. /\ DOMAIN logs' = DOMAIN logs \cup {vs.next} /\ logs'[vs.next] = g
        /\ \A k \in DOMAIN logs : k # vs.next => logs'[k] = logs[k]
    BY <2>1 DEF With
  <2> QED BY <1>1, <2>1, <2>2, <2>3 DEF LogsTyped
<1>5. CASE Write
  <2> DEFINE has == Append(logs[log].has, written')
  <2>1. PICK sync \in BOOLEAN :
            logs' = [logs EXCEPT ![log] = [has |-> has, synced |-> IF sync THEN Len(has) ELSE @.synced]]
    BY <1>5 DEF Write
  <2>2. written' = written + 1 /\ written \in Nat
    BY <1>1, <1>5 DEF Write, GhostsTyped
  <2>3. DOMAIN logs' = DOMAIN logs
        /\ \A n \in DOMAIN logs : logs'[n] = IF n = log
               THEN [has |-> has, synced |-> IF sync THEN Len(has) ELSE logs[log].synced] ELSE logs[n]
    BY <2>1
  <2>4. ASSUME NEW n \in DOMAIN logs
        PROVE  n \in Nat /\ logs'[n] \in [has : Seq(1..written'), synced : Nat]
                         /\ logs'[n].synced <= Len(logs'[n].has)
    <3> DEFINE s == logs[n].has
    <3>1. n \in Nat /\ s \in Seq(1..written) /\ logs[n].synced \in Nat /\ logs[n].synced <= Len(s)
          /\ logs[n] = [has |-> s, synced |-> logs[n].synced]
      BY <1>1 DEF LogsTyped
    <3> HIDE DEF s
    <3>2. s \in Seq(1..written')
      <4>1. 1..written \subseteq 1..written'
        BY <2>2
      <4> QED BY <3>1, <4>1, SeqMonotone
    <3>3. CASE n # log
      BY <2>3, <3>1, <3>2, <3>3
    <3>4. CASE n = log
      <4>1. has = Append(s, written')
        BY <3>4 DEF s
      <4>2. written' \in 1..written'
        BY <2>2
      <4>3. Append(s, written') \in Seq(1..written') /\ Len(Append(s, written')) = Len(s) + 1 /\ Len(s) \in Nat
        BY <3>2, <4>2
      <4> DEFINE r == [has |-> has, synced |-> IF sync THEN Len(has) ELSE logs[log].synced]
      <4>4. logs'[n] = r
        BY <2>3, <3>4
      <4> HIDE DEF has
      <4>5. logs[log].synced \in Nat /\ logs[log].synced <= Len(s)
        BY <3>1, <3>4
      <4>6. r.has = has /\ r.synced \in Nat /\ r.synced <= Len(has) /\ r \in [has : Seq(1..written'), synced : Nat]
        BY <4>1, <4>3, <4>5
      <4> HIDE DEF r
      <4> QED BY <3>1, <4>4, <4>6
    <3> QED BY <3>3, <3>4
  <2> QED BY <2>3, <2>4 DEF LogsTyped
<1>6. CASE MachineCrash /\ UNCHANGED written
  <2>1. PICK lost \in [DOMAIN logs -> 0..2] :
            logs' = [n \in DOMAIN logs |-> [logs[n] EXCEPT !.has = Cut(@, logs[n].synced, lost[n])]]
    BY <1>6 DEF MachineCrash
  <2>2. DOMAIN logs' = DOMAIN logs
    BY <2>1
  <2>3. ASSUME NEW n \in DOMAIN logs
        PROVE  n \in Nat /\ logs'[n] \in [has : Seq(1..written), synced : Nat]
                         /\ logs'[n].synced <= Len(logs'[n].has)
    <3> DEFINE old == logs[n]
               cut == Cut(old.has, old.synced, lost[n])
    <3>1. n \in Nat /\ old \in [has : Seq(1..written), synced : Nat] /\ old.synced <= Len(old.has)
      BY <1>1 DEF LogsTyped
    <3>2. lost[n] \in 0..2
      OBVIOUS
    <3>3. logs'[n] = [old EXCEPT !.has = cut]
      BY <2>1
    <3> HIDE DEF old
    <3>4. cut \in Seq(1..written) /\ old.synced <= Len(cut)
      BY <3>1, <3>2, CutIs
    <3> HIDE DEF cut
    <3> QED BY <3>1, <3>3, <3>4
  <2> QED BY <1>6, <2>2, <2>3 DEF LogsTyped
<1>7. CASE Install
  <2>1. UNCHANGED written
    BY <1>7 DEF Install, ghosts
  <2> QED BY <1>2, <1>3, <1>7, <2>1 DEF Install, DeleteObsoleteFiles
<1>8. CASE CrashInDelete
  BY <1>3, <1>8 DEF CrashInDelete
<1>9. CASE Crash
  BY <1>2, <1>6, <1>9 DEF Crash, ProcessCrash, disk
<1>10. CASE NewDB \/ NewDBCurrent \/ Recover \/ RecoverLogFile \/ ApplyRecord \/ ApplySync \/ SetCurrentFile
  BY <1>2, <1>10 DEF NewDB, NewDBCurrent, Recover, RecoverLogFile, ApplyRecord, ApplySync, SetCurrentFile,
                     disk, ghosts
<1>11. CASE ApplyError \/ Background \/ Read \/ UNCHANGED vars
  BY <1>2, <1>11 DEF ApplyError, Background, FlushBegin, FlushEnd, MergeBegin, OpenCompactionOutputFile,
                     InstallCompactionResults, Read, vars, disk, ghosts
<1> QED BY <1>4, <1>5, <1>7, <1>8, <1>9, <1>10, <1>11 DEF Next, Open, LogAndApply

\* Every step keeps the counters and the batches promised within bounds.
LEMMA GhostsTypedKept == IInv /\ [Next]_vars => GhostsTyped'
<1> SUFFICES ASSUME IInv, [Next]_vars
             PROVE  GhostsTyped'
  OBVIOUS
<1>1. GhostsTyped /\ MemoryTyped
  BY DEF IInv, DiskTyped
<1>2. CASE Write
  <2>1. written' = written + 1 /\ promised' = promised \cup {written'} /\ UNCHANGED <<current, crashes>>
    BY <1>2 DEF Write
  <2>2. PICK sync \in BOOLEAN : durable' = durable \cup (IF sync THEN {written'} ELSE {})
    BY <1>2 DEF Write
  <2>3. 1..written \subseteq 1..written' /\ written' \in 1..written' /\ written' \in Nat
    BY <1>1, <2>1 DEF GhostsTyped
  <2> QED BY <1>1, <2>1, <2>2, <2>3 DEF GhostsTyped
<1>3. CASE UNCHANGED <<current, written, crashes, durable, promised>>
  BY <1>1, <1>3 DEF GhostsTyped
<1>4. CASE NewDBCurrent \/ SetCurrentFile \/ ApplyError \/ CrashInDelete
  BY <1>1, <1>4 DEF NewDBCurrent, SetCurrentFile, ApplyError, CrashInDelete, GhostsTyped, ghosts, MemoryTyped
<1>5. CASE Crash
  BY <1>1, <1>5 DEF Crash, ProcessCrash, MachineCrash, GhostsTyped, disk
<1>6. CASE NewDB \/ Recover \/ RecoverLogFile \/ NewLog \/ ApplyRecord \/ ApplySync \/ Install
  BY <1>3, <1>6 DEF NewDB, Recover, RecoverLogFile, NewLog, ApplyRecord, ApplySync, Install, ghosts, disk
<1>7. CASE Background \/ SwitchMemTable \/ Read \/ UNCHANGED vars
  BY <1>3, <1>7 DEF Background, FlushBegin, FlushEnd, MergeBegin, OpenCompactionOutputFile,
                    InstallCompactionResults, SwitchMemTable, Read, vars, ghosts, disk
<1> QED BY <1>2, <1>4, <1>5, <1>6, <1>7 DEF Next, Open, LogAndApply

\* A process that begins has memory of the right shape.
LEMMA ForgottenTyped == Forgotten /\ pc' = "down" => MemoryTyped' /\ DownOK' /\ Replaying' /\ Writing' /\ OpeningOK' /\ UpOK'
<1> SUFFICES ASSUME Forgotten, pc' = "down"
             PROVE  MemoryTyped' /\ DownOK' /\ Replaying' /\ Writing' /\ OpeningOK' /\ UpOK'
  OBVIOUS
<1>1. MemoryTyped'
  BY DEF Forgotten, MemoryTyped, NoVersionSet, NoReplay, NoMerge, NoApply, NoEdit, Edit
<1>2. DownOK'
  BY DEF Forgotten, DownOK
<1> QED BY <1>1, <1>2 DEF Replaying, Writing, OpeningOK, UpOK

\* No merge and no edit have the right shape too.
LEMMA NothingTyped ==
    /\ NoMerge \in [inputs : SUBSET Nat, outs : SUBSET Nat, whole : BOOLEAN]
    /\ NoReplay \in [logs : SUBSET Nat, made : SUBSET Nat]
    /\ NoApply \in [who : {"none", "open", "flush", "merge"}, edit : Edit,
                    stage : {"none", "record", "sync", "current", "install"}]
BY DEF NoMerge, NoReplay, NoApply, NoEdit, Edit

\* Every step keeps the memory well formed.
LEMMA MemoryTypedKept == IInv /\ [Next]_vars => MemoryTyped'
<1> SUFFICES ASSUME IInv, [Next]_vars
             PROVE  MemoryTyped'
  OBVIOUS
<1>1. ManifestsTyped /\ LogsTyped /\ GhostsTyped /\ MemoryTyped
  BY DEF IInv, DiskTyped
<1>2. CASE NewDB \/ NewDBCurrent \/ Read \/ UNCHANGED vars
  BY <1>1, <1>2 DEF NewDB, NewDBCurrent, Read, vars, memory, MemoryTyped, ghosts
<1>3. CASE Recover
  <2>1. current \in DOMAIN manifests
    BY <1>3 DEF Recover, Readable
  <2>2. Recovered(current) \in State
    BY <1>1, <2>1, RecoveredIs
  <2>3. LogsToReplay(current) \subseteq Nat
    BY <1>1 DEF LogsToReplay, LogsTyped
  <2>4. vs' \in [version : SUBSET Nat, next : Nat, log : Nat, manifest : Nat, opened : BOOLEAN]
    BY <1>3, <2>2 DEF Recover, State
  <2>5. replay' \in [logs : SUBSET Nat, made : SUBSET Nat]
    BY <1>3, <2>3 DEF Recover
  <2> QED BY <1>1, <1>3, <2>4, <2>5 DEF Recover, MemoryTyped, ghosts, disk
<1>4. CASE RecoverLogFile
  <2>1. PICK n \in replay.logs :
            LET has == SetOf(logs[n].has)
                made == IF has = {} THEN {} ELSE {vs.next}
            IN  /\ replay' = [logs |-> replay.logs \ {n}, made |-> replay.made \cup made]
                /\ vs' = [vs EXCEPT !.next = After(vs.next + Cardinality(made), n)]
    BY <1>4 DEF RecoverLogFile
  <2> DEFINE made == IF SetOf(logs[n].has) = {} THEN {} ELSE {vs.next}
  <2>2. vs.next \in Nat /\ n \in Nat
    BY <1>1 DEF MemoryTyped
  <2>3. made \subseteq Nat /\ Cardinality(made) \in Nat
    BY <2>2, FS_EmptySet, FS_Singleton
  <2>4. replay' = [logs |-> replay.logs \ {n}, made |-> replay.made \cup made]
        /\ vs' = [vs EXCEPT !.next = After(vs.next + Cardinality(made), n)]
    BY <2>1
  <2> HIDE DEF made
  <2>5. After(vs.next + Cardinality(made), n) \in Nat
    BY <2>2, <2>3 DEF After
  <2>6. vs' \in [version : SUBSET Nat, next : Nat, log : Nat, manifest : Nat, opened : BOOLEAN]
    BY <1>1, <2>4, <2>5 DEF MemoryTyped
  <2>7. replay' \in [logs : SUBSET Nat, made : SUBSET Nat]
    BY <1>1, <2>3, <2>4 DEF MemoryTyped
  <2> QED BY <1>1, <1>4, <2>6, <2>7 DEF RecoverLogFile, MemoryTyped, ghosts
<1>5. CASE NewLog
  <2>1. vs' \in [version : SUBSET Nat, next : Nat, log : Nat, manifest : Nat, opened : BOOLEAN]
    BY <1>1, <1>5 DEF NewLog, MemoryTyped
  <2>2. applying' \in [who : {"none", "open", "flush", "merge"}, edit : Edit,
                       stage : {"none", "record", "sync", "current", "install"}]
    BY <1>1, <1>5 DEF NewLog, MemoryTyped, Edit
  <2> QED BY <1>1, <1>5, <2>1, <2>2 DEF NewLog, MemoryTyped, ghosts
<1>6. CASE ApplyRecord \/ ApplySync \/ SetCurrentFile
  <2>1. applying' \in [who : {"none", "open", "flush", "merge"}, edit : Edit,
                       stage : {"none", "record", "sync", "current", "install"}]
    BY <1>1, <1>6 DEF ApplyRecord, ApplySync, SetCurrentFile, MemoryTyped
  <2> QED BY <1>1, <1>6, <2>1 DEF ApplyRecord, ApplySync, SetCurrentFile, MemoryTyped, ghosts
<1>7. CASE ApplyError
  <2>1. CASE applying.who = "open"
    BY <1>7, <2>1, ForgottenTyped DEF ApplyError
  <2>2. CASE applying.who # "open"
    <3>1. /\ UNCHANGED <<pc, vs, replay, log, mem, imm, reader, written>> /\ failed' = TRUE /\ applying' = NoApply
          /\ flush' \in {0, flush} /\ merge' \in {NoMerge, merge}
      BY <1>7, <2>2 DEF ApplyError
    <3> QED BY <1>1, <3>1, NothingTyped DEF MemoryTyped
  <2> QED BY <2>1, <2>2
<1>8. CASE Install
  <2>1. vs' \in [version : SUBSET Nat, next : Nat, log : Nat, manifest : Nat, opened : BOOLEAN]
    BY <1>1, <1>8 DEF Install, Installed, MemoryTyped, Edit
  <2>2. /\ UNCHANGED <<log, mem, failed, reader, written>> /\ applying' = NoApply /\ replay' = NoReplay
        /\ flush' \in {0, flush} /\ imm' \in {{}, imm} /\ merge' \in {NoMerge, merge} /\ pc' = "up"
    BY <1>8 DEF Install, ghosts
  <2>3. imm' \subseteq 1..written'
    BY <1>1, <2>2 DEF MemoryTyped
  <2>4. merge' \in [inputs : SUBSET Nat, outs : SUBSET Nat, whole : BOOLEAN] /\ flush' \in Nat
    BY <1>1, <2>2, NothingTyped DEF MemoryTyped
  <2> QED BY <1>1, <2>1, <2>2, <2>3, <2>4, NothingTyped DEF MemoryTyped
<1>9. CASE Crash \/ CrashInDelete
  BY <1>9, ForgottenTyped DEF Crash, CrashInDelete
<1>10. CASE Write
  <2>1. written' = written + 1 /\ mem' = mem \cup {written'} /\ UNCHANGED <<pc, vs, replay, log, imm, flush, merge, applying, failed, reader>>
    BY <1>10 DEF Write
  <2>3. 1..written \subseteq 1..written' /\ written' \in 1..written'
    BY <1>1, <2>1 DEF GhostsTyped
  <2> QED BY <1>1, <2>1, <2>3 DEF MemoryTyped
<1>11. CASE SwitchMemTable \/ FlushBegin
  <2>1. vs' \in [version : SUBSET Nat, next : Nat, log : Nat, manifest : Nat, opened : BOOLEAN]
    BY <1>1, <1>11 DEF SwitchMemTable, FlushBegin, MemoryTyped
  <2> QED BY <1>1, <1>11, <2>1 DEF SwitchMemTable, FlushBegin, MemoryTyped, ghosts
<1>12. CASE FlushEnd \/ InstallCompactionResults
  <2>1. applying' \in [who : {"none", "open", "flush", "merge"}, edit : Edit,
                       stage : {"none", "record", "sync", "current", "install"}]
    BY <1>1, <1>12 DEF FlushEnd, InstallCompactionResults, MemoryTyped, Edit
  <2>2. merge' \in [inputs : SUBSET Nat, outs : SUBSET Nat, whole : BOOLEAN]
    BY <1>1, <1>12 DEF FlushEnd, InstallCompactionResults, MemoryTyped
  <2> QED BY <1>1, <1>12, <2>1, <2>2 DEF FlushEnd, InstallCompactionResults, MemoryTyped, ghosts
<1>13. CASE MergeBegin
  <2>1. merge' \in [inputs : SUBSET Nat, outs : SUBSET Nat, whole : BOOLEAN]
    BY <1>1, <1>13 DEF MergeBegin, MemoryTyped, NoMerge
  <2> QED BY <1>1, <1>13, <2>1 DEF MergeBegin, MemoryTyped, ghosts
<1>14. CASE OpenCompactionOutputFile
  <2>1. merge' \in [inputs : SUBSET Nat, outs : SUBSET Nat, whole : BOOLEAN]
    BY <1>1, <1>14 DEF OpenCompactionOutputFile, MemoryTyped
  <2>2. vs' \in [version : SUBSET Nat, next : Nat, log : Nat, manifest : Nat, opened : BOOLEAN]
    BY <1>1, <1>14 DEF OpenCompactionOutputFile, MemoryTyped
  <2> QED BY <1>1, <1>14, <2>1, <2>2 DEF OpenCompactionOutputFile, MemoryTyped, ghosts
<1> QED BY <1>2, <1>3, <1>4, <1>5, <1>6, <1>7, <1>8, <1>9, <1>10, <1>11, <1>12, <1>13, <1>14
        DEF Next, Open, LogAndApply, Background

-----------------------------------------------------------------------------
(* What CURRENT names stays good. *)

\* The last state of the MANIFEST is one of those that a crash may leave, is
\* what opening reads, and is good.
LEMMA LastIsKept ==
    ASSUME DiskTyped, CurrentOK, current # 0
    PROVE  /\ current \in DOMAIN manifests
           /\ Len(manifests[current].after) \in Kept(manifests[current])
           /\ LastState \in State /\ Recovered(current) = LastState
           /\ Good(LastState, current, tables, logs, durable)
           /\ \A i \in Kept(manifests[current]) :
                  /\ manifests[current].after[i] \in State
                  /\ Below(manifests[current].after[i].version, LastState.next)
<1> DEFINE m == manifests[current]
<1>1. current \in DOMAIN manifests /\ ManifestOK(m, current, tables, logs, promised, durable)
  BY DEF CurrentOK
<1>2. m \in [after : Seq(State), synced : Nat] /\ m.synced <= Len(m.after) /\ ManifestsTyped
  BY <1>1 DEF DiskTyped, ManifestsTyped
<1>3. Recovered(current) \in State /\ (Len(m.after) >= 1 => Recovered(current) = Final(m))
  BY <1>1, <1>2, RecoveredIs
<1> HIDE DEF m
<1>4. Len(m.after) \in Kept(m) /\ Len(m.after) >= 1
  <2>1. m.after \in Seq(State) /\ m.synced \in Nat
    BY <1>2
  <2> QED BY <1>1, <1>2, <2>1 DEF ManifestOK, Kept
<1>5. \A i \in Kept(m) : m.after[i] \in State
  <2> DEFINE s == m.after
  <2>1. s \in Seq(State)
    BY <1>2
  <2> HIDE DEF s
  <2>2. \A i \in 1..Len(s) : s[i] \in State
    BY <2>1, SeqElements
  <2> QED BY <2>2 DEF Kept, s
<1>6. \A i \in Kept(m) : i <= Len(m.after)
  BY <1>2 DEF Kept
<1>7. Good(Final(m), current, tables, logs, durable)
  BY <1>1, <1>4 DEF ManifestOK, Final
<1>8. \A i \in Kept(m) : Below(m.after[i].version, Final(m).next)
  BY <1>1, <1>4, <1>6 DEF ManifestOK, Final
<1> QED BY <1>1, <1>3, <1>4, <1>5, <1>7, <1>8 DEF m, LastState

\* What a log has synced is in it.
LEMMA SyncedInLog ==
    ASSUME DiskTyped
    PROVE  \A n \in DOMAIN logs : \A b : InSynced(logs[n], b) => InLog(logs[n], b)
<1> SUFFICES ASSUME NEW n \in DOMAIN logs, NEW b, InSynced(logs[n], b)
             PROVE  InLog(logs[n], b)
  OBVIOUS
<1>1. logs[n].synced \in Nat /\ logs[n].synced <= Len(logs[n].has) /\ logs[n].has \in Seq(1..written)
  BY DEF DiskTyped, LogsTyped
<1>2. 1..logs[n].synced \subseteq 1..Len(logs[n].has)
  BY <1>1
<1> QED BY <1>2 DEF InSynced, InLog

\* A number that is not yet in use is in no version.
LEMMA FreshNumber ==
    ASSUME DiskTyped, CurrentOK, current # 0, NEW n \in Nat, LastState.next <= n
    PROVE  \A i \in Kept(manifests[current]) : n \notin manifests[current].after[i].version
<1>1. LastState.next \in Nat
  BY LastIsKept DEF State
<1>2. \A i \in Kept(manifests[current]) : Below(manifests[current].after[i].version, LastState.next)
  BY LastIsKept
<1> QED BY <1>1, <1>2 DEF Below

\* Tables in no version may be written.
LEMMA TablesWritten ==
    ASSUME DiskTyped, CurrentOK, current # 0, NEW us, NEW X,
           DOMAIN tables \subseteq DOMAIN us, \A t \in DOMAIN tables \ X : us[t] = tables[t],
           \A i \in Kept(manifests[current]) : X \cap manifests[current].after[i].version = {}
    PROVE  ManifestOK(manifests[current], current, us, logs, promised, durable)
<1> DEFINE m == manifests[current]
<1>1. current \in DOMAIN manifests /\ ManifestOK(m, current, tables, logs, promised, durable)
  BY DEF CurrentOK
<1>2. m \in [after : Seq(State), synced : Nat] /\ m.synced <= Len(m.after)
  BY <1>1 DEF DiskTyped, ManifestsTyped
<1>3. \A i \in Kept(m) : X \cap m.after[i].version = {}
  OBVIOUS
<1> HIDE DEF m
<1>4. \A i \in Kept(m) : \A t \in m.after[i].version :
          t \in DOMAIN us /\ us[t].whole /\ tables[t].has \subseteq us[t].has
  <2>1. \A i \in Kept(m) : \A t \in m.after[i].version : t \in DOMAIN tables /\ tables[t].whole
    BY <1>1 DEF ManifestOK, Good, WholeIn
  <2> QED BY <1>3, <2>1
<1>5. ManifestOK(m, current, us, logs, promised, durable)
  BY <1>1, <1>2, <1>4, ManifestStays
<1> QED BY <1>5 DEF m

\* So may logs that are new.
LEMMA LogMade ==
    ASSUME DiskTyped, CurrentOK, current # 0, NEW ks,
           \A n \in DOMAIN logs : n \in DOMAIN ks /\ ks[n] = logs[n]
    PROVE  ManifestOK(manifests[current], current, tables, ks, promised, durable)
<1> DEFINE m == manifests[current]
<1>1. current \in DOMAIN manifests /\ ManifestOK(m, current, tables, logs, promised, durable)
  BY DEF CurrentOK
<1>2. m \in [after : Seq(State), synced : Nat] /\ m.synced <= Len(m.after)
  BY <1>1 DEF DiskTyped, ManifestsTyped
<1> HIDE DEF m
<1>3. \A i \in Kept(m) : \A t \in m.after[i].version :
          t \in DOMAIN tables /\ tables[t].whole /\ tables[t].has \subseteq tables[t].has
  BY <1>1 DEF ManifestOK, Good, WholeIn
<1>4. ManifestOK(m, current, tables, ks, promised, durable)
  BY <1>1, <1>2, <1>3, ManifestStays
<1> QED BY <1>4 DEF m

\* Before the new version is installed, the MANIFEST has it, synced.
LEMMA InstallReady ==
    ASSUME IInv, applying.stage = "install"
    PROVE  /\ pc \in {"apply", "up"} /\ current # 0 /\ vs.manifest = current
           /\ Kept(manifests[current]) = {Len(manifests[current].after)}
           /\ LastState.log = Installed.log
           /\ ~failed => LastState.version = Installed.version
<1>1. DiskTyped /\ MemoryTyped /\ CurrentOK
  BY DEF IInv
<1>2. pc \in {"apply", "up"}
  BY DEF IInv, DownOK, Replaying, MemoryTyped, NoApply
<1>3. Installed.log = (IF applying.edit.log = 0 THEN vs.log ELSE applying.edit.log)
      /\ Installed.version = (vs.version \ applying.edit.del) \cup applying.edit.add
  BY <1>1 DEF Installed, MemoryTyped
<1>4. CASE pc = "apply"
  <2>1. /\ vs.manifest \in DOMAIN manifests /\ manifests[vs.manifest].synced = 2
        /\ manifests[vs.manifest].after = <<Snapshot, ApplyEdit(Snapshot, applying.edit)>>
        /\ applying.edit.log = log /\ vs.manifest < log /\ vs.log < log
    BY <1>4 DEF IInv, Writing
  <2>2. current # 0 /\ current = vs.manifest
    BY <1>4 DEF IInv, OpeningOK
  <2>3. Len(manifests[current].after) = 2 /\ LastState = ApplyEdit(Snapshot, applying.edit)
    <3> DEFINE r == ApplyEdit(Snapshot, applying.edit)
               s == <<Snapshot, r>>
    <3> HIDE DEF r
    <3>1. Len(s) = 2 /\ s[2] = r
      OBVIOUS
    <3>2. manifests[current].after = s
      BY <2>1, <2>2 DEF r
    <3> HIDE DEF s
    <3> QED BY <3>1, <3>2 DEF r, LastState, Final
  <2>4. Kept(manifests[current]) = {2}
    <3> DEFINE m == manifests[current]
    <3>1. m.synced = 2 /\ Len(m.after) = 2
      BY <2>1, <2>2, <2>3
    <3> HIDE DEF m
    <3>2. Kept(m) = {2}
      BY <3>1 DEF Kept
    <3> QED BY <3>2 DEF m
  <2>5. Snapshot \in State /\ Snapshot.version = vs.version /\ applying.edit \in Edit
    BY <1>1, SnapshotIs DEF MemoryTyped
  <2>6. applying.edit.log # 0
    BY <1>1, <2>1 DEF MemoryTyped
  <2> QED BY <1>2, <1>3, <2>2, <2>3, <2>4, <2>5, <2>6, EditApplied
<1>5. CASE pc = "up"
  <2>1. current # 0 /\ vs.manifest = current
    BY <1>5 DEF IInv, UpOK, VersionOK
  <2>2. /\ LastState.log = applying.edit.log /\ manifests[current].synced = Len(manifests[current].after)
        /\ ~failed => LastState.version = (vs.version \ applying.edit.del) \cup applying.edit.add
    BY <1>5 DEF IInv, UpOK, RecordOK
  <2>3. applying.edit.log # 0
    BY <1>1, <1>5 DEF IInv, UpOK, EditOK, MemoryTyped, Edit
  <2>4. Kept(manifests[current]) = {Len(manifests[current].after)}
    <3>1. Len(manifests[current].after) \in Kept(manifests[current])
      BY <1>1, <2>1, LastIsKept
    <3> QED BY <2>2, <3>1 DEF Kept
  <2> QED BY <1>2, <1>3, <2>1, <2>2, <2>3, <2>4
<1> QED BY <1>2, <1>4, <1>5

\* What DeleteObsoleteFiles removes is not needed to open the database.
LEMMA RemovalIsSafe ==
    ASSUME IInv, applying.stage = "install", ~failed,
           NEW S, S \cap Installed.version = {}, NEW L, L \subseteq ObsoleteLogs(Installed),
           NEW D, D \subseteq ObsoleteManifests(Installed)
    PROVE  /\ current # 0 /\ current \in DOMAIN Without(manifests, D)
           /\ Without(manifests, D)[current] = manifests[current]
           /\ ManifestOK(manifests[current], current, Without(tables, S), Without(logs, L), promised, durable)
<1>1. DiskTyped /\ MemoryTyped /\ CurrentOK
  BY DEF IInv
<1>2. current # 0 /\ vs.manifest = current /\ Kept(manifests[current]) = {Len(manifests[current].after)}
      /\ LastState.log = Installed.log /\ LastState.version = Installed.version
  BY InstallReady
<1>3. current \in DOMAIN manifests /\ current \in Nat
  BY <1>1, <1>2, LastIsKept DEF DiskTyped, GhostsTyped
<1>4. current \notin D
  <2>1. Installed.manifest = current
    BY <1>1, <1>2 DEF Installed, MemoryTyped
  <2> QED BY <1>3, <2>1 DEF ObsoleteManifests
<1>5. current \in DOMAIN Without(manifests, D) /\ Without(manifests, D)[current] = manifests[current]
  BY <1>3, <1>4 DEF Without
<1> DEFINE us == Without(tables, S)
           ks == Without(logs, L)
           m == manifests[current]
<1>6. DOMAIN us = DOMAIN tables \ S /\ \A t \in DOMAIN tables \ S : us[t] = tables[t]
  BY WithoutIs
<1>7. DOMAIN ks = DOMAIN logs \ L /\ \A n \in DOMAIN logs \ L : ks[n] = logs[n]
  BY WithoutIs
<1>8. m \in [after : Seq(State), synced : Nat] /\ m.synced <= Len(m.after)
      /\ ManifestOK(m, current, tables, logs, promised, durable)
  BY <1>1, <1>2, <1>3 DEF DiskTyped, ManifestsTyped, CurrentOK
<1>9. \A i \in Kept(m) : m.after[i] = LastState
  BY <1>2 DEF LastState, Final
<1>10. WholeIn(LastState.version, tables)
  BY <1>1, <1>2, LastIsKept DEF Good
<1> HIDE DEF us, ks, m
<1>11. \A i \in Kept(m) : \A t \in m.after[i].version :
           t \in DOMAIN us /\ us[t].whole /\ tables[t].has \subseteq us[t].has
  BY <1>2, <1>6, <1>9, <1>10 DEF WholeIn
<1>12. \A n \in DOMAIN logs : n >= LastState.log => n \notin L
  <2>1. \A n \in DOMAIN logs : n \in Nat
    BY <1>1 DEF DiskTyped, LogsTyped
  <2>2. Installed.log \in Nat
    BY <1>1, <1>2, LastIsKept DEF State
  <2> QED BY <1>2, <2>1, <2>2 DEF ObsoleteLogs
<1>13. \A i \in Kept(m) : \A n \in DOMAIN logs : n >= m.after[i].log =>
           /\ n \in DOMAIN ks
           /\ \A b : (InLog(logs[n], b) => InLog(ks[n], b)) /\ (InSynced(logs[n], b) => InSynced(ks[n], b))
  BY <1>7, <1>9, <1>12
<1>14. ManifestOK(m, current, us, ks, promised, durable)
  BY <1>8, <1>11, <1>13, ManifestStays
<1> QED BY <1>2, <1>5, <1>14 DEF us, ks, m

\* A database in use adds a record to the MANIFEST: the state it gives is good,
\* because the edit's tables have what the log or the tables it drops had.
LEMMA RecordIs ==
    ASSUME IInv, pc = "up", applying.stage = "record"
    PROVE  LET r == ApplyEdit(LastState, applying.edit) IN
           /\ r \in State /\ r.log = applying.edit.log /\ r.next = applying.edit.next
           /\ r.version = (LastState.version \ applying.edit.del) \cup applying.edit.add
           /\ \A b : InTables(tables, LastState.version, b) => InTables(tables, r.version, b)
           /\ \A b : Finds(LastState, tables, logs, b) => Finds(r, tables, logs, b)
           /\ Good(r, current, tables, logs, durable)
<1> DEFINE e == applying.edit
           r == ApplyEdit(LastState, e)
<1>1. DiskTyped /\ MemoryTyped /\ CurrentOK /\ LogsOK /\ VersionOK /\ OutputsOK /\ EditOK /\ RecordOK
  BY DEF IInv, UpOK
<1>2. current # 0 /\ LastState \in State /\ Good(LastState, current, tables, logs, durable)
  BY <1>1, LastIsKept DEF VersionOK
<1>3. e \in Edit
  BY <1>1 DEF MemoryTyped
<1>4. /\ applying.who \in {"flush", "merge"} /\ 0 < e.log /\ e.log < e.next
      /\ WholeIn(e.add, tables) /\ current < e.next
      /\ applying.who = "flush" => e.log = log /\ e.add = {flush} /\ e.del = {} /\ tables[flush].has = imm
      /\ applying.who = "merge" => /\ e.log = vs.log /\ e.add = merge.outs /\ e.del = merge.inputs
                                   /\ merge.outs # {}
                                   /\ \A t \in merge.outs : \A b : b \in tables[t].has <=> InTables(tables, merge.inputs, b)
  BY <1>1 DEF EditOK
<1>5. e.log \in Nat /\ e.next \in Nat /\ e.log # 0 /\ e.next # 0
  BY <1>3, <1>4 DEF Edit
<1>6. r \in State /\ r.version = (LastState.version \ e.del) \cup e.add /\ r.log = e.log /\ r.next = e.next
  BY <1>2, <1>3, <1>5, EditApplied
<1> HIDE DEF e, r
<1>7. \A b : InTables(tables, LastState.version, b) => InTables(tables, r.version, b)
  <2>1. CASE applying.who = "flush"
    BY <1>4, <1>6, <2>1 DEF InTables
  <2>2. CASE applying.who = "merge"
    <3> SUFFICES ASSUME NEW b, NEW t \in LastState.version, b \in tables[t].has
                 PROVE  InTables(tables, r.version, b)
      BY DEF InTables
    <3>1. CASE t \in e.del
      BY <1>4, <1>6, <2>2, <3>1 DEF InTables
    <3>2. CASE t \notin e.del
      BY <1>6, <3>2 DEF InTables
    <3> QED BY <3>1, <3>2
  <2> QED BY <1>4, <2>1, <2>2
<1>8. \A n \in DOMAIN logs : n >= LastState.log /\ ~(n >= r.log) =>
          \A b : InLog(logs[n], b) => InTables(tables, r.version, b)
  <2> SUFFICES ASSUME NEW n \in DOMAIN logs, n >= LastState.log, ~(n >= r.log), NEW b, InLog(logs[n], b)
               PROVE  InTables(tables, r.version, b)
    OBVIOUS
  <2>1. n \in Nat /\ vs.log \in Nat /\ LastState.log \in Nat /\ vs.log <= LastState.log
    BY <1>1, <1>2 DEF DiskTyped, LogsTyped, MemoryTyped, State, RecordOK
  <2>2. applying.who = "flush" /\ n < log
    BY <1>4, <1>5, <1>6, <2>1
  <2>3. b \in imm \/ InTables(tables, vs.version, b)
    BY <1>1, <2>1, <2>2 DEF LogsOK
  <2>4. CASE b \in imm
    BY <1>4, <1>6, <2>2, <2>4 DEF InTables
  <2>5. CASE InTables(tables, vs.version, b)
    BY <1>1, <1>7, <2>5 DEF RecordOK
  <2> QED BY <2>3, <2>4, <2>5
<1>9. \A b : Finds(LastState, tables, logs, b) => Finds(r, tables, logs, b)
  BY <1>7, <1>8 DEF Finds
<1>10. \A n \in DOMAIN logs : \A b : InSynced(logs[n], b) => InLog(logs[n], b)
  BY <1>1, SyncedInLog
<1>11. \A b : FindsSynced(LastState, tables, logs, b) => FindsSynced(r, tables, logs, b)
  BY <1>7, <1>8, <1>10 DEF FindsSynced
<1>12. WholeIn(r.version, tables)
  BY <1>2, <1>4, <1>6 DEF Good, WholeIn
<1>13. Good(r, current, tables, logs, durable)
  BY <1>2, <1>4, <1>6, <1>11, <1>12 DEF Good
<1> QED BY <1>6, <1>7, <1>9, <1>13 DEF r, e

\* Then every state that a crash may leave is good.
LEMMA RecordAdded ==
    ASSUME IInv, pc = "up", applying.stage = "record", NEW m2,
           m2 = [after |-> Append(manifests[current].after, ApplyEdit(LastState, applying.edit)),
                 synced |-> manifests[current].synced]
    PROVE  /\ Final(m2) = ApplyEdit(LastState, applying.edit)
           /\ \A i \in Kept(m2) : (i \in Kept(manifests[current]) /\ m2.after[i] = manifests[current].after[i])
                                  \/ m2.after[i] = ApplyEdit(LastState, applying.edit)
           /\ ManifestOK(m2, current, tables, logs, promised, durable)
<1> DEFINE m == manifests[current]
           r == ApplyEdit(LastState, applying.edit)
<1>1. DiskTyped /\ CurrentOK /\ EditOK /\ current # 0 /\ MemoryTyped
  BY DEF IInv, UpOK, VersionOK
<1>2. /\ current \in DOMAIN manifests /\ ManifestOK(m, current, tables, logs, promised, durable)
      /\ m.after \in Seq(State) /\ m.synced \in Nat /\ m.synced <= Len(m.after)
  BY <1>1 DEF CurrentOK, DiskTyped, ManifestsTyped
<1>3. /\ r \in State /\ r.next = applying.edit.next
      /\ r.version = (LastState.version \ applying.edit.del) \cup applying.edit.add
      /\ \A b : Finds(LastState, tables, logs, b) => Finds(r, tables, logs, b)
      /\ Good(r, current, tables, logs, durable)
  BY RecordIs
<1>4. /\ LastState.next <= applying.edit.next
      /\ \A i \in Kept(m) : Below(m.after[i].version, applying.edit.next)
      /\ Below(applying.edit.add, applying.edit.next)
  BY <1>1 DEF EditOK
<1>5. LastState = m.after[Len(m.after)] /\ Len(m.after) \in Kept(m)
  BY <1>1, LastIsKept DEF LastState, Final
<1> HIDE DEF m, r
<1> DEFINE s == Append(m.after, r)
           k == Len(m.after)
<1>6. k \in Nat /\ Len(s) = k + 1 /\ s[k + 1] = r /\ \A i \in 1..k : s[i] = m.after[i]
  BY <1>2, <1>3
<1>7. m2.after = s /\ m2.synced = m.synced
  BY DEF m, r
<1>16. m.synced \in Nat /\ m.synced <= k /\ Kept(m) = {i \in 1..k : i >= m.synced}
  BY <1>2 DEF Kept
<1> HIDE DEF s, k
<1>17. Len(m2.after) = k + 1
  BY <1>6, <1>7
<1>8. Kept(m2) = Kept(m) \cup {k + 1}
  <2>1. Kept(m2) = {i \in 1..(k + 1) : i >= m.synced}
    BY <1>7, <1>17 DEF Kept
  <2>2. 1..(k + 1) = 1..k \cup {k + 1} /\ k + 1 >= m.synced
    BY <1>6, <1>16
  <2> QED BY <1>16, <2>1, <2>2
<1>9. \A i \in Kept(m) : m2.after[i] = m.after[i] /\ i <= k /\ i \in Nat
  BY <1>6, <1>7, <1>16
<1>10. m2.after[k + 1] = r /\ Final(m2) = r
  BY <1>6, <1>7 DEF Final
<1>11. \A i \in Kept(m2) : Good(m2.after[i], current, tables, logs, durable)
  BY <1>2, <1>3, <1>8, <1>9, <1>10 DEF ManifestOK
<1>12. \A b \in promised : Finds(Final(m2), tables, logs, b)
  BY <1>2, <1>3, <1>5, <1>10 DEF ManifestOK, Final
<1>13. ASSUME NEW i \in Kept(m2), NEW j \in Kept(m2), i <= j
       PROVE  Below(m2.after[i].version, m2.after[j].next)
  <2>1. CASE j \in Kept(m) /\ i \in Kept(m)
    BY <1>2, <1>9, <1>13, <2>1 DEF ManifestOK
  <2>2. CASE j = k + 1 /\ i \in Kept(m)
    BY <1>3, <1>4, <1>9, <1>10, <2>2
  <2>3. CASE j = k + 1 /\ i = k + 1
    <3>1. Below(LastState.version, applying.edit.next)
      BY <1>4, <1>5
    <3> QED BY <1>3, <1>4, <1>10, <2>3, <3>1 DEF Below
  <2>4. CASE j \in Kept(m) /\ i = k + 1
    <3>1. j <= k /\ j \in Nat /\ k \in Nat /\ i = k + 1
      BY <1>6, <1>9, <2>4
    <3>2. ~(i <= j)
      BY <3>1
    <3> QED BY <1>13, <3>2
  <2> QED BY <1>8, <2>1, <2>2, <2>3, <2>4
<1>14. ManifestOK(m2, current, tables, logs, promised, durable)
  <2>1. Len(m2.after) >= 1 /\ (current # 1 => m2.synced >= 1)
    BY <1>2, <1>6, <1>7, <1>17 DEF ManifestOK
  <2> QED BY <1>11, <1>12, <1>13, <2>1 DEF ManifestOK
<1>15. \A i \in Kept(m2) : (i \in Kept(m) /\ m2.after[i] = m.after[i]) \/ m2.after[i] = r
  BY <1>8, <1>9, <1>10
<1> QED BY <1>10, <1>14, <1>15 DEF m, r

\* A batch goes to the log that every state of the MANIFEST has replayed.
LEMMA BatchWritten ==
    ASSUME IInv, Write, pc = "up"
    PROVE  ManifestOK(manifests[current], current, tables, logs', promised', durable')
<1> DEFINE m == manifests[current]
           has == Append(logs[log].has, written')
<1>1. DiskTyped /\ MemoryTyped /\ CurrentOK /\ LogsOK /\ VersionOK /\ current # 0
  BY DEF IInv, UpOK, VersionOK
<1>2. PICK sync \in BOOLEAN :
          /\ logs' = [logs EXCEPT ![log] = [has |-> has, synced |-> IF sync THEN Len(has) ELSE @.synced]]
          /\ durable' = durable \cup (IF sync THEN {written'} ELSE {})
  BY DEF Write
<1>3. promised' = promised \cup {written'}
  BY DEF Write
<1> DEFINE old == logs[log]
           new == logs'[log]
<1>4. log \in DOMAIN logs /\ old.has \in Seq(1..written) /\ old.synced \in Nat /\ old.synced <= Len(old.has)
      /\ log \in Nat
  BY <1>1 DEF LogsOK, DiskTyped, LogsTyped
<1>5. /\ DOMAIN logs' = DOMAIN logs /\ \A n \in DOMAIN logs : n # log => logs'[n] = logs[n]
      /\ new.has = Append(old.has, written')
      /\ new.synced = (IF sync THEN Len(Append(old.has, written')) ELSE old.synced)
  BY <1>2, <1>4
<1>6. /\ Len(new.has) = Len(old.has) + 1 /\ new.has[Len(old.has) + 1] = written'
      /\ \A i \in 1..Len(old.has) : new.has[i] = old.has[i]
      /\ Len(old.has) \in Nat
      /\ new.synced = (IF sync THEN Len(old.has) + 1 ELSE old.synced)
  <2> DEFINE s == old.has
  <2>1. s \in Seq(1..written)
    BY <1>4
  <2> HIDE DEF s
  <2>2. /\ Len(Append(s, written')) = Len(s) + 1 /\ Append(s, written')[Len(s) + 1] = written'
        /\ \A i \in 1..Len(s) : Append(s, written')[i] = s[i]
        /\ Len(s) \in Nat
    BY <2>1
  <2>3. new.has = Append(s, written') /\ new.synced = (IF sync THEN Len(Append(s, written')) ELSE old.synced)
    BY <1>5 DEF s
  <2> HIDE DEF old, new
  <2> QED BY <2>2, <2>3 DEF s
<1> HIDE DEF old, new
<1>7. \A b : (InLog(old, b) => InLog(new, b)) /\ (InSynced(old, b) => InSynced(new, b))
  <2>1. \A b : InLog(old, b) => InLog(new, b)
    BY <1>6 DEF InLog
  <2>2. \A b : InSynced(old, b) => InSynced(new, b)
    <3>1. 1..old.synced \subseteq 1..new.synced /\ \A i \in 1..old.synced : new.has[i] = old.has[i]
      BY <1>4, <1>6 DEF old
    <3> QED BY <3>1 DEF InSynced
  <2> QED BY <2>1, <2>2
<1>8. InLog(new, written')
  BY <1>6 DEF InLog
<1>9. sync => InSynced(new, written')
  BY <1>6 DEF InSynced
<1>10. \A n \in DOMAIN logs : n \in DOMAIN logs'
           /\ \A b : (InLog(logs[n], b) => InLog(logs'[n], b)) /\ (InSynced(logs[n], b) => InSynced(logs'[n], b))
  <2> TAKE n \in DOMAIN logs
  <2>1. CASE n = log
    BY <1>5, <1>7, <2>1 DEF old, new
  <2>2. CASE n # log
    BY <1>5, <2>2
  <2> QED BY <2>1, <2>2
<1>11. \A i \in Kept(m) : log >= m.after[i].log
  <2>1. \A i \in Kept(m) : m.after[i].log <= log
    BY <1>1 DEF LogsOK
  <2>2. \A i \in Kept(m) : m.after[i].log \in Nat
    BY <1>1, LastIsKept DEF State
  <2> QED BY <1>4, <2>1, <2>2
<1>12. log \in DOMAIN logs'
  BY <1>4, <1>5
<1>13. m \in [after : Seq(State), synced : Nat] /\ m.synced <= Len(m.after)
       /\ ManifestOK(m, current, tables, logs, promised, durable) /\ Len(m.after) \in Kept(m)
  BY <1>1, LastIsKept DEF CurrentOK, DiskTyped, ManifestsTyped
<1> HIDE DEF m
<1>14. \A b \in promised' : b \in promised \/ Finds(Final(m), tables, logs', b)
  BY <1>3, <1>8, <1>11, <1>12, <1>13 DEF Finds, Final, new
<1>15. \A b \in durable' : b \in durable \/ \A i \in Kept(m) : FindsSynced(m.after[i], tables, logs', b)
  BY <1>2, <1>9, <1>11, <1>12 DEF FindsSynced, new
<1>16. \A i \in Kept(m) : \A t \in m.after[i].version :
           t \in DOMAIN tables /\ tables[t].whole /\ tables[t].has \subseteq tables[t].has
  BY <1>13 DEF ManifestOK, Good, WholeIn
<1>17. ManifestOK(m, current, tables, logs', promised', durable')
  BY <1>10, <1>13, <1>14, <1>15, <1>16, ManifestStays
<1> QED BY <1>17 DEF m

\* What the machine had not synced may go: the states left were all good for
\* the batches that were synced, which stay in the logs.
LEMMA MachineStops ==
    ASSUME IInv, MachineCrash, ~CrashInNewDB, current # 0
    PROVE  /\ current \in DOMAIN manifests'
           /\ ManifestOK(manifests'[current], current, tables, logs', promised', durable')
<1> DEFINE m == manifests[current]
           m2 == manifests'[current]
<1>1. DiskTyped /\ CurrentOK /\ current # 1
  BY DEF IInv, MachineCrash
<1>2. /\ current \in DOMAIN manifests /\ ManifestOK(m, current, tables, logs, promised, durable)
      /\ m \in [after : Seq(State), synced : Nat] /\ m.synced <= Len(m.after)
  BY <1>1 DEF CurrentOK, DiskTyped, ManifestsTyped
<1>3. PICK lost \in [DOMAIN manifests -> 0..2] :
          manifests' = [k \in DOMAIN manifests |->
              [manifests[k] EXCEPT !.after = Cut(@, manifests[k].synced, lost[k])]]
  BY DEF MachineCrash
<1>4. PICK gone \in [DOMAIN logs -> 0..2] :
          logs' = [n \in DOMAIN logs |-> [logs[n] EXCEPT !.has = Cut(@, logs[n].synced, gone[n])]]
  BY DEF MachineCrash
<1> DEFINE c == Cut(m.after, m.synced, lost[current])
<1>5. current \in DOMAIN manifests' /\ m2 = [m EXCEPT !.after = c]
  BY <1>2, <1>3
<1>6. lost[current] \in 0..2
  BY <1>2
<1> HIDE DEF m, m2
<1>7. m.after \in Seq(State) /\ m.synced \in Nat /\ m.synced <= Len(m.after)
  BY <1>2
<1>8. c \in Seq(State) /\ m.synced <= Len(c) /\ Len(c) <= Len(m.after) /\ \A i \in 1..Len(c) : c[i] = m.after[i]
  BY <1>6, <1>7, CutIs
<1> HIDE DEF c
<1>9. m2.after = c /\ m2.synced = m.synced
  BY <1>2, <1>5
<1>10. m.synced >= 1 /\ Len(c) \in Nat /\ Len(c) >= 1 /\ Len(m.after) \in Nat
  BY <1>1, <1>2, <1>7, <1>8 DEF ManifestOK
<1>11. \A i \in Kept(m2) : i \in Kept(m) /\ m2.after[i] = m.after[i]
  BY <1>8, <1>9, <1>10 DEF Kept
<1>12. Len(m2.after) \in Kept(m2)
  BY <1>7, <1>8, <1>9, <1>10 DEF Kept
<1>13. \A n \in DOMAIN logs : n \in DOMAIN logs'
           /\ \A b : InSynced(logs[n], b) => InSynced(logs'[n], b) /\ InLog(logs'[n], b)
  <2> TAKE n \in DOMAIN logs
  <2> DEFINE g == logs[n]
             d == Cut(g.has, g.synced, gone[n])
  <2>1. n \in DOMAIN logs' /\ logs'[n] = [g EXCEPT !.has = d]
    BY <1>4
  <2>2. g \in [has : Seq(1..written), synced : Nat] /\ g.synced <= Len(g.has) /\ gone[n] \in 0..2
    BY <1>1 DEF DiskTyped, LogsTyped
  <2> HIDE DEF g
  <2>3. d \in Seq(1..written) /\ g.synced <= Len(d) /\ \A i \in 1..Len(d) : d[i] = g.has[i]
    BY <2>2, CutIs
  <2> HIDE DEF d
  <2>4. logs'[n].has = d /\ logs'[n].synced = g.synced
    BY <2>1, <2>2
  <2>5. 1..g.synced \subseteq 1..Len(d)
    BY <2>2, <2>3
  <2>6. \A b : InSynced(g, b) => InSynced(logs'[n], b) /\ InLog(logs'[n], b)
    BY <2>3, <2>4, <2>5 DEF InSynced, InLog
  <2> QED BY <2>1, <2>6 DEF g
<1>14. ASSUME NEW i \in Kept(m2), NEW b \in durable
       PROVE  FindsSynced(m2.after[i], tables, logs', b) /\ Finds(m2.after[i], tables, logs', b)
  <2>1. FindsSynced(m.after[i], tables, logs, b)
    BY <1>2, <1>11 DEF ManifestOK, Good
  <2> QED BY <1>11, <1>13, <2>1 DEF FindsSynced, Finds
<1>15. UNCHANGED durable /\ promised' = durable
  BY DEF MachineCrash
<1>16. \A i \in Kept(m2) : Good(m2.after[i], current, tables, logs', durable)
  BY <1>2, <1>11, <1>14 DEF ManifestOK, Good
<1>17. \A i, j \in Kept(m2) : i <= j => Below(m2.after[i].version, m2.after[j].next)
  BY <1>2, <1>11 DEF ManifestOK
<1>18. ManifestOK(m2, current, tables, logs', durable, durable)
  BY <1>9, <1>10, <1>12, <1>14, <1>16, <1>17 DEF ManifestOK, Final
<1> QED BY <1>5, <1>15, <1>18 DEF m2


\* The MANIFEST that a process writes when it opens the database is good: it
\* has what the old one had, and tables for the logs replayed.
LEMMA FirstManifestOK ==
    ASSUME IInv, pc = "apply", applying.stage = "current"
    PROVE  ManifestOK(manifests[vs.manifest], vs.manifest, tables, logs, promised, durable)
<1> DEFINE e == applying.edit
           r == ApplyEdit(Snapshot, e)
           s == <<Snapshot, r>>
           m == manifests[vs.manifest]
<1>1. DiskTyped /\ MemoryTyped /\ CurrentOK /\ GhostsTyped
  BY DEF IInv, DiskTyped
<1>2. /\ e.log = log /\ e.next = vs.next /\ e.add = replay.made /\ e.del = {}
      /\ vs.manifest < log /\ log < vs.next /\ vs.log < log
      /\ \A n \in DOMAIN logs : n >= vs.log => \A b : InLog(logs[n], b) => InTables(tables, replay.made, b)
      /\ m.after = s /\ m.synced = 2
  BY DEF IInv, Writing
<1>3. /\ current # 0 /\ LastState.version = vs.version /\ LastState.log = vs.log
      /\ WholeIn(vs.version \cup replay.made, tables) /\ Below(vs.version \cup replay.made, vs.next)
  BY DEF IInv, OpeningOK
<1>4. Snapshot \in State /\ Snapshot.version = vs.version /\ e \in Edit
  BY <1>1, SnapshotIs DEF MemoryTyped
<1>5. log \in Nat /\ vs.next \in Nat /\ vs.manifest \in Nat /\ log # 0 /\ vs.next # 0
  BY <1>1, <1>2 DEF MemoryTyped
<1>6. r \in State /\ r.version = vs.version \cup replay.made /\ r.log = log /\ r.next = vs.next
  BY <1>2, <1>4, <1>5, EditApplied
<1> HIDE DEF e, r
<1>7. Len(s) = 2 /\ s[2] = r
  OBVIOUS
<1> HIDE DEF s, m
<1>8. Kept(m) = {2} /\ Final(m) = r /\ m.after[2] = r /\ Len(m.after) >= 1
  BY <1>2, <1>7 DEF Kept, Final
<1>9. \A n \in DOMAIN logs : \A b : InSynced(logs[n], b) => InLog(logs[n], b)
  BY <1>1, SyncedInLog
<1>10. ManifestOK(manifests[current], current, tables, logs, promised, durable)
  BY <1>1, <1>3 DEF CurrentOK
<1>11. \A b \in promised : Finds(LastState, tables, logs, b)
  BY <1>10 DEF ManifestOK, LastState
<1>12. \A b \in durable : FindsSynced(LastState, tables, logs, b)
  BY <1>1, <1>3, LastIsKept DEF Good
<1>13. \A b : Finds(LastState, tables, logs, b) => InTables(tables, r.version, b)
  <2>1. \A b : InTables(tables, LastState.version, b) => InTables(tables, r.version, b)
    BY <1>3, <1>6 DEF InTables
  <2>2. \A b : InTables(tables, replay.made, b) => InTables(tables, r.version, b)
    BY <1>6 DEF InTables
  <2> QED BY <1>2, <1>3, <2>1, <2>2 DEF Finds
<1>14. \A b : FindsSynced(LastState, tables, logs, b) => Finds(LastState, tables, logs, b)
  BY <1>9 DEF FindsSynced, Finds
<1>15. Good(r, vs.manifest, tables, logs, durable)
  <2>1. vs.manifest < r.next /\ r.log < r.next
    BY <1>2, <1>5, <1>6
  <2> QED BY <1>3, <1>6, <1>12, <1>13, <1>14, <2>1 DEF Good, FindsSynced
<1>16. \A b \in promised : Finds(r, tables, logs, b)
  BY <1>11, <1>13 DEF Finds
<1>17. Below(r.version, r.next)
  BY <1>3, <1>6
<1>18. ManifestOK(m, vs.manifest, tables, logs, promised, durable)
  BY <1>2, <1>8, <1>15, <1>16, <1>17 DEF ManifestOK
<1> QED BY <1>18 DEF m

\* CurrentOK of the next state.
LEMMA StillCurrent ==
    ASSUME current' # 0, current' \in DOMAIN manifests',
           ManifestOK(manifests'[current'], current', tables', logs', promised', durable')
    PROVE  CurrentOK'
BY DEF CurrentOK

\* Every step leaves CURRENT naming a MANIFEST that can be recovered from,
\* with every batch promised.
LEMMA CurrentOKKept == ~CrashInNewDB /\ IInv /\ [Next]_vars => CurrentOK'
<1> SUFFICES ASSUME ~CrashInNewDB, IInv, [Next]_vars
             PROVE  CurrentOK'
  OBVIOUS
<1>1. DiskTyped /\ MemoryTyped /\ CurrentOK /\ GhostsTyped
  BY DEF IInv, DiskTyped
<1>2. CASE UNCHANGED <<current, manifests, tables, logs, promised, durable>>
  BY <1>1, <1>2 DEF CurrentOK
<1>3. CASE current = 0 /\ UNCHANGED <<current, promised>>
  BY <1>1, <1>3 DEF CurrentOK
<1>4. CASE NewDB
  BY <1>3, <1>4 DEF NewDB, ghosts
<1>5. CASE NewDBCurrent
  <2>1. /\ current' = 1 /\ pc = "created" /\ UNCHANGED <<manifests, tables, logs, promised, durable>>
    BY <1>5 DEF NewDBCurrent, ghosts
  <2> DEFINE r == [version |-> {}, log |-> 0, next |-> 2]
             m == manifests[1]
             s == <<r>>
  <2>2. current = 0 /\ 1 \in DOMAIN manifests /\ m = [after |-> s, synced |-> 0]
    BY <2>1 DEF IInv, DownOK
  <2>3. promised = {} /\ durable = {}
    BY <1>1, <2>2 DEF CurrentOK, GhostsTyped
  <2>4. r.version = {} /\ r.log = 0 /\ r.next = 2
    OBVIOUS
  <2> HIDE DEF r
  <2>5. Len(s) = 1 /\ s[1] = r
    OBVIOUS
  <2>6. m.after = s /\ m.synced = 0
    BY <2>2
  <2> HIDE DEF s, m
  <2>7. Kept(m) = {1}
    <3>1. Kept(m) = {i \in 1..1 : i >= 0}
      BY <2>5, <2>6 DEF Kept
    <3> QED BY <3>1
  <2>8. Good(r, 1, tables, logs, durable) /\ Below(r.version, r.next)
    BY <2>3, <2>4 DEF Good, WholeIn, Below
  <2>9. ManifestOK(m, 1, tables, logs, promised, durable)
    BY <2>3, <2>5, <2>6, <2>7, <2>8 DEF ManifestOK
  <2> QED BY <2>1, <2>2, <2>9, StillCurrent DEF m
<1>6. CASE Recover
  BY <1>2, <1>6 DEF Recover, disk, ghosts
<1>7. CASE RecoverLogFile \/ FlushBegin \/ OpenCompactionOutputFile
  <2>1. /\ tables' = tables \/ \E v : tables' = With(tables, vs.next, v)
        /\ UNCHANGED <<current, manifests, logs, promised, durable>>
    BY <1>7 DEF RecoverLogFile, FlushBegin, OpenCompactionOutputFile, ghosts
  <2>2. pc \in {"replay", "up"}
    BY <1>7 DEF RecoverLogFile, FlushBegin, OpenCompactionOutputFile, Up
  <2>3. current # 0 /\ LastState.next <= vs.next /\ vs.next \in Nat
    BY <1>1, <2>2 DEF IInv, OpeningOK, UpOK, VersionOK, MemoryTyped
  <2>4. DOMAIN tables \subseteq DOMAIN tables' /\ \A t \in DOMAIN tables \ {vs.next} : tables'[t] = tables[t]
    BY <2>1 DEF With
  <2>5. \A i \in Kept(manifests[current]) : {vs.next} \cap manifests[current].after[i].version = {}
    BY <1>1, <2>3, FreshNumber
  <2>6. ManifestOK(manifests[current], current, tables', logs, promised, durable)
    BY <1>1, <2>3, <2>4, <2>5, TablesWritten
  <2> QED BY <1>1, <2>1, <2>3, <2>6, LastIsKept, StillCurrent
<1>8. CASE NewLog \/ SwitchMemTable
  <2>1. (\E v : logs' = With(logs, vs.next, v)) /\ UNCHANGED <<current, manifests, tables, promised, durable>>
    BY <1>8 DEF NewLog, SwitchMemTable, ghosts
  <2>2. current # 0 /\ vs.next \notin DOMAIN logs
    <3>1. CASE NewLog
      <4>1. pc = "replay" /\ replay.logs = {}
        BY <3>1 DEF NewLog
      <4>2. \A n \in DOMAIN logs : n \in Nat
        BY <1>1 DEF DiskTyped, LogsTyped
      <4>3. \A n \in DOMAIN logs : n < vs.next
        BY <4>1 DEF IInv, Replaying
      <4> QED BY <1>1, <4>1, <4>2, <4>3 DEF IInv, OpeningOK, MemoryTyped
    <3>2. CASE SwitchMemTable
      <4>1. pc = "up"
        BY <3>2 DEF SwitchMemTable, Up
      <4>2. \A n \in DOMAIN logs : n \in Nat /\ n <= log
        BY <1>1, <4>1 DEF DiskTyped, LogsTyped, IInv, UpOK, LogsOK
      <4> QED BY <1>1, <4>1, <4>2 DEF IInv, UpOK, LogsOK, VersionOK, MemoryTyped
    <3> QED BY <1>8, <3>1, <3>2
  <2>3. \A n \in DOMAIN logs : n \in DOMAIN logs' /\ logs'[n] = logs[n]
    BY <2>1, <2>2 DEF With
  <2>4. ManifestOK(manifests[current], current, tables, logs', promised, durable)
    BY <1>1, <2>2, <2>3, LogMade
  <2> QED BY <1>1, <2>1, <2>2, <2>4, LastIsKept, StillCurrent
<1>9. CASE manifests' = WithRecord /\ applying.stage = "record" /\ UNCHANGED <<current, tables, logs, promised, durable>>
  <2>1. pc \in {"apply", "up"}
    BY <1>1, <1>9 DEF IInv, DownOK, Replaying, MemoryTyped, NoApply
  <2>2. /\ DOMAIN WithRecord = DOMAIN manifests \cup {vs.manifest}
        /\ \A m \in DOMAIN manifests : m # vs.manifest => WithRecord[m] = manifests[m]
        /\ vs.opened => WithRecord[vs.manifest] =
               [after |-> Append(manifests[vs.manifest].after,
                                 ApplyEdit(Recovered(vs.manifest), applying.edit)),
                synced |-> manifests[vs.manifest].synced]
    BY <1>1, OpenedIsUp, RecordWritten DEF DiskTyped
  <2>3. CASE pc = "apply"
    <3>1. current # 0 /\ current < vs.manifest
      BY <1>9, <2>3 DEF IInv, OpeningOK
    <3>2. current # vs.manifest /\ current \in DOMAIN manifests
      BY <1>1, <3>1, LastIsKept DEF GhostsTyped, MemoryTyped
    <3>3. ManifestOK(manifests[current], current, tables, logs, promised, durable)
      BY <1>1, <3>1 DEF CurrentOK
    <3> QED BY <1>9, <2>2, <3>1, <3>2, <3>3, StillCurrent
  <2>4. CASE pc = "up"
    <3>1. current # 0 /\ vs.opened /\ vs.manifest = current
      BY <2>4 DEF IInv, UpOK, VersionOK
    <3>2. current \in DOMAIN manifests /\ Recovered(current) = LastState
      BY <1>1, <3>1, LastIsKept
    <3>3. manifests'[current] = [after |-> Append(manifests[current].after, ApplyEdit(LastState, applying.edit)),
                                 synced |-> manifests[current].synced]
      BY <1>9, <2>2, <3>1, <3>2
    <3>4. ManifestOK(manifests'[current], current, tables, logs, promised, durable)
      BY <1>9, <2>4, <3>3, RecordAdded
    <3> QED BY <1>9, <2>2, <3>1, <3>2, <3>4, StillCurrent
  <2> QED BY <2>1, <2>3, <2>4
<1>10. CASE ApplyRecord
  BY <1>9, <1>10 DEF ApplyRecord, ghosts
<1>11. CASE ApplySync
  <2>1. /\ manifests' = [manifests EXCEPT ![vs.manifest].synced = Len(manifests[vs.manifest].after)]
        /\ UNCHANGED <<current, tables, logs, promised, durable>> /\ applying.stage = "sync"
    BY <1>11 DEF ApplySync, ghosts
  <2>2. pc \in {"apply", "up"}
    BY <1>1, <2>1 DEF IInv, DownOK, Replaying, MemoryTyped, NoApply
  <2>3. current # 0
    BY <2>2 DEF IInv, OpeningOK, UpOK, VersionOK
  <2>4. current \in DOMAIN manifests /\ DOMAIN manifests' = DOMAIN manifests
    BY <1>1, <2>1, <2>3, LastIsKept
  <2> DEFINE m == manifests[current]
             m2 == manifests'[current]
  <2>5. m \in [after : Seq(State), synced : Nat] /\ m.synced <= Len(m.after)
        /\ ManifestOK(m, current, tables, logs, promised, durable) /\ Len(m.after) \in Kept(m)
    BY <1>1, <2>3, <2>4, LastIsKept DEF CurrentOK, DiskTyped, ManifestsTyped
  <2>6. m2.after = m.after /\ m2.synced \in {m.synced, Len(m.after)}
    <3> HIDE DEF m
    <3>1. m2 = IF current = vs.manifest THEN [m EXCEPT !.synced = Len(m.after)] ELSE m
      BY <2>1, <2>4 DEF m
    <3> QED BY <2>5, <3>1
  <2> HIDE DEF m, m2
  <2>7. Kept(m2) \subseteq Kept(m) /\ Len(m2.after) = Len(m.after) /\ m2.synced >= m.synced /\ m2.synced \in Nat
        /\ Len(m.after) >= m.synced /\ m.synced \in Nat
    <3>1. m.synced \in Nat /\ Len(m.after) \in Nat
      BY <2>5
    <3> QED BY <2>5, <2>6, <3>1 DEF Kept
  <2>8. ManifestOK(m2, current, tables, logs, promised, durable)
    BY <2>5, <2>6, <2>7 DEF ManifestOK, Final
  <2> QED BY <2>1, <2>3, <2>4, <2>8, StillCurrent DEF m2
<1>12. CASE SetCurrentFile
  <2>1. /\ current' = vs.manifest /\ UNCHANGED <<manifests, tables, logs, promised, durable>>
        /\ applying.stage = "current"
    BY <1>12 DEF SetCurrentFile, ghosts
  <2>2. pc = "apply"
    BY <1>1, <2>1 DEF IInv, DownOK, Replaying, UpOK, EditOK, MemoryTyped, NoApply
  <2>3. current \in Nat /\ vs.manifest \in Nat /\ current # 0 /\ current < vs.manifest
        /\ LastState.version = vs.version /\ LastState.log = vs.log
    BY <1>1, <2>1, <2>2 DEF IInv, OpeningOK, GhostsTyped, MemoryTyped
  <2>4. ManifestOK(manifests[vs.manifest], vs.manifest, tables, logs, promised, durable)
    BY <2>1, <2>2, FirstManifestOK
  <2>5. vs.manifest \in DOMAIN manifests
    BY <2>1, <2>2 DEF IInv, Writing
  <2> QED BY <2>1, <2>3, <2>4, <2>5, StillCurrent
<1>13. CASE ApplyError
  <2>1. CASE applying.who = "open"
    <3>1. manifests' = Without(manifests, {vs.manifest}) /\ UNCHANGED <<current, tables, logs, promised, durable>>
          /\ applying.stage \in {"record", "sync", "current"}
      BY <1>13, <2>1 DEF ApplyError
    <3>2. pc = "apply"
      BY <1>1, <2>1, <3>1 DEF IInv, DownOK, Replaying, UpOK, EditOK, MemoryTyped, NoApply
    <3>3. current # 0 /\ current < vs.manifest
      BY <3>1, <3>2 DEF IInv, OpeningOK
    <3>4. current # vs.manifest /\ current \in DOMAIN manifests
      BY <1>1, <3>3, LastIsKept DEF GhostsTyped, MemoryTyped
    <3>5. current \in DOMAIN manifests' /\ manifests'[current] = manifests[current]
      BY <3>1, <3>4 DEF Without
    <3> QED BY <1>1, <3>1, <3>3, <3>5, StillCurrent DEF CurrentOK
  <2>2. CASE applying.who # "open"
    BY <1>2, <1>9, <1>13, <2>2 DEF ApplyError
  <2> QED BY <2>1, <2>2
<1>14. CASE Install
  <2>1. applying.stage = "install" /\ UNCHANGED <<current, promised, durable>>
    BY <1>14 DEF Install, ghosts
  <2>2. CASE failed
    BY <1>2, <1>14, <2>1, <2>2 DEF Install, DeleteObsoleteFiles
  <2>3. CASE ~failed
    <3> DEFINE m == IF applying.who = "merge" THEN NoMerge ELSE merge
               S == DOMAIN tables \ Live(Installed, m)
               L == ObsoleteLogs(Installed)
               D == ObsoleteManifests(Installed)
    <3>1. tables' = Without(tables, S) /\ logs' = Without(logs, L) /\ manifests' = Without(manifests, D)
      BY <1>14, <2>3 DEF Install, DeleteObsoleteFiles
    <3>2. S \cap Installed.version = {}
      BY DEF Live
    <3> HIDE DEF S
    <3> QED BY <2>1, <2>3, <3>1, <3>2, RemovalIsSafe, StillCurrent
  <2> QED BY <2>2, <2>3
<1>15. CASE CrashInDelete
  <2> DEFINE m == IF applying.who = "merge" THEN NoMerge ELSE merge
  <2>1. PICK S \in SUBSET (DOMAIN tables \ Live(Installed, m)),
             L \in SUBSET ObsoleteLogs(Installed),
             D \in SUBSET ObsoleteManifests(Installed) :
               /\ tables' = Without(tables, S) /\ logs' = Without(logs, L)
               /\ manifests' = Without(manifests, D)
    BY <1>15 DEF CrashInDelete
  <2>2. S \cap Installed.version = {}
    BY DEF Live
  <2>3. applying.stage = "install" /\ ~failed /\ UNCHANGED <<current, promised, durable>>
    BY <1>15 DEF CrashInDelete
  <2> QED BY <2>1, <2>2, <2>3, RemovalIsSafe, StillCurrent
<1>16. CASE Write
  <2>1. pc = "up" /\ UNCHANGED <<current, manifests, tables>>
    BY <1>16 DEF Write, Up
  <2>2. current # 0
    BY <2>1 DEF IInv, UpOK, VersionOK
  <2> QED BY <1>1, <1>16, <2>1, <2>2, BatchWritten, LastIsKept, StillCurrent
<1>17. CASE FlushEnd
  <2>1. /\ flush # 0 /\ applying = NoApply /\ UNCHANGED <<current, manifests, logs, promised, durable>>
        /\ tables' = [tables EXCEPT ![flush] = [has |-> imm, whole |-> TRUE]]
    BY <1>17 DEF FlushEnd, ghosts
  <2>2. pc = "up"
    BY <1>1, <2>1 DEF IInv, DownOK, OpeningOK, MemoryTyped
  <2>3. current # 0 /\ flush \notin InUse
    BY <2>1, <2>2 DEF IInv, UpOK, VersionOK, OutputsOK, NoApply
  <2>4. \A i \in Kept(manifests[current]) : {flush} \cap manifests[current].after[i].version = {}
    BY <2>3 DEF InUse
  <2>5. DOMAIN tables \subseteq DOMAIN tables' /\ \A t \in DOMAIN tables \ {flush} : tables'[t] = tables[t]
    BY <2>1
  <2>6. ManifestOK(manifests[current], current, tables', logs, promised, durable)
    BY <1>1, <2>3, <2>4, <2>5, TablesWritten
  <2> QED BY <1>1, <2>1, <2>3, <2>6, LastIsKept, StillCurrent
<1>18. CASE InstallCompactionResults
  <2>1. /\ merge.outs # {} /\ applying = NoApply /\ UNCHANGED <<current, manifests, logs, promised, durable>>
        /\ tables' = [t \in DOMAIN tables |->
               IF t \in merge.outs
               THEN [has |-> UNION {tables[i].has : i \in merge.inputs}, whole |-> TRUE]
               ELSE tables[t]]
    BY <1>18 DEF InstallCompactionResults, ghosts
  <2>2. pc = "up"
    BY <1>1, <2>1 DEF IInv, DownOK, OpeningOK, MemoryTyped, NoMerge
  <2>3. current # 0 /\ merge.outs \cap InUse = {}
    BY <2>1, <2>2 DEF IInv, UpOK, VersionOK, OutputsOK, NoApply
  <2>4. \A i \in Kept(manifests[current]) : merge.outs \cap manifests[current].after[i].version = {}
    BY <2>3 DEF InUse
  <2>5. DOMAIN tables \subseteq DOMAIN tables' /\ \A t \in DOMAIN tables \ merge.outs : tables'[t] = tables[t]
    BY <2>1
  <2>6. ManifestOK(manifests[current], current, tables', logs, promised, durable)
    BY <1>1, <2>3, <2>4, <2>5, TablesWritten
  <2> QED BY <1>1, <2>1, <2>3, <2>6, LastIsKept, StillCurrent
<1>19. CASE Crash
  <2>1. CASE ProcessCrash
    BY <1>2, <2>1 DEF ProcessCrash, disk
  <2>2. CASE MachineCrash
    <3>1. UNCHANGED <<current, tables, durable>> /\ promised' = durable
      BY <2>2 DEF MachineCrash
    <3>2. CASE current = 0
      <4>1. promised' = {}
        BY <1>1, <3>1, <3>2 DEF CurrentOK, GhostsTyped
      <4> QED BY <3>1, <3>2, <4>1 DEF CurrentOK
    <3>3. CASE current # 0
      BY <2>2, <3>1, <3>3, MachineStops, StillCurrent
    <3> QED BY <3>2, <3>3
  <2> QED BY <1>19, <2>1, <2>2 DEF Crash
<1>20. CASE MergeBegin \/ Read \/ UNCHANGED vars
  BY <1>2, <1>20 DEF MergeBegin, Read, vars, disk, ghosts
<1> QED BY <1>4, <1>5, <1>6, <1>7, <1>8, <1>10, <1>11, <1>12, <1>13, <1>14, <1>15, <1>16, <1>17, <1>18,
           <1>19, <1>20 DEF Next, Open, LogAndApply, Background

-----------------------------------------------------------------------------
(* Opening the database. *)

\* What is under way tells where DB::Open is.
LEMMA WhereItIs ==
    ASSUME IInv
    PROVE  /\ applying.stage # "none" => pc \in {"apply", "up"}
           /\ applying.stage # "none" /\ applying.who = "open" => pc = "apply"
           /\ applying.who \notin {"none", "open"} => pc = "up"
           /\ applying.stage = "current" => pc = "apply"
           /\ flush # 0 \/ merge.outs # {} => pc = "up"
<1>1. pc \in {"down", "created", "recover", "replay", "apply", "up"} /\ MemoryTyped
  BY DEF IInv, MemoryTyped
<1>2. pc \in {"down", "created", "recover", "replay"} => applying = NoApply
  BY DEF IInv, DownOK, Replaying
<1>3. pc \in {"down", "created", "recover", "replay", "apply"} => flush = 0 /\ merge = NoMerge
  BY DEF IInv, DownOK, OpeningOK
<1>4. pc = "apply" => applying.who = "open"
  BY DEF IInv, Writing
<1>5. pc = "up" => applying.stage # "current" /\ (applying.stage = "none" \/ applying.who \in {"flush", "merge"})
  BY DEF IInv, UpOK, EditOK
<1>6. NoApply.stage = "none" /\ NoApply.who = "none" /\ NoMerge.outs = {}
  BY DEF NoApply, NoMerge
<1>7. CASE pc = "up"
  BY <1>5, <1>7
<1>8. CASE pc = "apply"
  BY <1>3, <1>4, <1>6, <1>8
<1>9. CASE pc \in {"down", "created", "recover", "replay"}
  BY <1>2, <1>3, <1>6, <1>9
<1> QED BY <1>1, <1>7, <1>8, <1>9

\* The part of the invariant about memory and its relation to the disk.
Process == DownOK /\ Replaying /\ Writing /\ OpeningOK /\ UpOK

\* A database is created.
LEMMA Creates == IInv /\ (NewDB \/ NewDBCurrent) => Process'
<1> SUFFICES ASSUME IInv, NewDB \/ NewDBCurrent
             PROVE  Process'
  OBVIOUS
<1>1. pc \in {"down", "created"} /\ pc' \in {"created", "recover"}
  BY DEF NewDB, NewDBCurrent
<1>2. UNCHANGED <<vs, merge, applying, flush, mem, imm, reader, failed>>
  BY DEF NewDB, NewDBCurrent
<1>3. DownOK
  BY DEF IInv
<1>4. CASE NewDB
  <2> DEFINE s == ApplyEdit(Nothing, [NoEdit EXCEPT !.next = 2])
             r == [version |-> {}, log |-> 0, next |-> 2]
             m == [after |-> <<s>>, synced |-> 0]
  <2>1. pc' = "created" /\ current = 0 /\ UNCHANGED current /\ manifests' = With(manifests, 1, m)
    BY <1>4 DEF NewDB
  <2>2. s = r
    BY DEF ApplyEdit, Nothing, NoEdit
  <2>3. m = [after |-> <<r>>, synced |-> 0]
    BY <2>2
  <2> HIDE DEF m
  <2>4. 1 \in DOMAIN manifests' /\ manifests'[1] = m
    BY <2>1 DEF With
  <2>5. DownOK'
    BY <1>1, <1>2, <1>3, <2>1, <2>3, <2>4 DEF DownOK
  <2> QED BY <1>1, <2>5 DEF Process, Replaying, Writing, OpeningOK, UpOK
<1>5. CASE NewDBCurrent
  <2>1. pc' = "recover" /\ current' = 1
    BY <1>5 DEF NewDBCurrent
  <2>2. DownOK'
    BY <1>1, <1>2, <1>3, <2>1 DEF DownOK
  <2> QED BY <1>1, <2>1, <2>2 DEF Process, Replaying, Writing, OpeningOK, UpOK
<1> QED BY <1>4, <1>5

\* The MANIFEST is read.
LEMMA Recovers == IInv /\ Recover => Process'
<1> SUFFICES ASSUME IInv, Recover
             PROVE  Process'
  OBVIOUS
<1> DEFINE r == Recovered(current)
<1>1. /\ pc \in {"recover", "down"} /\ current # 0 /\ pc' = "replay"
      /\ vs' = [version |-> r.version, next |-> r.next + 1, log |-> r.log, manifest |-> r.next, opened |-> FALSE]
      /\ replay' = [logs |-> LogsToReplay(current), made |-> {}]
      /\ UNCHANGED <<current, manifests, tables, logs, log, mem, imm, flush, merge, applying, failed, reader>>
  BY DEF Recover, disk
<1>2. /\ merge = NoMerge /\ applying = NoApply /\ flush = 0
      /\ mem = {} /\ imm = {} /\ reader = {} /\ failed = FALSE
  BY <1>1 DEF IInv, DownOK
<1>3. DiskTyped /\ CurrentOK
  BY DEF IInv
<1>4. r = LastState /\ r \in State /\ Good(r, current, tables, logs, durable) /\ current \in DOMAIN manifests
      /\ Len(manifests[current].after) \in Kept(manifests[current])
      /\ Below(r.version, r.next)
  BY <1>1, <1>3, LastIsKept DEF LastState, Final
<1>5. \A n \in DOMAIN logs : n \in Nat
  BY <1>3 DEF DiskTyped, LogsTyped
<1>6. current \in Nat
  BY <1>3 DEF DiskTyped, GhostsTyped
<1>7. LastState' = LastState
  BY <1>1 DEF LastState, Final
<1>8. LogsToReplay(current) = {n \in DOMAIN logs : n >= r.log}
  BY DEF LogsToReplay
<1> HIDE DEF r
<1>9. r.log \in Nat /\ r.next \in Nat /\ r.log < r.next /\ current < r.next /\ WholeIn(r.version, tables)
      /\ r.version \subseteq Nat
  BY <1>4 DEF State, Good
<1>10. /\ vs'.version = r.version /\ vs'.next = r.next + 1 /\ vs'.log = r.log /\ vs'.manifest = r.next /\ ~vs'.opened
       /\ replay'.logs = {n \in DOMAIN logs : n >= r.log} /\ replay'.made = {}
  BY <1>1, <1>8
<1>11. Replaying'
  <2>1. \A n \in DOMAIN logs : n < r.next + 1 \/ n >= r.log
    BY <1>5, <1>9
  <2> QED BY <1>1, <1>2, <1>10, <2>1 DEF Replaying
<1>12. OpeningOK'
  <2>1. WholeIn(r.version \cup {}, tables)
    BY <1>9 DEF WholeIn
  <2>2. Below(r.version \cup {}, r.next + 1)
    BY <1>4, <1>9 DEF Below
  <2>3. NoApply.stage # "install"
    BY DEF NoApply
  <2>4. r.next < r.next + 1 /\ r.log < r.next + 1 /\ r.next <= r.next + 1
    BY <1>9
  <2> QED BY <1>1, <1>2, <1>4, <1>7, <1>9, <1>10, <2>1, <2>2, <2>3, <2>4 DEF OpeningOK
<1> QED BY <1>1, <1>11, <1>12 DEF Process, DownOK, Writing, UpOK

\* A log is replayed: what was in it is in a table.
LEMMA Replays == IInv /\ RecoverLogFile => Process'
<1> SUFFICES ASSUME IInv, RecoverLogFile
             PROVE  Process'
  OBVIOUS
<1>1. pc = "replay" /\ pc' = "replay"
      /\ UNCHANGED <<current, manifests, logs, log, mem, imm, flush, merge, applying, failed, reader>>
  BY DEF RecoverLogFile
<1>2. DiskTyped /\ MemoryTyped /\ CurrentOK /\ Replaying /\ OpeningOK /\ LogsTyped
  BY DEF IInv, DiskTyped
<1>3. PICK n \in replay.logs :
          LET has == SetOf(logs[n].has)
              made == IF has = {} THEN {} ELSE {vs.next}
          IN  /\ tables' = IF has = {} THEN tables
                           ELSE With(tables, vs.next, [has |-> has, whole |-> TRUE])
              /\ replay' = [logs |-> replay.logs \ {n}, made |-> replay.made \cup made]
              /\ vs' = [vs EXCEPT !.next = After(vs.next + Cardinality(made), n)]
  BY DEF RecoverLogFile
<1> DEFINE has == SetOf(logs[n].has)
           made == IF has = {} THEN {} ELSE {vs.next}
           v == [has |-> has, whole |-> TRUE]
           next == After(vs.next + Cardinality(made), n)
<1>4. n \in DOMAIN logs /\ n \in Nat /\ vs.next \in Nat
  BY <1>1, <1>2 DEF Replaying, LogsTyped, MemoryTyped
<1>5. \A b : b \in has <=> InLog(logs[n], b)
  BY <1>2, <1>4, SetOfLog
<1>6. /\ tables' = IF has = {} THEN tables ELSE With(tables, vs.next, v)
      /\ replay' = [logs |-> replay.logs \ {n}, made |-> replay.made \cup made]
      /\ vs' = [vs EXCEPT !.next = next]
  BY <1>3
<1>7. v.has = has /\ v.whole
  OBVIOUS
<1> HIDE DEF has, v
<1>8. Cardinality(made) \in Nat /\ (made # {} => Cardinality(made) = 1)
  <2>1. Cardinality({}) = 0 /\ Cardinality({vs.next}) = 1
    BY FS_EmptySet, FS_Singleton
  <2>2. made = {} \/ made = {vs.next}
    OBVIOUS
  <2> HIDE DEF made
  <2> QED BY <2>1, <2>2
<1>9. made \subseteq {vs.next} /\ (has # {} => vs.next \in made)
  OBVIOUS
<1> HIDE DEF made
<1>10. next \in Nat /\ n < next /\ vs.next <= next /\ \A t \in made : t < next
  BY <1>4, <1>8, <1>9 DEF After
<1> HIDE DEF next
<1>11. /\ vs'.next = next /\ vs'.version = vs.version /\ vs'.log = vs.log /\ vs'.manifest = vs.manifest
       /\ vs'.opened = vs.opened /\ replay'.logs = replay.logs \ {n} /\ replay'.made = replay.made \cup made
  BY <1>2, <1>6 DEF MemoryTyped
<1>12. /\ DOMAIN tables \subseteq DOMAIN tables'
       /\ \A t \in DOMAIN tables : t # vs.next => tables'[t] = tables[t]
       /\ \A t \in made : t \in DOMAIN tables' /\ tables'[t] = v
  <2>1. CASE has = {}
    <3>1. made = {} /\ tables' = tables
      BY <1>6, <2>1 DEF made
    <3> QED BY <3>1
  <2>2. CASE has # {}
    <3>1. tables' = With(tables, vs.next, v)
      BY <1>6, <2>2
    <3> QED BY <1>9, <3>1 DEF With
  <2> QED BY <2>1, <2>2
<1>17. \A t \in made : t \in DOMAIN tables' /\ tables'[t].has = has /\ tables'[t].whole
  <2>1. \A t \in made : tables'[t] = v
    BY <1>12
  <2>2. \A t \in made : tables'[t].has = has
    BY <1>7, <2>1
  <2>3. \A t \in made : tables'[t].whole
    BY <1>7, <2>1
  <2> QED BY <1>12, <2>2, <2>3
<1>13. /\ WholeIn(vs.version \cup replay.made, tables) /\ Below(vs.version \cup replay.made, vs.next)
       /\ LastState.next <= vs.next /\ current # 0
       /\ \A t \in vs.version \cup replay.made : t \in Nat
  BY <1>1, <1>2 DEF OpeningOK, MemoryTyped
<1>14. \A t \in vs.version \cup replay.made : t \in DOMAIN tables' /\ tables'[t] = tables[t]
  BY <1>4, <1>12, <1>13 DEF WholeIn, Below
<1>15. Replaying'
  <2>1. \A k \in DOMAIN logs : k < next \/ k \in replay.logs \ {n}
    <3> TAKE k \in DOMAIN logs
    <3>1. k \in Nat /\ (k < vs.next \/ k \in replay.logs)
      BY <1>1, <1>2 DEF Replaying, LogsTyped
    <3>2. CASE k = n
      BY <1>10, <3>2
    <3>3. CASE k # n
      BY <1>4, <1>10, <3>1, <3>3
    <3> QED BY <3>2, <3>3
  <2>2. ASSUME NEW k \in DOMAIN logs, k >= vs.log, k \notin replay.logs \ {n}, NEW b, InLog(logs[k], b)
        PROVE  InTables(tables', replay.made \cup made, b)
    <3>1. CASE k = n
      <4>1. b \in has
        BY <1>5, <2>2, <3>1
      <4>2. vs.next \in made
        BY <1>9, <4>1
      <4> QED BY <1>17, <4>1, <4>2 DEF InTables
    <3>2. CASE k # n
      <4>1. InTables(tables, replay.made, b)
        BY <1>1, <1>2, <2>2, <3>2 DEF Replaying
      <4> QED BY <1>14, <4>1 DEF InTables
    <3> QED BY <3>1, <3>2
  <2>3. applying = NoApply /\ replay.logs \subseteq DOMAIN logs
    BY <1>1, <1>2 DEF Replaying
  <2> QED BY <1>1, <1>11, <2>1, <2>2, <2>3 DEF Replaying
<1>16. OpeningOK'
  <2>1. WholeIn(vs.version \cup (replay.made \cup made), tables')
    BY <1>13, <1>14, <1>17 DEF WholeIn
  <2>2. \A t \in vs.version \cup replay.made : t < next
    BY <1>4, <1>10, <1>13 DEF Below
  <2>3. Below(vs.version \cup (replay.made \cup made), next)
    BY <1>10, <2>2 DEF Below
  <2>4. LastState' = LastState
    BY <1>1 DEF LastState, Final
  <2>5. LastState \in State
    BY <1>2, <1>13, LastIsKept
  <2>6. vs.manifest \in Nat /\ vs.log \in Nat /\ LastState.next \in Nat
    BY <1>2, <2>5 DEF MemoryTyped, State
  <2>7. vs.manifest < next /\ vs.log < next /\ LastState.next <= next
    BY <1>1, <1>2, <1>4, <1>10, <1>13, <2>6 DEF OpeningOK
  <2> QED BY <1>1, <1>2, <1>11, <1>13, <2>1, <2>3, <2>4, <2>7 DEF OpeningOK
<1> QED BY <1>1, <1>15, <1>16 DEF Process, DownOK, Writing, UpOK

\* The new log is made, once all the old ones are replayed.
LEMMA StartsLog == IInv /\ NewLog => Process'
<1> SUFFICES ASSUME IInv, NewLog
             PROVE  Process'
  OBVIOUS
<1> DEFINE g == [has |-> <<>>, synced |-> 0]
           e == [log |-> vs.next, next |-> vs.next + 1, add |-> replay.made, del |-> {}]
<1>1. /\ pc = "replay" /\ pc' = "apply" /\ replay.logs = {}
      /\ logs' = With(logs, vs.next, g) /\ log' = vs.next
      /\ vs' = [vs EXCEPT !.next = @ + 1]
      /\ applying' = [who |-> "open", stage |-> "record", edit |-> e]
      /\ UNCHANGED <<current, manifests, tables, replay, mem, imm, flush, merge, failed, reader>>
  BY DEF NewLog
<1>2. DiskTyped /\ MemoryTyped /\ CurrentOK /\ Replaying /\ OpeningOK /\ LogsTyped
  BY DEF IInv, DiskTyped
<1>3. g.has = <<>>
  OBVIOUS
<1>4. applying'.who = "open" /\ applying'.stage = "record" /\ applying'.edit = e
  BY <1>1
<1> HIDE DEF g
<1>5. /\ vs.next \in Nat /\ vs.log \in Nat /\ vs.manifest \in Nat
      /\ vs'.next = vs.next + 1 /\ vs'.version = vs.version /\ vs'.log = vs.log /\ vs'.manifest = vs.manifest
      /\ vs'.opened = vs.opened
      /\ \A n \in DOMAIN logs : n \in Nat /\ n < vs.next
  BY <1>1, <1>2 DEF MemoryTyped, Replaying, LogsTyped
<1>6. /\ DOMAIN logs' = DOMAIN logs \cup {vs.next} /\ logs'[vs.next].has = <<>>
      /\ \A n \in DOMAIN logs : logs'[n] = logs[n]
  <2>1. /\ DOMAIN logs' = DOMAIN logs \cup {vs.next} /\ logs'[vs.next] = g
        /\ \A n \in DOMAIN logs : n # vs.next => logs'[n] = logs[n]
    BY <1>1 DEF With
  <2>2. \A n \in DOMAIN logs : n # vs.next
    BY <1>5
  <2> QED BY <1>3, <2>1, <2>2
<1>7. \A b : ~InLog(logs'[vs.next], b)
  BY <1>6 DEF InLog
<1>8. vs.manifest < vs.next /\ vs.log < vs.next
  BY <1>1, <1>2 DEF OpeningOK
<1>9. Writing'
  <2>1. \A n \in DOMAIN logs' : n <= vs.next
    BY <1>5, <1>6
  <2>2. \A n \in DOMAIN logs' : n >= vs.log => \A b : InLog(logs'[n], b) => InTables(tables, replay.made, b)
    BY <1>1, <1>2, <1>6, <1>7 DEF Replaying
  <2>3. e = [log |-> log', next |-> vs'.next, add |-> replay'.made, del |-> {}]
    BY <1>1, <1>5
  <2>4. vs.next < vs.next + 1
    BY <1>5
  <2> HIDE DEF e
  <2> QED BY <1>1, <1>4, <1>5, <1>6, <1>8, <2>1, <2>2, <2>3, <2>4 DEF Writing
<1>10. OpeningOK'
  <2>1. LastState' = LastState
    BY <1>1 DEF LastState, Final
  <2>2. LastState \in State
    BY <1>1, <1>2, LastIsKept DEF OpeningOK
  <2>3. LastState.next \in Nat /\ LastState.next <= vs.next
    BY <1>1, <1>2, <2>2 DEF State, OpeningOK
  <2>4. vs.manifest < vs.next + 1 /\ vs.log < vs.next + 1 /\ LastState.next <= vs.next + 1
    BY <1>5, <1>8, <2>3
  <2>5. \A t \in vs.version \cup replay.made : t \in Nat
    BY <1>2 DEF MemoryTyped
  <2>6. Below(vs.version \cup replay.made, vs.next + 1)
    BY <1>1, <1>2, <1>5, <2>5 DEF OpeningOK, Below
  <2>7. NoApply.stage # "install" /\ applying = NoApply
    BY <1>1, <1>2 DEF NoApply, Replaying
  <2> HIDE DEF e
  <2> QED BY <1>1, <1>2, <1>4, <1>5, <2>1, <2>4, <2>6, <2>7 DEF OpeningOK
<1> QED BY <1>1, <1>9, <1>10 DEF Process, DownOK, Replaying, UpOK

\* The first MANIFEST of a process is written, synced and named by CURRENT.
LEMMA WritesManifest == IInv /\ pc = "apply" /\ (ApplyRecord \/ ApplySync \/ SetCurrentFile) => Process'
<1> SUFFICES ASSUME IInv, pc = "apply", ApplyRecord \/ ApplySync \/ SetCurrentFile
             PROVE  Process'
  OBVIOUS
<1>1. DiskTyped /\ MemoryTyped /\ CurrentOK /\ Writing /\ OpeningOK /\ GhostsTyped /\ ManifestsTyped
  BY DEF IInv, DiskTyped
<1>2. /\ UNCHANGED <<tables, logs, pc, vs, replay, log, mem, imm, flush, merge, failed, reader>>
      /\ applying'.who = applying.who /\ applying'.edit = applying.edit /\ Snapshot' = Snapshot
  BY <1>1 DEF ApplyRecord, ApplySync, SetCurrentFile, MemoryTyped, Snapshot
<1>3. ~vs.opened /\ current # 0 /\ current \in Nat /\ vs.manifest \in Nat
      /\ (applying.stage # "install" => current < vs.manifest) /\ current \in DOMAIN manifests
  BY <1>1, LastIsKept DEF OpeningOK, GhostsTyped, MemoryTyped
<1> DEFINE after == <<Snapshot, ApplyEdit(Snapshot, applying.edit)>>
<1>4. Len(after) = 2
  OBVIOUS
<1> HIDE DEF after
<1>5. CASE ApplyRecord
  <2>1. /\ applying.stage = "record" /\ applying'.stage = "sync" /\ UNCHANGED current /\ manifests' = WithRecord
    BY <1>1, <1>5 DEF ApplyRecord, MemoryTyped
  <2>2. /\ DOMAIN WithRecord = DOMAIN manifests \cup {vs.manifest}
        /\ \A m \in DOMAIN manifests : m # vs.manifest => WithRecord[m] = manifests[m]
        /\ WithRecord[vs.manifest] = [after |-> after, synced |-> 0]
    BY <1>1, <1>3, RecordWritten DEF after
  <2>3. vs.manifest \in DOMAIN manifests' /\ manifests'[vs.manifest].after = after
    BY <2>1, <2>2
  <2>4. LastState' = LastState
    BY <1>3, <2>1, <2>2 DEF LastState, Final
  <2>5. Writing'
    BY <1>1, <1>2, <2>1, <2>3 DEF Writing, after
  <2>6. OpeningOK'
    BY <1>1, <1>2, <1>3, <2>1, <2>4 DEF OpeningOK
  <2> QED BY <1>2, <2>5, <2>6 DEF Process, DownOK, Replaying, UpOK
<1>6. CASE ApplySync
  <2>1. /\ applying.stage = "sync" /\ applying'.stage = "current" /\ UNCHANGED current
        /\ manifests' = [manifests EXCEPT ![vs.manifest].synced = Len(manifests[vs.manifest].after)]
    BY <1>1, <1>3, <1>6 DEF ApplySync, MemoryTyped
  <2>2. vs.manifest \in DOMAIN manifests /\ manifests[vs.manifest].after = after
    BY <1>1, <2>1 DEF Writing, after
  <2> DEFINE m == manifests[vs.manifest]
  <2>3. m \in [after : Seq(State), synced : Nat]
    BY <1>1, <2>2 DEF ManifestsTyped
  <2>4. /\ vs.manifest \in DOMAIN manifests' /\ manifests'[vs.manifest] = [m EXCEPT !.synced = Len(m.after)]
        /\ \A k \in DOMAIN manifests : k # vs.manifest => manifests'[k] = manifests[k]
    BY <2>1, <2>2
  <2>5. m.after = after
    BY <2>2
  <2> HIDE DEF m
  <2>6. manifests'[vs.manifest].after = after /\ manifests'[vs.manifest].synced = 2
    BY <1>4, <2>3, <2>4, <2>5
  <2>7. LastState' = LastState
    BY <1>3, <2>1, <2>4 DEF LastState, Final
  <2>8. Writing'
    BY <1>1, <1>2, <2>1, <2>4, <2>6 DEF Writing, after
  <2>9. OpeningOK'
    BY <1>1, <1>2, <1>3, <2>1, <2>7 DEF OpeningOK
  <2> QED BY <1>2, <2>8, <2>9 DEF Process, DownOK, Replaying, UpOK
<1>7. CASE SetCurrentFile
  <2>1. /\ applying.stage = "current" /\ applying'.stage = "install" /\ UNCHANGED manifests /\ current' = vs.manifest
    BY <1>1, <1>7 DEF SetCurrentFile, MemoryTyped
  <2>2. /\ manifests[vs.manifest].after = after /\ applying.edit.next = vs.next
        /\ vs.manifest < log /\ log < vs.next /\ log \in Nat /\ vs.next \in Nat
    BY <1>1, <2>1 DEF Writing, after, MemoryTyped
  <2>3. Snapshot \in State /\ applying.edit \in Edit
    BY <1>1, SnapshotIs DEF MemoryTyped
  <2> DEFINE r == ApplyEdit(Snapshot, applying.edit)
  <2>4. r.next = vs.next
    BY <2>2, <2>3, EditApplied
  <2> HIDE DEF r
  <2>5. Final(manifests[vs.manifest]) = r
    <3>1. after[2] = r
      BY DEF after, r
    <3> QED BY <1>4, <2>2, <3>1 DEF Final
  <2>6. LastState' = r
    BY <2>1, <2>5 DEF LastState
  <2>7. Writing'
    BY <1>1, <1>2, <2>1 DEF Writing
  <2>8. current' # 0
    BY <1>3, <2>1
  <2>9. OpeningOK'
    BY <1>1, <1>2, <1>3, <2>1, <2>2, <2>4, <2>6, <2>8 DEF OpeningOK
  <2> QED BY <1>2, <2>7, <2>9 DEF Process, DownOK, Replaying, UpOK
<1> QED BY <1>5, <1>6, <1>7

\* DB::Open gives up, or the process dies.
LEMMA Stops == Forgotten /\ pc' = "down" => Process'
BY ForgottenTyped DEF Process

-----------------------------------------------------------------------------
(* Installing a version. *)

\* The files that are in use, and the logs to replay, are left.
LEMMA FilesLeft ==
    ASSUME IInv, Install
    PROVE  LET m == IF applying.who = "merge" THEN NoMerge ELSE merge IN
           /\ \A t \in DOMAIN tables : t \in Installed.version \cup m.inputs \cup m.outs \cup reader =>
                  t \in DOMAIN tables' /\ tables'[t] = tables[t]
           /\ \A n \in DOMAIN logs' : n \in DOMAIN logs /\ logs'[n] = logs[n]
           /\ \A n \in DOMAIN logs : n >= Installed.log => n \in DOMAIN logs'
           /\ manifests'[current] = manifests[current]
           /\ failed => tables' = tables
<1> DEFINE m == IF applying.who = "merge" THEN NoMerge ELSE merge
<1>1. DeleteObsoleteFiles(Installed, m) /\ applying.stage = "install"
  BY DEF Install
<1>2. DiskTyped /\ MemoryTyped /\ CurrentOK
  BY DEF IInv
<1>3. \A n \in DOMAIN logs : n \in Nat
  BY <1>2 DEF DiskTyped, LogsTyped
<1>4. Installed.log \in Nat /\ Installed.manifest = vs.manifest /\ vs.manifest = current /\ current \in Nat
      /\ current \in DOMAIN manifests
  <2>1. current # 0 /\ vs.manifest = current /\ LastState.log = Installed.log
    BY <1>1, InstallReady
  <2>2. LastState \in State /\ current \in DOMAIN manifests
    BY <1>2, <2>1, LastIsKept
  <2> QED BY <1>2, <2>1, <2>2 DEF Installed, State, MemoryTyped
<1>5. CASE failed
  BY <1>1, <1>5 DEF DeleteObsoleteFiles
<1>6. CASE ~failed
  <2> HIDE DEF m
  <2> DEFINE S == DOMAIN tables \ Live(Installed, m)
             L == ObsoleteLogs(Installed)
             D == ObsoleteManifests(Installed)
  <2>1. tables' = Without(tables, S) /\ logs' = Without(logs, L) /\ manifests' = Without(manifests, D)
    BY <1>1, <1>6 DEF DeleteObsoleteFiles
  <2>2. /\ DOMAIN tables' = DOMAIN tables \ S /\ \A t \in DOMAIN tables \ S : tables'[t] = tables[t]
    BY <2>1 DEF Without
  <2>3. /\ DOMAIN logs' = DOMAIN logs \ L /\ \A n \in DOMAIN logs \ L : logs'[n] = logs[n]
    BY <2>1 DEF Without
  <2>4. \A t \in DOMAIN tables : t \in Installed.version \cup m.inputs \cup m.outs \cup reader => t \notin S
    BY DEF Live
  <2>5. \A n \in DOMAIN logs : n >= Installed.log => n \notin L
    BY <1>3, <1>4 DEF ObsoleteLogs
  <2>6. current \in DOMAIN manifests \ D
    BY <1>4 DEF ObsoleteManifests
  <2>7. manifests'[current] = manifests[current]
    BY <2>1, <2>6 DEF Without
  <2> HIDE DEF S, L, D
  <2>8. \A t \in DOMAIN tables : t \in Installed.version \cup m.inputs \cup m.outs \cup reader =>
            t \in DOMAIN tables' /\ tables'[t] = tables[t]
    BY <2>2, <2>4
  <2>9. \A n \in DOMAIN logs' : n \in DOMAIN logs /\ logs'[n] = logs[n]
    BY <2>3
  <2>10. \A n \in DOMAIN logs : n >= Installed.log => n \in DOMAIN logs'
    BY <2>3, <2>5
  <2> QED BY <1>6, <2>7, <2>8, <2>9, <2>10 DEF m
<1> QED BY <1>5, <1>6

\* The new version in memory.
LEMMA InstalledIs ==
    ASSUME MemoryTyped
    PROVE  /\ Installed.version = (vs.version \ applying.edit.del) \cup applying.edit.add
           /\ Installed.log = (IF applying.edit.log = 0 THEN vs.log ELSE applying.edit.log)
           /\ Installed.next = vs.next /\ Installed.manifest = vs.manifest /\ Installed.opened
BY DEF Installed, MemoryTyped

\* The database is open.
LEMMA Opened == IInv /\ pc = "apply" /\ Install => Process'
<1> SUFFICES ASSUME IInv, pc = "apply", Install
             PROVE  Process'
  OBVIOUS
<1>1. DiskTyped /\ MemoryTyped /\ CurrentOK /\ Writing /\ OpeningOK /\ LogsTyped
  BY DEF IInv, DiskTyped
<1>2. /\ applying.stage = "install" /\ vs' = Installed /\ applying' = NoApply /\ pc' = "up"
      /\ UNCHANGED <<current, log, mem, failed, reader>>
  BY DEF Install
<1>3. applying.who = "open"
  BY <1>1 DEF Writing
<1>4. /\ merge' = merge /\ merge = NoMerge /\ imm' = {} /\ flush' = 0 /\ mem = {} /\ reader = {} /\ failed = FALSE
      /\ imm = {} /\ flush = 0 /\ current # 0
  BY <1>1, <1>2, <1>3 DEF Install, OpeningOK
<1>5. /\ applying.edit.log = log /\ applying.edit.add = replay.made /\ applying.edit.del = {}
      /\ log \in DOMAIN logs /\ logs[log].has = <<>> /\ vs.log < log /\ log < vs.next
      /\ \A n \in DOMAIN logs : n <= log
      /\ log \in Nat /\ vs.log \in Nat /\ log > 0
      /\ \A n \in DOMAIN logs : n \in Nat
  BY <1>1 DEF Writing, MemoryTyped, LogsTyped
<1>6. /\ vs'.version = vs.version \cup replay.made /\ vs'.log = log /\ vs'.next = vs.next
      /\ vs'.manifest = vs.manifest /\ vs'.opened
  BY <1>1, <1>2, <1>5, InstalledIs
<1>7. /\ Kept(manifests[current]) = {Len(manifests[current].after)} /\ vs.manifest = current
      /\ LastState.log = log /\ LastState.version = vs.version \cup replay.made
  BY <1>2, <1>4, <1>6, InstallReady
<1>8. /\ \A t \in DOMAIN tables : t \in vs.version \cup replay.made => t \in DOMAIN tables' /\ tables'[t] = tables[t]
      /\ \A n \in DOMAIN logs' : n \in DOMAIN logs /\ logs'[n] = logs[n]
      /\ log \in DOMAIN logs'
      /\ manifests'[current] = manifests[current]
  BY <1>2, <1>5, <1>6, FilesLeft
<1>9. LastState' = LastState /\ Kept(manifests[current])' = {Len(manifests[current].after)}
      /\ manifests'[current].after[Len(manifests[current].after)] = LastState
  BY <1>2, <1>7, <1>8 DEF LastState, Final, Kept
<1>10. LogsOK'
  <2>1. \A b : ~InLog(logs'[log], b)
    BY <1>5, <1>8 DEF InLog
  <2>2. \A n \in DOMAIN logs' : ~(log <= n /\ n < log)
    BY <1>5, <1>8
  <2> QED BY <1>2, <1>5, <1>6, <1>7, <1>8, <1>9, <2>1, <2>2 DEF LogsOK
<1>11. VersionOK'
  <2>1. WholeIn(vs.version \cup replay.made, tables') /\ Below(vs.version \cup replay.made, vs.next)
    BY <1>1, <1>8 DEF OpeningOK, WholeIn
  <2>2. LastState.next <= vs.next
    BY <1>1 DEF OpeningOK
  <2>3. (vs.version \cup replay.made) \cup {} = vs.version \cup replay.made
    OBVIOUS
  <2>4. NoMerge.inputs = {}
    BY DEF NoMerge
  <2> QED BY <1>2, <1>4, <1>6, <1>7, <1>9, <2>1, <2>2, <2>3, <2>4 DEF VersionOK
<1>12. OutputsOK'
  BY <1>4 DEF OutputsOK, NoMerge, Below
<1>13. EditOK'
  BY <1>2 DEF EditOK, NoApply
<1>14. RecordOK'
  BY <1>2, <1>5, <1>6, <1>7, <1>9 DEF RecordOK, NoApply
<1> QED BY <1>2, <1>10, <1>11, <1>12, <1>13, <1>14 DEF Process, DownOK, Replaying, Writing, OpeningOK, UpOK

\* A flush or a compaction ends.
LEMMA Replaced == IInv /\ pc = "up" /\ Install => Process'
<1> SUFFICES ASSUME IInv, pc = "up", Install
             PROVE  Process'
  OBVIOUS
<1> DEFINE e == applying.edit
<1>1. DiskTyped /\ MemoryTyped /\ CurrentOK /\ LogsOK /\ VersionOK /\ OutputsOK /\ EditOK /\ RecordOK /\ LogsTyped
  BY DEF IInv, DiskTyped, UpOK
<1>2. /\ applying.stage = "install" /\ vs' = Installed /\ applying' = NoApply /\ pc' = "up"
      /\ UNCHANGED <<current, log, mem, failed, reader>>
      /\ merge' = IF applying.who = "merge" THEN NoMerge ELSE merge
      /\ IF applying.who = "flush" THEN imm' = {} /\ flush' = 0 ELSE UNCHANGED <<imm, flush>>
  BY DEF Install
<1>3. /\ applying.who \in {"flush", "merge"} /\ 0 < e.log /\ e.log < e.next /\ e.next <= vs.next
      /\ WholeIn(e.add, tables) /\ Below(e.add, e.next)
      /\ applying.who = "flush" =>
             flush # 0 /\ e.log = log /\ e.add = {flush} /\ e.del = {} /\ tables[flush].has = imm
      /\ applying.who = "merge" =>
             /\ flush = 0 /\ e.log = vs.log /\ e.add = merge.outs /\ e.del = merge.inputs /\ merge.outs # {}
             /\ \A t \in merge.outs : \A b : b \in tables[t].has <=> InTables(tables, merge.inputs, b)
  BY <1>1, <1>2 DEF EditOK
<1>4. /\ e.log \in Nat /\ e.next \in Nat /\ e.log # 0 /\ log \in Nat /\ vs.log \in Nat /\ vs.next \in Nat
      /\ \A n \in DOMAIN logs : n \in Nat /\ n <= log
      /\ e.add \subseteq Nat
  BY <1>1, <1>3 DEF MemoryTyped, Edit, LogsTyped, LogsOK
<1>5. /\ vs'.version = (vs.version \ e.del) \cup e.add /\ vs'.log = e.log /\ vs'.next = vs.next
      /\ vs'.manifest = vs.manifest /\ vs'.opened
  BY <1>1, <1>2, <1>4, InstalledIs
<1>6. /\ Kept(manifests[current]) = {Len(manifests[current].after)} /\ vs.manifest = current /\ current # 0
      /\ LastState.log = e.log /\ (~failed => LastState.version = vs'.version)
  BY <1>2, <1>5, InstallReady
<1>7. /\ \A t \in DOMAIN tables : t \in vs'.version \cup merge'.inputs \cup merge'.outs \cup reader =>
             t \in DOMAIN tables' /\ tables'[t] = tables[t]
      /\ \A n \in DOMAIN logs' : n \in DOMAIN logs /\ logs'[n] = logs[n]
      /\ \A n \in DOMAIN logs : n >= e.log => n \in DOMAIN logs'
      /\ manifests'[current] = manifests[current]
      /\ failed => tables' = tables
  BY <1>2, <1>5, FilesLeft
<1>8. LastState' = LastState /\ Kept(manifests[current])' = {Len(manifests[current].after)}
      /\ manifests'[current].after[Len(manifests[current].after)] = LastState
  BY <1>2, <1>6, <1>7 DEF LastState, Final, Kept
<1>9. e.log <= log /\ log \in DOMAIN logs /\ log < vs.next /\ 0 < vs.log /\ vs.log <= log
  BY <1>1, <1>3, <1>4 DEF LogsOK
<1> HIDE DEF e
<1>10. WholeIn(vs'.version \cup reader, tables)
  BY <1>1, <1>3, <1>5 DEF WholeIn, VersionOK
<1>11. LogsOK'
  <2>1. log \in DOMAIN logs'
    BY <1>4, <1>7, <1>9
  <2>2. \A b : InLog(logs'[log], b) => b \in mem
    BY <1>1, <1>7, <2>1 DEF LogsOK
  <2>3. ASSUME NEW n \in DOMAIN logs', e.log <= n, n < log, NEW b, InLog(logs'[n], b)
        PROVE  b \in imm' \/ InTables(tables', vs'.version, b)
    <3>1. applying.who = "merge" /\ e.log = vs.log
      BY <1>3, <1>4, <1>7, <2>3
    <3>2. b \in imm \/ InTables(tables, vs.version, b)
      BY <1>1, <1>7, <2>3, <3>1 DEF LogsOK
    <3>3. ASSUME NEW t \in vs.version, b \in tables[t].has
          PROVE  InTables(tables', vs'.version, b)
      <4>1. CASE t \notin e.del
        <5>1. t \in vs'.version
          BY <1>5, <4>1
        <5>2. t \in DOMAIN tables
          BY <1>10, <5>1 DEF WholeIn
        <5> QED BY <1>7, <3>3, <5>1, <5>2 DEF InTables
      <4>2. CASE t \in e.del
        <5>1. PICK u \in merge.outs : b \in tables[u].has
          BY <1>3, <3>1, <3>3, <4>2 DEF InTables
        <5>2. u \in vs'.version
          BY <1>3, <1>5, <3>1
        <5>3. u \in DOMAIN tables
          BY <1>10, <5>2 DEF WholeIn
        <5> QED BY <1>7, <5>1, <5>2, <5>3 DEF InTables
      <4> QED BY <4>1, <4>2
    <3> QED BY <1>2, <3>1, <3>2, <3>3 DEF InTables
  <2>4. \A n \in DOMAIN logs' : n <= log
    BY <1>4, <1>7
  <2>5. \A i \in Kept(manifests[current])' : manifests'[current'].after[i].log <= log
    BY <1>2, <1>6, <1>8, <1>9
  <2> QED BY <1>2, <1>3, <1>5, <1>9, <2>1, <2>2, <2>3, <2>4, <2>5 DEF LogsOK
<1>12. VersionOK'
  <2>1. WholeIn(vs'.version \cup reader, tables')
    BY <1>7, <1>10 DEF WholeIn
  <2>2. Below(e.add, vs.next)
    BY <1>3, <1>4 DEF Below
  <2>3. Below(vs'.version \cup reader, vs.next)
    BY <1>1, <1>5, <2>2 DEF Below, VersionOK
  <2>4. merge'.inputs \subseteq vs'.version
    BY <1>1, <1>2, <1>3, <1>5 DEF VersionOK, NoMerge
  <2>5. LastState.next <= vs.next
    BY <1>1 DEF VersionOK
  <2> QED BY <1>2, <1>5, <1>6, <1>8, <2>1, <2>3, <2>4, <2>5 DEF VersionOK
<1>13. OutputsOK'
  <2>1. CASE applying.who = "merge"
    <3>1. merge' = NoMerge /\ flush' = 0
      BY <1>2, <1>3, <2>1
    <3> QED BY <3>1 DEF OutputsOK, NoMerge, Below
  <2>2. CASE applying.who = "flush"
    <3>1. merge' = merge /\ flush' = 0 /\ e.add = {flush} /\ flush \notin merge.outs /\ 0 \notin merge.outs
          /\ merge.outs \subseteq DOMAIN tables /\ Below(merge.outs, vs.next) /\ merge.outs \cap InUse = {}
      BY <1>1, <1>2, <1>3, <2>2 DEF OutputsOK
    <3>2. merge.outs \subseteq DOMAIN tables'
      BY <1>7, <3>1
    <3>3. LastState.version \subseteq InUse
      BY <1>6 DEF InUse, LastState, Final
    <3>4. InUse' \subseteq InUse \cup {flush}
      <4>1. InUse' = reader \cup vs'.version \cup LastState.version
        BY <1>2, <1>8 DEF InUse
      <4>2. reader \cup vs.version \subseteq InUse
        BY DEF InUse
      <4> QED BY <1>5, <3>1, <3>3, <4>1, <4>2
    <3>5. merge'.outs \cap InUse' = {}
      BY <3>1, <3>4
    <3> QED BY <1>5, <3>1, <3>2, <3>5 DEF OutputsOK
  <2> QED BY <1>3, <2>1, <2>2
<1>14. EditOK'
  BY <1>2 DEF EditOK, NoApply
<1>15. RecordOK'
  <2>1. ASSUME NEW b, InTables(tables', vs'.version, b)
        PROVE  InTables(tables', LastState.version, b)
    <3>1. CASE ~failed
      BY <1>6, <2>1, <3>1
    <3>2. CASE failed
      <4>1. PICK t \in vs'.version : b \in tables[t].has
        BY <1>7, <2>1, <3>2 DEF InTables
      <4>2. CASE t \in vs.version
        <5>1. InTables(tables, vs.version, b)
          BY <4>1, <4>2 DEF InTables
        <5>2. InTables(tables, LastState.version, b)
          BY <1>1, <5>1 DEF RecordOK
        <5> QED BY <1>7, <3>2, <5>2
      <4>3. CASE t \in e.add
        <5>1. e.add \subseteq LastState.version
          BY <1>1, <1>2 DEF RecordOK, e
        <5> QED BY <1>7, <3>2, <4>1, <4>3, <5>1 DEF InTables
      <4> QED BY <1>5, <4>1, <4>2, <4>3
    <3> QED BY <3>1, <3>2
  <2>2. NoApply.stage = "none"
    BY DEF NoApply
  <2>3. vs'.log = LastState.log /\ e.log <= e.log
    BY <1>4, <1>5, <1>6
  <2> QED BY <1>2, <1>5, <1>6, <1>8, <2>1, <2>2, <2>3 DEF RecordOK
<1> QED BY <1>2, <1>11, <1>12, <1>13, <1>14, <1>15 DEF Process, DownOK, Replaying, Writing, OpeningOK, UpOK

-----------------------------------------------------------------------------
(* The database in use. *)

\* While the database is in use, only that part of the invariant says more
\* than where it is.
LEMMA InUseOnly ==
    ASSUME pc' = "up", LogsOK', VersionOK', OutputsOK', EditOK', RecordOK'
    PROVE  Process'
BY DEF Process, DownOK, Replaying, Writing, OpeningOK, UpOK

\* What a new number is not.
LEMMA NewNumber ==
    ASSUME IInv, pc = "up"
    PROVE  /\ vs.next \notin InUse /\ vs.next \notin merge.outs /\ vs.next # flush /\ vs.next # 0
           /\ vs.next \notin DOMAIN logs /\ log < vs.next /\ vs.next \in Nat
           /\ vs.next \notin vs.version \cup reader \cup LastState.version
<1>1. DiskTyped /\ MemoryTyped /\ CurrentOK /\ LogsOK /\ VersionOK /\ OutputsOK /\ LogsTyped
  BY DEF IInv, UpOK, DiskTyped
<1>2. current # 0 /\ LastState.next <= vs.next /\ vs.next \in Nat /\ log \in Nat /\ log < vs.next
  BY <1>1 DEF VersionOK, MemoryTyped, LogsOK
<1>3. \A i \in Kept(manifests[current]) : vs.next \notin manifests[current].after[i].version
  BY <1>1, <1>2, FreshNumber
<1>4. vs.next \notin vs.version \cup reader
  BY <1>1, <1>2 DEF VersionOK, Below
<1>5. vs.next \notin merge.outs /\ vs.next # flush
  BY <1>1, <1>2 DEF OutputsOK, Below
<1>6. vs.next \notin LastState.version
  BY <1>1, <1>2, <1>3, LastIsKept DEF LastState, Final
<1>7. vs.next \notin DOMAIN logs
  BY <1>1, <1>2 DEF LogsOK, LogsTyped
<1> QED BY <1>2, <1>3, <1>4, <1>5, <1>6, <1>7 DEF InUse

\* A reader takes the current version, or drops its own.
LEMMA Reads == IInv /\ Read => Process'
<1> SUFFICES ASSUME IInv, Read
             PROVE  Process'
  OBVIOUS
<1>1. /\ pc = "up" /\ pc' = "up" /\ reader' \in {vs.version, {}}
      /\ UNCHANGED <<current, manifests, tables, logs, vs, log, mem, imm, flush, merge, applying, failed>>
  BY DEF Read, disk
<1>2. LogsOK /\ VersionOK /\ OutputsOK /\ EditOK /\ RecordOK
  BY <1>1 DEF IInv, UpOK
<1>3. LastState' = LastState /\ Kept(manifests[current])' = Kept(manifests[current])
  BY <1>1 DEF LastState, Final, Kept
<1>4. LogsOK'
  BY <1>1, <1>2, <1>3 DEF LogsOK
<1>5. VersionOK'
  BY <1>1, <1>2, <1>3 DEF VersionOK, WholeIn, Below
<1>6. InUse' \subseteq InUse
  BY <1>1, <1>3 DEF InUse
<1>7. OutputsOK'
  BY <1>1, <1>2, <1>6 DEF OutputsOK
<1>8. EditOK'
  BY <1>1, <1>2, <1>3 DEF EditOK
<1>9. RecordOK'
  BY <1>1, <1>2, <1>3 DEF RecordOK
<1> QED BY <1>1, <1>4, <1>5, <1>7, <1>8, <1>9, InUseOnly

\* A compaction begins.
LEMMA MergeBegins == IInv /\ MergeBegin => Process'
<1> SUFFICES ASSUME IInv, MergeBegin
             PROVE  Process'
  OBVIOUS
<1>1. /\ pc = "up" /\ pc' = "up" /\ applying = NoApply /\ flush = 0
      /\ UNCHANGED <<current, manifests, tables, logs, vs, log, mem, imm, flush, reader, applying, failed>>
  BY DEF MergeBegin, disk, Up
<1>2. PICK inputs \in (SUBSET vs.version) \ {{}} : merge' = [NoMerge EXCEPT !.inputs = inputs]
  BY DEF MergeBegin
<1>3. merge'.inputs \subseteq vs.version /\ merge'.outs = {}
  BY <1>2 DEF NoMerge
<1>4. LogsOK /\ VersionOK /\ OutputsOK /\ EditOK /\ RecordOK
  BY <1>1 DEF IInv, UpOK
<1>5. LastState' = LastState /\ Kept(manifests[current])' = Kept(manifests[current])
  BY <1>1 DEF LastState, Final, Kept
<1>6. LogsOK'
  BY <1>1, <1>4, <1>5 DEF LogsOK
<1>7. VersionOK'
  BY <1>1, <1>3, <1>4, <1>5 DEF VersionOK
<1>8. OutputsOK'
  BY <1>1, <1>3, <1>4 DEF OutputsOK, Below
<1>9. EditOK'
  BY <1>1 DEF EditOK, NoApply
<1>10. RecordOK'
  BY <1>1, <1>4, <1>5 DEF RecordOK
<1> QED BY <1>1, <1>6, <1>7, <1>8, <1>9, <1>10, InUseOnly

\* A table is begun, under a number that nothing else has.
LEMMA TableBegins == IInv /\ (FlushBegin \/ OpenCompactionOutputFile) => Process'
<1> SUFFICES ASSUME IInv, FlushBegin \/ OpenCompactionOutputFile
             PROVE  Process'
  OBVIOUS
<1> DEFINE v == [has |-> {}, whole |-> FALSE]
<1>1. /\ pc = "up" /\ pc' = "up" /\ applying = NoApply
      /\ tables' = With(tables, vs.next, v) /\ vs' = [vs EXCEPT !.next = @ + 1]
      /\ UNCHANGED <<current, manifests, logs, log, mem, imm, reader, applying, failed>>
  BY DEF FlushBegin, OpenCompactionOutputFile, Up
<1>2. DiskTyped /\ MemoryTyped /\ CurrentOK /\ LogsOK /\ VersionOK /\ OutputsOK /\ RecordOK
  BY <1>1 DEF IInv, UpOK
<1> HIDE DEF v
<1>3. /\ vs'.next = vs.next + 1 /\ vs'.version = vs.version /\ vs'.log = vs.log /\ vs'.manifest = vs.manifest
      /\ vs'.opened = vs.opened /\ vs.next < vs'.next
      /\ \A n : n \in Nat /\ n < vs.next => n < vs'.next
  BY <1>1, <1>2 DEF MemoryTyped
<1>4. /\ DOMAIN tables' = DOMAIN tables \cup {vs.next}
      /\ \A t \in DOMAIN tables : t # vs.next => tables'[t] = tables[t]
  BY <1>1 DEF With
<1>5. /\ vs.next \notin InUse /\ vs.next \notin merge.outs /\ vs.next # flush /\ vs.next # 0
      /\ vs.next \in Nat /\ log < vs.next
      /\ vs.next \notin vs.version \cup reader \cup LastState.version
  BY <1>1, NewNumber
<1>6. LastState' = LastState /\ Kept(manifests[current])' = Kept(manifests[current]) /\ InUse' = InUse
  BY <1>1, <1>3 DEF LastState, Final, Kept, InUse
<1>7. WholeIn(vs.version \cup reader, tables) /\ WholeIn(LastState.version, tables)
      /\ Below(vs.version \cup reader, vs.next) /\ LastState \in State /\ LastState.next <= vs.next
  BY <1>2, LastIsKept DEF VersionOK, Good
<1>8. \A t \in vs.version \cup reader \cup LastState.version : t \in DOMAIN tables' /\ tables'[t] = tables[t]
  BY <1>4, <1>5, <1>7 DEF WholeIn
<1>9. LogsOK'
  <2>1. log < vs'.next
    BY <1>2, <1>3, <1>5 DEF MemoryTyped
  <2>2. \A b : InTables(tables, vs.version, b) => InTables(tables', vs.version, b)
    BY <1>8 DEF InTables
  <2> QED BY <1>1, <1>2, <1>3, <1>6, <2>1, <2>2 DEF LogsOK
<1>10. VersionOK'
  <2>1. WholeIn(vs.version \cup reader, tables')
    BY <1>7, <1>8 DEF WholeIn
  <2>2. \A t \in vs.version \cup reader : t \in Nat
    BY <1>2 DEF MemoryTyped
  <2>3. Below(vs.version \cup reader, vs'.next)
    BY <1>3, <1>7, <2>2 DEF Below
  <2>4. LastState.next <= vs'.next
    BY <1>3, <1>5, <1>7 DEF State
  <2>5. merge'.inputs = merge.inputs
    BY <1>2 DEF FlushBegin, OpenCompactionOutputFile, MemoryTyped
  <2> QED BY <1>1, <1>2, <1>3, <1>6, <2>1, <2>3, <2>4, <2>5 DEF VersionOK
<1>11. OutputsOK'
  <2>1. applying.who = "none" /\ applying'.who = "none"
    BY <1>1 DEF NoApply
  <2>2. \A t \in merge.outs : t < vs'.next
    BY <1>2, <1>3 DEF OutputsOK, Below, MemoryTyped
  <2>3. CASE FlushBegin
    <3>1. flush' = vs.next /\ imm # {} /\ merge' = merge
      BY <2>3 DEF FlushBegin
    <3> QED BY <1>1, <1>2, <1>3, <1>4, <1>5, <1>6, <2>1, <2>2, <3>1 DEF OutputsOK, Below
  <2>4. CASE OpenCompactionOutputFile
    <3>1. flush = 0 /\ flush' = flush /\ merge'.outs = merge.outs \cup {vs.next}
      BY <1>2, <2>4 DEF OpenCompactionOutputFile, MemoryTyped
    <3> QED BY <1>1, <1>2, <1>3, <1>4, <1>5, <1>6, <2>1, <2>2, <3>1 DEF OutputsOK, Below
  <2> QED BY <2>3, <2>4
<1>12. EditOK'
  BY <1>1 DEF EditOK, NoApply
<1>13. RecordOK'
  <2>1. \A b : InTables(tables', vs.version, b) => InTables(tables', LastState.version, b)
    <3>1. \A b : InTables(tables', vs.version, b) <=> InTables(tables, vs.version, b)
      BY <1>8 DEF InTables
    <3>2. \A b : InTables(tables', LastState.version, b) <=> InTables(tables, LastState.version, b)
      BY <1>8 DEF InTables
    <3> QED BY <1>2, <3>1, <3>2 DEF RecordOK
  <2>2. applying.stage = "none"
    BY <1>1 DEF NoApply
  <2> QED BY <1>1, <1>2, <1>3, <1>6, <2>1, <2>2 DEF RecordOK
<1> QED BY <1>1, <1>9, <1>10, <1>11, <1>12, <1>13, InUseOnly

\* Tables that are in no version are written, and are whole.
LEMMA WrittenTables ==
    ASSUME IInv, pc = "up", applying = NoApply, NEW X, X \cap InUse = {}, X \subseteq DOMAIN tables,
           DOMAIN tables' = DOMAIN tables, \A t \in DOMAIN tables : t \notin X => tables'[t] = tables[t],
           UNCHANGED <<current, manifests, logs, pc, vs, log, mem, imm, flush, failed, reader>>,
           merge'.inputs = merge.inputs, merge'.outs = merge.outs,
           applying'.stage = "record",
           flush # 0 => applying'.who = "flush",
           applying'.who = "flush" \/ applying'.who = "merge"
    PROVE  /\ LogsOK' /\ VersionOK' /\ OutputsOK' /\ RecordOK'
           /\ current < vs.next /\ 0 < log /\ log < vs.next /\ 0 < vs.log /\ vs.log < vs.next
           /\ LastState' = LastState /\ LastState.next <= vs.next
           /\ Kept(manifests[current])' = Kept(manifests[current])
           /\ \A i \in Kept(manifests[current]) : Below(manifests[current].after[i].version, vs.next)
           /\ \A t \in vs.version : t \in DOMAIN tables /\ tables'[t] = tables[t]
<1>1. DiskTyped /\ MemoryTyped /\ CurrentOK /\ LogsOK /\ VersionOK /\ OutputsOK /\ RecordOK
  BY DEF IInv, UpOK
<1>2. LastState' = LastState /\ Kept(manifests[current])' = Kept(manifests[current]) /\ InUse' = InUse
  BY DEF LastState, Final, Kept, InUse
<1>3. /\ current # 0 /\ WholeIn(vs.version \cup reader, tables) /\ WholeIn(LastState.version, tables)
      /\ LastState \in State /\ LastState.next <= vs.next /\ current < LastState.next
      /\ \A i \in Kept(manifests[current]) :
             manifests[current].after[i] \in State /\ Below(manifests[current].after[i].version, LastState.next)
  BY <1>1, LastIsKept DEF VersionOK, Good
<1>4. LastState.version \subseteq InUse /\ vs.version \cup reader \subseteq InUse
  BY <1>1, <1>3, LastIsKept DEF InUse, LastState, Final
<1>5. \A t \in vs.version \cup reader \cup LastState.version : t \in DOMAIN tables /\ tables'[t] = tables[t]
  BY <1>3, <1>4 DEF WholeIn
<1>6. LogsOK'
  <2>1. \A b : InTables(tables, vs.version, b) => InTables(tables', vs.version, b)
    BY <1>5 DEF InTables
  <2> QED BY <1>1, <1>2, <2>1 DEF LogsOK
<1>7. VersionOK'
  <2>1. WholeIn(vs.version \cup reader, tables')
    BY <1>3, <1>5 DEF WholeIn
  <2> QED BY <1>1, <1>2, <2>1 DEF VersionOK
<1>8. applying.who = "none" /\ applying.stage = "none"
  BY DEF NoApply
<1>9. OutputsOK'
  BY <1>1, <1>2, <1>8 DEF OutputsOK
<1>10. RecordOK'
  <2>1. \A b : InTables(tables', vs.version, b) <=> InTables(tables, vs.version, b)
    BY <1>5 DEF InTables
  <2>2. \A b : InTables(tables', LastState.version, b) <=> InTables(tables, LastState.version, b)
    BY <1>5 DEF InTables
  <2> QED BY <1>1, <1>2, <1>8, <2>1, <2>2 DEF RecordOK
<1>11. /\ current \in Nat /\ log \in Nat /\ vs.log \in Nat /\ vs.next \in Nat /\ LastState.next \in Nat
       /\ 0 < vs.log /\ vs.log <= log /\ log < vs.next
  BY <1>1, <1>3 DEF DiskTyped, GhostsTyped, MemoryTyped, State, LogsOK
<1>12. \A i \in Kept(manifests[current]) : Below(manifests[current].after[i].version, vs.next)
  <2> SUFFICES ASSUME NEW i \in Kept(manifests[current]), NEW t \in manifests[current].after[i].version
               PROVE  t < vs.next
    BY DEF Below
  <2>1. manifests[current].after[i] \in State /\ Below(manifests[current].after[i].version, LastState.next)
    BY <1>3
  <2>2. t \in Nat /\ t < LastState.next
    BY <2>1 DEF State, Below
  <2> QED BY <1>3, <1>11, <2>2
<1> QED BY <1>2, <1>3, <1>5, <1>6, <1>7, <1>9, <1>10, <1>11, <1>12

\* The memtable is in its table.
LEMMA FlushEnds == IInv /\ FlushEnd => Process'
<1> SUFFICES ASSUME IInv, FlushEnd
             PROVE  Process'
  OBVIOUS
<1> DEFINE e == [log |-> log, next |-> vs.next, add |-> {flush}, del |-> {}]
<1>1. /\ flush # 0 /\ applying = NoApply
      /\ tables' = [tables EXCEPT ![flush] = [has |-> imm, whole |-> TRUE]]
      /\ applying' = [who |-> "flush", stage |-> "record", edit |-> e]
      /\ UNCHANGED <<current, manifests, logs, pc, vs, log, mem, imm, flush, merge, failed, reader>>
  BY DEF FlushEnd
<1>2. pc = "up"
  BY <1>1, WhereItIs
<1>3. /\ flush \in DOMAIN tables /\ flush < vs.next /\ flush \notin InUse /\ imm # {}
  BY <1>1, <1>2 DEF IInv, UpOK, OutputsOK, NoApply
<1>4. /\ DOMAIN tables' = DOMAIN tables /\ tables'[flush].has = imm /\ tables'[flush].whole
      /\ \A t \in DOMAIN tables : t # flush => tables'[t] = tables[t]
  BY <1>1, <1>3
<1>5. /\ applying'.who = "flush" /\ applying'.stage = "record" /\ applying'.edit = e
      /\ e.log = log /\ e.next = vs.next /\ e.add = {flush} /\ e.del = {}
  BY <1>1
<1> HIDE DEF e
<1>6. /\ LogsOK' /\ VersionOK' /\ OutputsOK' /\ RecordOK'
      /\ current < vs.next /\ 0 < log /\ log < vs.next
      /\ LastState' = LastState /\ LastState.next <= vs.next
      /\ Kept(manifests[current])' = Kept(manifests[current])
      /\ \A i \in Kept(manifests[current]) : Below(manifests[current].after[i].version, vs.next)
  <2> DEFINE X == {flush}
  <2>1. X \cap InUse = {} /\ X \subseteq DOMAIN tables /\ \A t \in DOMAIN tables : t \notin X => tables'[t] = tables[t]
    BY <1>3, <1>4
  <2> HIDE DEF X
  <2> QED BY <1>1, <1>2, <1>4, <1>5, <2>1, WrittenTables
<1>7. EditOK'
  <2>1. WholeIn({flush}, tables') /\ Below({flush}, vs.next)
    BY <1>3, <1>4 DEF WholeIn, Below
  <2>2. vs.next <= vs.next
    BY <1>2 DEF IInv, MemoryTyped
  <2> QED BY <1>1, <1>4, <1>5, <1>6, <2>1, <2>2 DEF EditOK
<1> QED BY <1>1, <1>2, <1>6, <1>7, InUseOnly

\* A compaction's outputs are finished.
LEMMA MergeEnds == IInv /\ InstallCompactionResults => Process'
<1> SUFFICES ASSUME IInv, InstallCompactionResults
             PROVE  Process'
  OBVIOUS
<1> DEFINE e == [log |-> vs.log, next |-> vs.next, add |-> merge.outs, del |-> merge.inputs]
           all == UNION {tables[i].has : i \in merge.inputs}
<1>1. /\ merge.outs # {} /\ flush = 0 /\ applying = NoApply
      /\ tables' = [t \in DOMAIN tables |->
             IF t \in merge.outs THEN [has |-> all, whole |-> TRUE] ELSE tables[t]]
      /\ merge' = [merge EXCEPT !.whole = TRUE]
      /\ applying' = [who |-> "merge", stage |-> "record", edit |-> e]
      /\ UNCHANGED <<current, manifests, logs, pc, vs, log, mem, imm, flush, failed, reader>>
  BY DEF InstallCompactionResults
<1>2. pc = "up"
  BY <1>1, WhereItIs
<1>3. /\ merge.outs \subseteq DOMAIN tables /\ Below(merge.outs, vs.next) /\ merge.outs \cap InUse = {}
      /\ merge.inputs \subseteq vs.version /\ MemoryTyped
  BY <1>1, <1>2 DEF IInv, UpOK, OutputsOK, VersionOK, NoApply
<1>4. merge'.inputs = merge.inputs /\ merge'.outs = merge.outs
  BY <1>1, <1>3 DEF MemoryTyped
<1>5. /\ applying'.who = "merge" /\ applying'.stage = "record" /\ applying'.edit = e
      /\ e.log = vs.log /\ e.next = vs.next /\ e.add = merge.outs /\ e.del = merge.inputs
  BY <1>1
<1>6. \A b : b \in all <=> InTables(tables, merge.inputs, b)
  BY DEF InTables
<1> HIDE DEF e, all
<1>7. /\ DOMAIN tables' = DOMAIN tables
      /\ \A t \in merge.outs : tables'[t].has = all /\ tables'[t].whole
      /\ \A t \in DOMAIN tables : t \notin merge.outs => tables'[t] = tables[t]
  BY <1>1, <1>3
<1>8. /\ LogsOK' /\ VersionOK' /\ OutputsOK' /\ RecordOK'
      /\ current < vs.next /\ 0 < vs.log /\ vs.log < vs.next
      /\ LastState' = LastState /\ LastState.next <= vs.next
      /\ Kept(manifests[current])' = Kept(manifests[current])
      /\ \A i \in Kept(manifests[current]) : Below(manifests[current].after[i].version, vs.next)
      /\ \A t \in vs.version : t \in DOMAIN tables /\ tables'[t] = tables[t]
  BY <1>1, <1>2, <1>3, <1>4, <1>5, <1>7, WrittenTables
<1>9. EditOK'
  <2>1. WholeIn(merge.outs, tables')
    BY <1>3, <1>7 DEF WholeIn
  <2>2. vs.next <= vs.next
    BY <1>3 DEF MemoryTyped
  <2>3. \A b : InTables(tables, merge.inputs, b) <=> InTables(tables', merge.inputs, b)
    BY <1>3, <1>8 DEF InTables
  <2>4. \A t \in merge.outs : \A b : b \in tables'[t].has <=> InTables(tables', merge.inputs, b)
    BY <1>6, <1>7, <2>3
  <2> QED BY <1>1, <1>3, <1>4, <1>5, <1>8, <2>1, <2>2, <2>4 DEF EditOK
<1> QED BY <1>1, <1>2, <1>8, <1>9, InUseOnly

\* A batch is written.
LEMMA Writes == IInv /\ Write => Process'
<1> SUFFICES ASSUME IInv, Write
             PROVE  Process'
  OBVIOUS
<1> DEFINE has == Append(logs[log].has, written')
<1>1. /\ pc = "up" /\ pc' = "up" /\ mem' = mem \cup {written'}
      /\ UNCHANGED <<current, manifests, tables, vs, log, imm, flush, merge, applying, failed, reader>>
  BY DEF Write, Up
<1>2. PICK sync \in BOOLEAN :
          logs' = [logs EXCEPT ![log] = [has |-> has, synced |-> IF sync THEN Len(has) ELSE @.synced]]
  BY DEF Write
<1>3. LogsOK /\ VersionOK /\ OutputsOK /\ EditOK /\ RecordOK /\ LogsTyped
  BY <1>1 DEF IInv, UpOK, DiskTyped
<1>4. LastState' = LastState /\ Kept(manifests[current])' = Kept(manifests[current]) /\ InUse' = InUse
  BY <1>1 DEF LastState, Final, Kept, InUse
<1>5. log \in DOMAIN logs /\ logs[log].has \in Seq(1..written)
  BY <1>3 DEF LogsOK, LogsTyped
<1>6. /\ DOMAIN logs' = DOMAIN logs /\ logs'[log].has = Append(logs[log].has, written')
      /\ \A n \in DOMAIN logs : n # log => logs'[n] = logs[n]
  BY <1>2, <1>5
<1>7. \A b : InLog(logs'[log], b) => b \in mem'
  <2> DEFINE s == logs[log].has
  <2>1. s \in Seq(1..written)
    BY <1>5
  <2>2. \A b : (\E i \in 1..Len(s) : s[i] = b) => b \in mem
    BY <1>3 DEF LogsOK, InLog
  <2>3. logs'[log].has = Append(s, written')
    BY <1>6
  <2> HIDE DEF s
  <2>4. /\ Len(Append(s, written')) = Len(s) + 1 /\ Append(s, written')[Len(s) + 1] = written' /\ Len(s) \in Nat
        /\ \A i \in 1..Len(s) : Append(s, written')[i] = s[i]
    BY <2>1
  <2>5. \A i \in 1..(Len(s) + 1) : i \in 1..Len(s) \/ i = Len(s) + 1
    BY <2>4
  <2>6. \A i \in 1..(Len(s) + 1) : Append(s, written')[i] \in mem \cup {written'}
    BY <2>2, <2>4, <2>5
  <2> QED BY <1>1, <2>3, <2>4, <2>6 DEF InLog
<1>8. LogsOK'
  <2>1. \A n \in DOMAIN logs' : vs.log <= n /\ n < log =>
            \A b : InLog(logs'[n], b) => b \in imm \/ InTables(tables, vs.version, b)
    <3> SUFFICES ASSUME NEW n \in DOMAIN logs', vs.log <= n, n < log
                 PROVE  \A b : InLog(logs'[n], b) => b \in imm \/ InTables(tables, vs.version, b)
      OBVIOUS
    <3>1. n # log /\ n \in DOMAIN logs
      BY <1>3, <1>5, <1>6 DEF LogsTyped
    <3> QED BY <1>3, <1>6, <3>1 DEF LogsOK
  <2> QED BY <1>1, <1>3, <1>4, <1>6, <1>7, <2>1 DEF LogsOK
<1>9. VersionOK'
  BY <1>1, <1>3, <1>4 DEF VersionOK
<1>10. OutputsOK'
  BY <1>1, <1>3, <1>4 DEF OutputsOK
<1>11. EditOK'
  BY <1>1, <1>3, <1>4 DEF EditOK
<1>12. RecordOK'
  BY <1>1, <1>3, <1>4 DEF RecordOK
<1> QED BY <1>1, <1>8, <1>9, <1>10, <1>11, <1>12, InUseOnly

\* The memtable is set aside, with its log.
LEMMA Switches == IInv /\ SwitchMemTable => Process'
<1> SUFFICES ASSUME IInv, SwitchMemTable
             PROVE  Process'
  OBVIOUS
<1> DEFINE g == [has |-> <<>>, synced |-> 0]
<1>1. /\ pc = "up" /\ pc' = "up" /\ imm = {} /\ imm' = mem /\ mem' = {}
      /\ logs' = With(logs, vs.next, g) /\ log' = vs.next /\ vs' = [vs EXCEPT !.next = @ + 1]
      /\ UNCHANGED <<current, manifests, tables, flush, merge, applying, failed, reader>>
  BY DEF SwitchMemTable, Up
<1>2. /\ LogsOK /\ VersionOK /\ OutputsOK /\ EditOK /\ RecordOK /\ LogsTyped /\ DiskTyped /\ CurrentOK /\ MemoryTyped
  BY <1>1 DEF IInv, UpOK, DiskTyped
<1>3. g.has = <<>>
  OBVIOUS
<1> HIDE DEF g
<1>4. /\ vs'.next = vs.next + 1 /\ vs'.version = vs.version /\ vs'.log = vs.log /\ vs'.manifest = vs.manifest
      /\ vs'.opened = vs.opened
  BY <1>1, <1>2 DEF MemoryTyped
<1>5. LastState' = LastState /\ Kept(manifests[current])' = Kept(manifests[current]) /\ InUse' = InUse
  BY <1>1, <1>4 DEF LastState, Final, Kept, InUse
<1>6. vs.next \notin DOMAIN logs /\ log < vs.next /\ vs.next \in Nat /\ log \in Nat /\ vs.log \in Nat
      /\ current # 0
  BY <1>1, <1>2, NewNumber DEF MemoryTyped, VersionOK
<1>7. /\ DOMAIN logs' = DOMAIN logs \cup {vs.next} /\ logs'[vs.next].has = <<>>
      /\ \A n \in DOMAIN logs : logs'[n] = logs[n]
  BY <1>1, <1>3, <1>6 DEF With
<1>8. flush = 0 /\ (applying.stage # "none" => applying.who = "merge")
  <2>1. flush = 0
    BY <1>1, <1>2 DEF OutputsOK
  <2> QED BY <1>2, <2>1 DEF EditOK
<1>9. LogsOK'
  <2>1. \A b : ~InLog(logs'[vs.next], b)
    BY <1>7 DEF InLog
  <2>2. ASSUME NEW n \in DOMAIN logs', vs.log <= n, n < vs.next, NEW b, InLog(logs'[n], b)
        PROVE  b \in mem \/ InTables(tables, vs.version, b)
    <3>1. n \in DOMAIN logs /\ logs'[n] = logs[n] /\ n \in Nat /\ n <= log
      BY <1>2, <1>6, <1>7, <2>2 DEF LogsTyped, LogsOK
    <3>2. CASE n = log
      BY <1>2, <2>2, <3>1, <3>2 DEF LogsOK
    <3>3. CASE n < log
      BY <1>1, <1>2, <2>2, <3>1, <3>3 DEF LogsOK
    <3> QED BY <1>6, <3>1, <3>2, <3>3
  <2>3. \A n \in DOMAIN logs' : n <= vs.next
    BY <1>2, <1>6, <1>7 DEF LogsTyped, LogsOK
  <2>4. \A i \in Kept(manifests[current]) : manifests[current].after[i].log <= vs.next
    <3> TAKE i \in Kept(manifests[current])
    <3>1. manifests[current].after[i].log \in Nat
      BY <1>2, <1>6, LastIsKept DEF State
    <3>2. manifests[current].after[i].log <= log
      BY <1>2 DEF LogsOK
    <3> QED BY <1>6, <3>1, <3>2
  <2>5. vs.log <= vs.next /\ vs.next < vs.next + 1 /\ 0 < vs.log
    BY <1>2, <1>6 DEF LogsOK
  <2> QED BY <1>1, <1>4, <1>5, <1>7, <2>1, <2>2, <2>3, <2>4, <2>5 DEF LogsOK
<1>10. \A n : n \in Nat /\ n < vs.next => n < vs.next + 1
  BY <1>6
<1>11. VersionOK'
  <2>1. \A t \in vs.version \cup reader : t \in Nat
    BY <1>2 DEF MemoryTyped
  <2>2. Below(vs.version \cup reader, vs.next + 1)
    BY <1>2, <1>10, <2>1 DEF VersionOK, Below
  <2>3. LastState.next \in Nat
    BY <1>2, <1>6, LastIsKept DEF State
  <2>4. LastState.next <= vs.next + 1
    BY <1>2, <1>6, <2>3 DEF VersionOK
  <2> QED BY <1>1, <1>2, <1>4, <1>5, <2>2, <2>4 DEF VersionOK
<1>12. OutputsOK'
  <2>1. Below(merge.outs, vs.next + 1)
    BY <1>2, <1>10 DEF OutputsOK, Below, MemoryTyped
  <2> QED BY <1>1, <1>2, <1>4, <1>5, <1>8, <2>1 DEF OutputsOK
<1>13. EditOK'
  <2>1. applying.edit.next <= vs.next => applying.edit.next <= vs.next + 1
    BY <1>2, <1>6 DEF MemoryTyped, Edit
  <2> QED BY <1>1, <1>2, <1>4, <1>5, <1>8, <2>1 DEF EditOK
<1>14. RecordOK'
  BY <1>1, <1>2, <1>4, <1>5 DEF RecordOK
<1> QED BY <1>1, <1>9, <1>11, <1>12, <1>13, <1>14, InUseOnly

\* What a new record changes: the last state is what the edit makes of the one
\* before, and no version has a table it did not have but those added.
LEMMA RecordInUse ==
    ASSUME IInv, pc = "up", applying.stage = "record", manifests' = WithRecord, UNCHANGED current
    PROVE  LET r == ApplyEdit(LastState, applying.edit) IN
           /\ LastState' = r
           /\ r.version = (LastState.version \ applying.edit.del) \cup applying.edit.add
           /\ r.log = applying.edit.log /\ r.next = applying.edit.next
           /\ \A b : InTables(tables, LastState.version, b) => InTables(tables, r.version, b)
           /\ \A i \in Kept(manifests'[current]) :
                  \/ i \in Kept(manifests[current]) /\ manifests'[current].after[i] = manifests[current].after[i]
                  \/ manifests'[current].after[i] = r
           /\ LastState.version \subseteq InUse
<1> DEFINE r == ApplyEdit(LastState, applying.edit)
           m2 == manifests'[current]
<1>1. DiskTyped /\ MemoryTyped /\ CurrentOK /\ VersionOK
  BY DEF IInv, UpOK
<1>2. current # 0 /\ vs.opened /\ vs.manifest = current
  BY <1>1 DEF VersionOK
<1>3. current \in DOMAIN manifests /\ Recovered(current) = LastState
      /\ Len(manifests[current].after) \in Kept(manifests[current])
  BY <1>1, <1>2, LastIsKept
<1>4. m2 = [after |-> Append(manifests[current].after, r), synced |-> manifests[current].synced]
  BY <1>1, <1>2, <1>3, RecordWritten DEF DiskTyped
<1>5. /\ Final(m2) = r
      /\ \A i \in Kept(m2) : (i \in Kept(manifests[current]) /\ m2.after[i] = manifests[current].after[i])
                             \/ m2.after[i] = r
  BY <1>4, RecordAdded
<1>6. LastState' = r
  BY <1>5 DEF LastState
<1>7. LastState.version \subseteq InUse
  BY <1>3 DEF InUse, LastState, Final
<1> QED BY <1>5, <1>6, <1>7, RecordIs

\* What is said of memory stays when a record is added, or not, to the MANIFEST.
LEMMA RecordLeaves ==
    ASSUME IInv, pc = "up", applying.stage = "record", manifests' = WithRecord,
           UNCHANGED <<current, tables, logs, pc, vs, log, mem, imm, reader>>,
           merge'.inputs \subseteq vs.version
    PROVE  /\ LogsOK' /\ VersionOK'
           /\ InUse' \subseteq InUse \cup applying.edit.add
           /\ vs.log <= LastState'.log
           /\ \A b : InTables(tables, vs.version, b) => InTables(tables, LastState'.version, b)
<1> DEFINE r == ApplyEdit(LastState, applying.edit)
<1>1. DiskTyped /\ MemoryTyped /\ CurrentOK /\ LogsOK /\ VersionOK /\ EditOK /\ RecordOK
  BY DEF IInv, UpOK
<1>2. /\ LastState' = r
      /\ r.version = (LastState.version \ applying.edit.del) \cup applying.edit.add
      /\ r.log = applying.edit.log /\ r.next = applying.edit.next
      /\ \A b : InTables(tables, LastState.version, b) => InTables(tables, r.version, b)
      /\ \A i \in Kept(manifests'[current]) :
             \/ i \in Kept(manifests[current]) /\ manifests'[current].after[i] = manifests[current].after[i]
             \/ manifests'[current].after[i] = r
      /\ LastState.version \subseteq InUse
  BY RecordInUse
<1> HIDE DEF r
<1>3. /\ applying.edit.next <= vs.next
      /\ applying.who = "flush" => applying.edit.log = log
      /\ applying.who = "merge" => applying.edit.log = vs.log
      /\ applying.who \in {"flush", "merge"}
  BY <1>1 DEF EditOK
<1>4. vs.log \in Nat /\ log \in Nat /\ vs.log <= log
  BY <1>1 DEF MemoryTyped, LogsOK
<1>5. vs.log <= r.log /\ r.log <= log
  BY <1>2, <1>3, <1>4
<1>6. LogsOK'
  <2>1. \A i \in Kept(manifests'[current]) : manifests'[current].after[i].log <= log
    BY <1>1, <1>2, <1>5 DEF LogsOK
  <2> QED BY <1>1, <2>1 DEF LogsOK
<1>7. VersionOK'
  BY <1>1, <1>2, <1>3 DEF VersionOK
<1>8. InUse' \subseteq InUse \cup applying.edit.add
  <2> SUFFICES ASSUME NEW t \in InUse', t \notin applying.edit.add
               PROVE  t \in InUse
    OBVIOUS
  <2>1. CASE t \in reader \cup vs.version
    BY <2>1 DEF InUse
  <2>2. CASE t \notin reader \cup vs.version
    <3>1. PICK i \in Kept(manifests'[current]) : t \in manifests'[current].after[i].version
      BY <2>2 DEF InUse
    <3>2. CASE i \in Kept(manifests[current]) /\ manifests'[current].after[i] = manifests[current].after[i]
      BY <3>1, <3>2 DEF InUse
    <3>3. CASE manifests'[current].after[i] = r
      BY <1>2, <2>2, <3>1, <3>3
    <3> QED BY <1>2, <3>1, <3>2, <3>3
  <2> QED BY <2>1, <2>2
<1>9. \A b : InTables(tables, vs.version, b) => InTables(tables, r.version, b)
  BY <1>1, <1>2 DEF RecordOK
<1> QED BY <1>2, <1>5, <1>6, <1>7, <1>8, <1>9

\* A record is written to the MANIFEST in use.
LEMMA Records == IInv /\ pc = "up" /\ ApplyRecord => Process'
<1> SUFFICES ASSUME IInv, pc = "up", ApplyRecord
             PROVE  Process'
  OBVIOUS
<1>1. DiskTyped /\ MemoryTyped /\ CurrentOK /\ VersionOK /\ OutputsOK /\ EditOK /\ RecordOK
  BY DEF IInv, UpOK
<1>2. /\ applying.stage = "record" /\ manifests' = WithRecord
      /\ applying'.stage = "sync" /\ applying'.who = applying.who /\ applying'.edit = applying.edit
      /\ UNCHANGED <<current, tables, logs, pc, vs, log, mem, imm, flush, merge, failed, reader>>
  BY <1>1 DEF ApplyRecord, MemoryTyped
<1>3. /\ LastState'.version = (LastState.version \ applying.edit.del) \cup applying.edit.add
      /\ LastState'.log = applying.edit.log
  BY <1>2, RecordInUse
<1>4. /\ LogsOK' /\ VersionOK' /\ InUse' \subseteq InUse \cup applying.edit.add
      /\ vs.log <= LastState'.log
      /\ \A b : InTables(tables, vs.version, b) => InTables(tables, LastState'.version, b)
  <2>1. merge'.inputs \subseteq vs.version
    BY <1>1, <1>2 DEF VersionOK
  <2> QED BY <1>2, <2>1, RecordLeaves
<1>5. /\ applying.who = "flush" => applying.edit.add = {flush}
      /\ applying.who = "merge" => flush = 0
      /\ applying.who \in {"flush", "merge"}
  BY <1>1, <1>2 DEF EditOK
<1>6. OutputsOK'
  <2>1. applying.who # "merge" => merge.outs \cap InUse' = {}
    BY <1>1, <1>4, <1>5 DEF OutputsOK
  <2> QED BY <1>1, <1>2, <1>5, <2>1 DEF OutputsOK
<1>7. EditOK'
  BY <1>1, <1>2 DEF EditOK
<1>8. RecordOK'
  BY <1>1, <1>2, <1>3, <1>4 DEF RecordOK
<1> QED BY <1>2, <1>4, <1>6, <1>7, <1>8, InUseOnly

\* It is synced.
LEMMA Syncs == IInv /\ pc = "up" /\ ApplySync => Process'
<1> SUFFICES ASSUME IInv, pc = "up", ApplySync
             PROVE  Process'
  OBVIOUS
<1>1. DiskTyped /\ MemoryTyped /\ CurrentOK /\ LogsOK /\ VersionOK /\ OutputsOK /\ EditOK /\ RecordOK /\ ManifestsTyped
  BY DEF IInv, UpOK, DiskTyped
<1>2. current # 0 /\ vs.manifest = current /\ vs.opened /\ current \in DOMAIN manifests
      /\ Len(manifests[current].after) \in Kept(manifests[current])
  BY <1>1, LastIsKept DEF VersionOK
<1> DEFINE m == manifests[current]
<1>3. /\ applying.stage = "sync" /\ manifests' = [manifests EXCEPT ![current].synced = Len(m.after)]
      /\ applying'.stage = "install" /\ applying'.who = applying.who /\ applying'.edit = applying.edit
      /\ UNCHANGED <<current, tables, logs, pc, vs, log, mem, imm, flush, merge, failed, reader>>
  BY <1>1, <1>2 DEF ApplySync, MemoryTyped
<1>4. m \in [after : Seq(State), synced : Nat] /\ m.synced <= Len(m.after)
  BY <1>1, <1>2 DEF ManifestsTyped
<1>5. manifests'[current] = [m EXCEPT !.synced = Len(m.after)]
  BY <1>2, <1>3
<1> HIDE DEF m
<1>6. manifests'[current].after = m.after /\ manifests'[current].synced = Len(m.after) /\ Len(m.after) \in Nat
  BY <1>4, <1>5
<1>7. Kept(manifests'[current]) \subseteq Kept(m)
  BY <1>4, <1>6 DEF Kept
<1>8. LastState' = LastState
  BY <1>3, <1>6 DEF LastState, Final, m
<1>9. InUse' \subseteq InUse
  BY <1>3, <1>6, <1>7 DEF InUse, m
<1>10. LogsOK'
  <2>1. \A i \in Kept(manifests'[current]) : manifests'[current].after[i].log <= log
    BY <1>1, <1>6, <1>7 DEF LogsOK, m
  <2> QED BY <1>1, <1>3, <2>1 DEF LogsOK
<1>11. VersionOK'
  BY <1>1, <1>3, <1>8 DEF VersionOK
<1>12. OutputsOK'
  BY <1>1, <1>3, <1>9 DEF OutputsOK
<1>13. EditOK'
  BY <1>1, <1>3 DEF EditOK
<1>14. RecordOK'
  BY <1>1, <1>3, <1>6, <1>8 DEF RecordOK
<1> QED BY <1>3, <1>10, <1>11, <1>12, <1>13, <1>14, InUseOnly

\* A write to the MANIFEST fails, and may leave a whole record there.
LEMMA Fails == IInv /\ ApplyError => Process'
<1> SUFFICES ASSUME IInv, ApplyError
             PROVE  Process'
  OBVIOUS
<1>1. CASE applying.who = "open"
  BY <1>1, Stops DEF ApplyError
<1>2. CASE applying.who # "open"
  <2>1. /\ applying.stage \in {"record", "sync", "current"}
        /\ UNCHANGED manifests \/ (applying.stage = "record" /\ manifests' = WithRecord)
        /\ failed' = TRUE /\ applying' = NoApply
        /\ flush' = IF applying.who = "flush" THEN 0 ELSE flush
        /\ merge' = IF applying.who = "merge" THEN NoMerge ELSE merge
        /\ UNCHANGED <<current, tables, logs, pc, vs, log, mem, imm, reader>>
    BY <1>2 DEF ApplyError
  <2>2. pc = "up"
    BY <1>2, <2>1, WhereItIs DEF IInv, Writing
  <2>3. DiskTyped /\ MemoryTyped /\ CurrentOK /\ LogsOK /\ VersionOK /\ OutputsOK /\ EditOK /\ RecordOK
    BY <2>2 DEF IInv, UpOK
  <2>4. /\ applying.who = "flush" => applying.edit.add = {flush} /\ flush # 0
        /\ applying.who = "merge" => flush = 0 /\ applying.edit.add = merge.outs
        /\ applying.who \in {"flush", "merge"}
    BY <2>1, <2>3 DEF EditOK
  <2>5. NoMerge.inputs = {} /\ NoMerge.outs = {} /\ NoApply.stage = "none" /\ NoApply.who = "none"
    BY DEF NoMerge, NoApply
  <2>6. merge'.inputs \subseteq vs.version
    BY <2>1, <2>3, <2>5 DEF VersionOK
  <2>7. /\ LogsOK' /\ VersionOK' /\ InUse' \subseteq InUse \cup applying.edit.add
        /\ vs.log <= LastState'.log
        /\ \A b : InTables(tables, vs.version, b) => InTables(tables, LastState'.version, b)
    <3>1. CASE UNCHANGED manifests
      <4>1. LastState' = LastState /\ InUse' = InUse /\ Kept(manifests[current])' = Kept(manifests[current])
        BY <2>1, <3>1 DEF LastState, Final, InUse, Kept
      <4>2. LogsOK'
        BY <2>1, <2>3, <3>1, <4>1 DEF LogsOK
      <4>3. VersionOK'
        BY <2>1, <2>3, <2>6, <4>1 DEF VersionOK
      <4> QED BY <2>3, <4>1, <4>2, <4>3 DEF RecordOK
    <3>2. CASE applying.stage = "record" /\ manifests' = WithRecord
      BY <2>1, <2>2, <2>6, <3>2, RecordLeaves
    <3> QED BY <2>1, <3>1, <3>2
  <2>8. OutputsOK'
    <3>1. CASE applying.who = "merge"
      <4>1. merge' = NoMerge /\ flush' = 0
        BY <2>1, <2>4, <3>1
      <4> QED BY <2>5, <4>1 DEF OutputsOK, Below
    <3>2. CASE applying.who = "flush"
      <4>1. merge' = merge /\ flush' = 0 /\ flush \notin merge.outs /\ 0 \notin merge.outs
            /\ merge.outs \subseteq DOMAIN tables /\ Below(merge.outs, vs.next) /\ merge.outs \cap InUse = {}
        BY <2>1, <2>3, <2>4, <3>2 DEF OutputsOK
      <4>2. merge.outs \cap InUse' = {}
        BY <2>4, <2>7, <3>2, <4>1
      <4> QED BY <2>1, <4>1, <4>2 DEF OutputsOK
    <3> QED BY <2>4, <3>1, <3>2
  <2>9. EditOK'
    BY <2>1 DEF EditOK, NoApply
  <2>10. RecordOK'
    BY <2>1, <2>5, <2>7 DEF RecordOK
  <2> QED BY <2>1, <2>2, <2>7, <2>8, <2>9, <2>10, InUseOnly
<1> QED BY <1>1, <1>2

-----------------------------------------------------------------------------
(* The inductive invariant. *)

\* It holds before there is a database.
LEMMA InitOK == Init => IInv
<1> SUFFICES ASSUME Init
             PROVE  IInv
  OBVIOUS
<1> USE DEF Init
<1>1. DiskTyped
  BY DEF DiskTyped, ManifestsTyped, TablesTyped, LogsTyped, GhostsTyped, NoFiles
<1>2. MemoryTyped
  BY NothingTyped DEF MemoryTyped, NoVersionSet
<1>3. CurrentOK
  BY DEF CurrentOK
<1>4. DownOK
  BY DEF DownOK
<1> QED BY <1>1, <1>2, <1>3, <1>4 DEF IInv, Replaying, Writing, OpeningOK, UpOK

\* Every step keeps what is said of the process.
LEMMA ProcessKept == IInv /\ [Next]_vars => Process'
<1> SUFFICES ASSUME IInv, [Next]_vars
             PROVE  Process'
  OBVIOUS
<1>1. CASE UNCHANGED vars
  BY <1>1 DEF vars, disk, memory, ghosts, IInv, Process, DownOK, Replaying, Writing, OpeningOK, UpOK,
              LogsOK, VersionOK, OutputsOK, EditOK, RecordOK, LastState, InUse, Snapshot
<1>2. CASE Open
  BY <1>2, Creates, Recovers, Replays, StartsLog DEF Open
<1>3. CASE LogAndApply
  <2>1. CASE ApplyError
    BY <2>1, Fails
  <2>2. CASE ApplyRecord \/ ApplySync \/ SetCurrentFile \/ Install
    <3>1. pc \in {"apply", "up"}
      BY <2>2, WhereItIs DEF ApplyRecord, ApplySync, SetCurrentFile, Install
    <3>2. pc = "up" => ~SetCurrentFile
      BY WhereItIs DEF SetCurrentFile
    <3> QED BY <2>2, <3>1, <3>2, WritesManifest, Opened, Records, Syncs, Replaced
  <2> QED BY <1>3, <2>1, <2>2 DEF LogAndApply
<1>4. CASE Background
  BY <1>4, TableBegins, FlushEnds, MergeBegins, MergeEnds DEF Background
<1>5. CASE Write \/ SwitchMemTable \/ Read
  BY <1>5, Writes, Switches, Reads
<1>6. CASE Crash \/ CrashInDelete
  BY <1>6, Stops DEF Crash, CrashInDelete
<1> QED BY <1>1, <1>2, <1>3, <1>4, <1>5, <1>6 DEF Next

\* Every step keeps the invariant.
LEMMA StepOK == ~CrashInNewDB /\ IInv /\ [Next]_vars => IInv'
<1> SUFFICES ASSUME ~CrashInNewDB, IInv, [Next]_vars
             PROVE  IInv'
  OBVIOUS
<1>1. DiskTyped'
  BY ManifestsTypedKept, TablesTypedKept, LogsTypedKept, GhostsTypedKept DEF DiskTyped
<1>2. MemoryTyped' /\ CurrentOK' /\ Process'
  BY MemoryTypedKept, CurrentOKKept, ProcessKept
<1> QED BY <1>1, <1>2 DEF IInv, Process

\* What is promised is found by opening the database.
LEMMA FoundAgain == IInv => Opens /\ NothingLost
<1> SUFFICES ASSUME IInv
             PROVE  Opens /\ NothingLost
  OBVIOUS
<1>1. DiskTyped /\ CurrentOK /\ LogsTyped
  BY DEF IInv, DiskTyped
<1>2. CASE current = 0
  BY <1>1, <1>2 DEF CurrentOK, Opens, NothingLost
<1>3. CASE current # 0
  <2>1. /\ current \in DOMAIN manifests /\ LastState \in State /\ Recovered(current) = LastState
        /\ Good(LastState, current, tables, logs, durable)
    BY <1>1, <1>3, LastIsKept
  <2>2. \A b \in promised : Finds(LastState, tables, logs, b)
    BY <1>1, <1>3 DEF CurrentOK, ManifestOK, LastState
  <2>3. Opens
    <3>1. current \in Nat /\ LastState.next \in Nat /\ current < LastState.next
      BY <1>1, <2>1 DEF DiskTyped, GhostsTyped, State, Good
    <3>2. LastState.next # 0
      BY <3>1
    <3> QED BY <2>1, <3>2 DEF Opens, Readable, Good, WholeIn
  <2>4. ASSUME NEW b \in promised
        PROVE  b \in OnDisk
    <3> DEFINE inTables == UNION {tables[t].has : t \in Recovered(current).version}
               inLogs == UNION {SetOf(logs[k].has) : k \in LogsToReplay(current)}
    <3>1. OnDisk = inTables \cup inLogs
      BY <1>3 DEF OnDisk
    <3>2. CASE InTables(tables, LastState.version, b)
      <4>1. b \in inTables
        BY <2>1, <3>2 DEF InTables
      <4> HIDE DEF inTables, inLogs
      <4> QED BY <3>1, <4>1
    <3>3. ASSUME NEW n \in DOMAIN logs, n >= LastState.log, InLog(logs[n], b)
          PROVE  b \in OnDisk
      <4>1. n \in LogsToReplay(current)
        BY <2>1, <3>3 DEF LogsToReplay
      <4>2. b \in SetOf(logs[n].has)
        BY <1>1, <3>3, SetOfLog
      <4>3. b \in inLogs
        BY <4>1, <4>2
      <4> HIDE DEF inTables, inLogs
      <4> QED BY <3>1, <4>3
    <3> QED BY <2>2, <3>2, <3>3 DEF Finds
  <2> QED BY <2>3, <2>4 DEF NothingLost
<1> QED BY <1>2, <1>3

\* The invariant has the properties.
LEMMA InvHolds == IInv => RecoveryHolds
<1> SUFFICES ASSUME IInv
             PROVE  RecoveryHolds
  OBVIOUS
<1>1. DiskTyped /\ MemoryTyped
  BY DEF IInv
<1>2. TypeOK
  <2>1. \A n \in DOMAIN logs : logs[n].synced \in 0..Len(logs[n].has)
    <3> SUFFICES ASSUME NEW n \in DOMAIN logs
                 PROVE  logs[n].synced \in 0..Len(logs[n].has)
      OBVIOUS
    <3>1. logs[n].has \in Seq(1..written) /\ logs[n].synced \in Nat /\ logs[n].synced <= Len(logs[n].has)
      BY <1>1 DEF DiskTyped, LogsTyped
    <3> QED BY <3>1
  <2>2. \A m \in DOMAIN manifests : manifests[m].synced \in 0..Len(manifests[m].after)
    <3> SUFFICES ASSUME NEW m \in DOMAIN manifests
                 PROVE  manifests[m].synced \in 0..Len(manifests[m].after)
      OBVIOUS
    <3>1. manifests[m].after \in Seq(State) /\ manifests[m].synced \in Nat
          /\ manifests[m].synced <= Len(manifests[m].after)
      BY <1>1 DEF DiskTyped, ManifestsTyped
    <3> QED BY <3>1
  <2>3. \A t \in DOMAIN tables : tables[t].has \subseteq 1..written
    BY <1>1 DEF DiskTyped, TablesTyped
  <2>4. pc = "up" => log \in DOMAIN logs /\ vs.opened
    BY DEF IInv, UpOK, LogsOK, VersionOK
  <2> QED BY <1>1, <2>1, <2>2, <2>3, <2>4 DEF TypeOK, MemoryTyped, DiskTyped, GhostsTyped
<1>3. LiveTablesExist
  <2>1. CASE pc \in {"down", "created", "recover"}
    BY <2>1 DEF IInv, DownOK, NoVersionSet, NoMerge, LiveTablesExist
  <2>2. CASE pc \in {"replay", "apply"}
    BY <2>2 DEF IInv, OpeningOK, WholeIn, NoMerge, LiveTablesExist
  <2>3. CASE pc = "up"
    BY <2>3 DEF IInv, UpOK, VersionOK, WholeIn, LiveTablesExist
  <2> QED BY <1>1, <2>1, <2>2, <2>3 DEF MemoryTyped
<1> QED BY <1>2, <1>3, FoundAgain DEF RecoveryHolds

\* Whatever crashes, and whichever writes to the MANIFEST fail, the database can
\* be opened with every batch that was promised, and every table that a reader,
\* the version or a compaction may open is there.  The one crash left out is
\* that of the machine while CURRENT names NewDB's MANIFEST, which is not synced
\* (db_impl.cc:196).
THEOREM RecoveryAlwaysHolds == ASSUME ~CrashInNewDB PROVE Spec => []RecoveryHolds
<1>1. IInv /\ [Next]_vars => IInv'
  BY StepOK
<1> QED BY <1>1, InitOK, InvHolds, PTL DEF Spec

\* The parts of it: what the directory holds is well formed.
THEOREM FilesTyped == ASSUME ~CrashInNewDB PROVE Spec => []TypeOK
<1>1. RecoveryHolds => TypeOK
  BY DEF RecoveryHolds
<1> QED BY <1>1, RecoveryAlwaysHolds, PTL

-----------------------------------------------------------------------------
(* Nothing in use is written over. *)

\* A process goes on.
GoesOn == ~Crash /\ ~CrashInDelete /\ ~(ApplyError /\ applying.who = "open")

\* A table that a version or recovery needs stays as it is while the process
\* goes on.
Needed == vs.version \cup reader \cup merge.inputs \cup Recovered(current).version

\* Each new number is above those of the tables needed.
LEMMA TablesStay ==
    ASSUME IInv, [Next]_vars, GoesOn, NEW t \in DOMAIN tables \cap DOMAIN tables', t \in Needed
    PROVE  tables'[t] = tables[t]
<1>1. DiskTyped /\ MemoryTyped /\ CurrentOK
  BY DEF IInv
<1>2. CASE UNCHANGED tables
  BY <1>2
<1>3. ASSUME pc \in {"replay", "up"}
      PROVE  t \notin {vs.next}
  <2>1. current # 0 /\ LastState.next <= vs.next /\ vs.next \in Nat
    BY <1>1, <1>3 DEF IInv, OpeningOK, UpOK, VersionOK, MemoryTyped
  <2>2. Recovered(current) = LastState /\ LastState \in State /\ Below(LastState.version, LastState.next)
    BY <1>1, <2>1, LastIsKept DEF LastState, Final
  <2>3. \A u \in LastState.version : u < vs.next
    BY <2>1, <2>2 DEF State, Below
  <2>4. \A u \in vs.version \cup reader \cup merge.inputs : u < vs.next
    BY <1>3 DEF IInv, OpeningOK, UpOK, VersionOK, NoMerge, Below
  <2>5. ~(vs.next < vs.next)
    BY <2>1
  <2>6. \A u \in Needed : u < vs.next
    BY <2>2, <2>3, <2>4 DEF Needed
  <2> QED BY <2>5, <2>6
<1>4. pc = "up" => Needed \subseteq InUse
  <2> SUFFICES ASSUME pc = "up"
               PROVE  Needed \subseteq InUse
    OBVIOUS
  <2>1. current # 0 /\ merge.inputs \subseteq vs.version
    BY DEF IInv, UpOK, VersionOK
  <2>2. Recovered(current) = LastState /\ LastState.version \subseteq InUse
    BY <1>1, <2>1, LastIsKept DEF InUse, LastState, Final
  <2> QED BY <2>1, <2>2 DEF InUse, Needed
<1>5. CASE RecoverLogFile \/ FlushBegin \/ OpenCompactionOutputFile
  <2>1. tables' = tables \/ \E v : tables' = With(tables, vs.next, v)
    BY <1>5 DEF RecoverLogFile, FlushBegin, OpenCompactionOutputFile
  <2>2. pc \in {"replay", "up"}
    BY <1>5 DEF RecoverLogFile, FlushBegin, OpenCompactionOutputFile, Up
  <2> QED BY <1>3, <2>1, <2>2 DEF With
<1>6. CASE FlushEnd
  <2>1. flush # 0 /\ applying = NoApply /\ \E v : tables' = [tables EXCEPT ![flush] = v]
    BY <1>6 DEF FlushEnd
  <2>2. pc = "up"
    BY <2>1, WhereItIs
  <2>3. flush \notin InUse
    BY <2>1, <2>2 DEF IInv, UpOK, OutputsOK, NoApply
  <2>4. t # flush
    BY <1>4, <2>2, <2>3
  <2> QED BY <2>1, <2>4
<1>7. CASE InstallCompactionResults
  <2>1. merge.outs # {} /\ applying = NoApply
        /\ \E v : tables' = [u \in DOMAIN tables |-> IF u \in merge.outs THEN v ELSE tables[u]]
    BY <1>7 DEF InstallCompactionResults
  <2>2. pc = "up"
    BY <2>1, WhereItIs
  <2>3. merge.outs \cap InUse = {}
    BY <2>1, <2>2 DEF IInv, UpOK, OutputsOK, NoApply
  <2>4. t \notin merge.outs
    BY <1>4, <2>2, <2>3
  <2> QED BY <2>1, <2>4
<1>8. CASE Install
  <2>1. tables' = tables \/ \E S : tables' = Without(tables, S)
    BY <1>8 DEF Install, DeleteObsoleteFiles
  <2> QED BY <2>1 DEF Without
<1>9. CASE NewDB \/ NewDBCurrent \/ Recover \/ NewLog \/ ApplyRecord \/ ApplySync \/ SetCurrentFile
  BY <1>2, <1>9 DEF NewDB, NewDBCurrent, Recover, NewLog, ApplyRecord, ApplySync, SetCurrentFile, disk
<1>10. CASE ApplyError \/ MergeBegin \/ Write \/ SwitchMemTable \/ Read \/ UNCHANGED vars
  BY <1>2, <1>10 DEF ApplyError, MergeBegin, Write, SwitchMemTable, Read, vars, disk
<1> QED BY <1>5, <1>6, <1>7, <1>8, <1>9, <1>10 DEF Next, Open, LogAndApply, Background, GoesOn

\* A log that is not the current one stays as it is.
LEMMA LogsStay ==
    ASSUME IInv, [Next]_vars, GoesOn, NEW n \in DOMAIN logs \cap DOMAIN logs', n # log
    PROVE  logs'[n] = logs[n]
<1>1. CASE UNCHANGED logs
  BY <1>1
<1>2. CASE NewLog \/ SwitchMemTable
  <2>1. \E g : logs' = With(logs, vs.next, g)
    BY <1>2 DEF NewLog, SwitchMemTable
  <2>2. n # vs.next
    <3>1. CASE NewLog
      <4>1. pc = "replay" /\ replay.logs = {}
        BY <3>1 DEF NewLog
      <4>2. n < vs.next /\ vs.next \in Nat
        BY <4>1 DEF IInv, Replaying, MemoryTyped
      <4> QED BY <4>2
    <3>2. CASE SwitchMemTable
      <4>1. pc = "up"
        BY <3>2 DEF SwitchMemTable, Up
      <4> QED BY <4>1, NewNumber
    <3> QED BY <1>2, <3>1, <3>2
  <2> QED BY <2>1, <2>2 DEF With
<1>3. CASE Write
  <2>1. \E g : logs' = [logs EXCEPT ![log] = g]
    BY <1>3 DEF Write
  <2> QED BY <2>1
<1>4. CASE Install
  <2>1. logs' = logs \/ \E S : logs' = Without(logs, S)
    BY <1>4 DEF Install, DeleteObsoleteFiles
  <2> QED BY <2>1 DEF Without
<1>5. CASE NewDB \/ NewDBCurrent \/ Recover \/ RecoverLogFile \/ ApplyRecord \/ ApplySync \/ SetCurrentFile
  BY <1>1, <1>5 DEF NewDB, NewDBCurrent, Recover, RecoverLogFile, ApplyRecord, ApplySync, SetCurrentFile, disk
<1>6. CASE ApplyError \/ Background \/ Read \/ UNCHANGED vars
  BY <1>1, <1>6 DEF ApplyError, Background, FlushBegin, FlushEnd, MergeBegin, OpenCompactionOutputFile,
                    InstallCompactionResults, Read, vars, disk
<1> QED BY <1>2, <1>3, <1>4, <1>5, <1>6 DEF Next, Open, LogAndApply, GoesOn

\* IsPrefix, spelt out.
Grows(s, t) == Len(s) <= Len(t) /\ SubSeq(s, 1, Len(s)) = SubSeq(t, 1, Len(s))

\* A sequence is a prefix of itself, and of itself with one more.
LEMMA GrownSeq ==
    ASSUME NEW S, NEW s \in Seq(S), NEW r \in S
    PROVE  Grows(s, s) /\ Grows(s, Append(s, r))
<1> DEFINE t == Append(s, r)
<1>1. Len(s) \in Nat /\ Len(t) = Len(s) + 1 /\ t \in Seq(S)
  OBVIOUS
<1>2. SubSeq(s, 1, Len(s)) = s /\ SubSeq(t, 1, Len(s)) = s
  OBVIOUS
<1> HIDE DEF t
<1>3. Len(s) <= Len(s) /\ Len(s) <= Len(t)
  BY <1>1
<1>4. Grows(s, s)
  BY <1>2, <1>3 DEF Grows
<1>5. Grows(s, t)
  BY <1>2, <1>3 DEF Grows
<1> QED BY <1>4, <1>5 DEF t

\* The MANIFEST that CURRENT names only grows.
LEMMA CurrentGrows ==
    ASSUME IInv, [Next]_vars, GoesOn, current \in DOMAIN manifests \cap DOMAIN manifests'
    PROVE  Grows(manifests[current].after, manifests'[current].after)
<1>1. DiskTyped /\ MemoryTyped /\ CurrentOK /\ ManifestsTyped
  BY DEF IInv, DiskTyped
<1> DEFINE s == manifests[current].after
<1>2. s \in Seq(State)
  BY <1>1 DEF ManifestsTyped
<1>3. ASSUME manifests'[current].after = s
      PROVE  Grows(s, manifests'[current].after)
  <2>1. Nothing \in State
    BY DEF Nothing, State
  <2> DEFINE a == manifests'[current].after
  <2>2. a = s
    BY <1>3
  <2> HIDE DEF s, a
  <2>3. Grows(s, s)
    BY <1>2, <2>1, GrownSeq
  <2>4. Grows(s, a)
    BY <2>2, <2>3
  <2> QED BY <2>4 DEF a
<1>4. CASE UNCHANGED manifests
  BY <1>3, <1>4
<1>5. CASE manifests' = WithRecord /\ applying.stage = "record"
  <2>1. /\ \A m \in DOMAIN manifests : m # vs.manifest => WithRecord[m] = manifests[m]
        /\ vs.opened => WithRecord[vs.manifest] =
               [after |-> Append(manifests[vs.manifest].after,
                                 ApplyEdit(Recovered(vs.manifest), applying.edit)),
                synced |-> manifests[vs.manifest].synced]
    BY <1>1, OpenedIsUp, RecordWritten DEF DiskTyped
  <2>2. CASE current # vs.manifest
    BY <1>3, <1>5, <2>1, <2>2
  <2>3. CASE current = vs.manifest
    <3>1. pc \in {"apply", "up"}
      BY <1>5, WhereItIs
    <3>2. pc # "apply"
      <4>1. pc = "apply" => current < vs.manifest
        BY <1>5 DEF IInv, OpeningOK
      <4> QED BY <1>1, <2>3, <4>1 DEF MemoryTyped
    <3>3. vs.opened
      BY <3>1, <3>2 DEF IInv, UpOK, VersionOK
    <3> DEFINE r == ApplyEdit(Recovered(current), applying.edit)
    <3>4. r \in State
      BY <1>1, RecoveredIs, EditApplied DEF MemoryTyped
    <3>5. manifests'[current].after = Append(s, r)
      BY <1>5, <2>1, <2>3, <3>3
    <3> HIDE DEF s, r
    <3>7. Grows(s, Append(s, r))
      BY <1>2, <3>4, GrownSeq
    <3>6. Grows(s, manifests'[current].after)
      BY <3>5, <3>7
    <3> QED BY <3>6 DEF s
  <2> QED BY <2>2, <2>3
<1>6. CASE NewDB
  <2>1. current = 0 /\ \E m : manifests' = With(manifests, 1, m)
    BY <1>6 DEF NewDB
  <2>2. manifests'[current] = manifests[current]
    BY <2>1 DEF With
  <2> QED BY <1>3, <2>2
<1>7. CASE ApplySync
  <2>1. \E k : manifests' = [manifests EXCEPT ![vs.manifest].synced = k]
    BY <1>7 DEF ApplySync
  <2>2. manifests[current] \in [after : Seq(State), synced : Nat]
    BY <1>1 DEF ManifestsTyped
  <2>3. manifests'[current].after = s
    <3> DEFINE m == manifests[current]
    <3>1. PICK k : manifests'[current] = m \/ manifests'[current] = [m EXCEPT !.synced = k]
      BY <2>1
    <3>2. m.after = s /\ m \in [after : Seq(State), synced : Nat]
      BY <2>2
    <3> HIDE DEF m, s
    <3> QED BY <3>1, <3>2
  <2> QED BY <1>3, <2>3
<1>8. CASE Install
  <2>1. manifests' = manifests \/ \E S : manifests' = Without(manifests, S)
    BY <1>8 DEF Install, DeleteObsoleteFiles
  <2>2. manifests'[current] = manifests[current]
    BY <2>1 DEF Without
  <2> QED BY <1>3, <2>2
<1>9. CASE ApplyRecord \/ SetCurrentFile
  BY <1>4, <1>5, <1>9 DEF ApplyRecord, SetCurrentFile
<1>10. CASE ApplyError
  BY <1>4, <1>5, <1>10 DEF ApplyError, GoesOn
<1>11. CASE NewDBCurrent \/ Recover \/ RecoverLogFile \/ NewLog
  BY <1>4, <1>11 DEF NewDBCurrent, Recover, RecoverLogFile, NewLog, disk
<1>12. CASE Background \/ Write \/ SwitchMemTable \/ Read \/ UNCHANGED vars
  BY <1>4, <1>12 DEF Background, FlushBegin, FlushEnd, MergeBegin, OpenCompactionOutputFile,
                     InstallCompactionResults, Write, SwitchMemTable, Read, vars, disk
<1> QED BY <1>6, <1>7, <1>8, <1>9, <1>10, <1>11, <1>12 DEF Next, Open, LogAndApply, GoesOn

\* No step writes over a file that is needed.
LEMMA StepKeepsFiles == IInv /\ [Next]_vars => ~Overwrites
<1> SUFFICES ASSUME IInv, [Next]_vars, crashes' = crashes
             PROVE  ~Overwrites
  BY DEF Overwrites
<1>1. crashes \in Nat
  BY DEF IInv, DiskTyped, GhostsTyped
<1>2. GoesOn
  BY <1>1 DEF GoesOn, Crash, CrashInDelete, ApplyError
<1>3. \A t \in DOMAIN tables \cap DOMAIN tables' :
          t \in vs.version \cup reader \cup merge.inputs \cup Recovered(current).version => tables'[t] = tables[t]
  BY <1>2, TablesStay DEF Needed
<1>4. \A n \in DOMAIN logs \cap DOMAIN logs' : n # log => logs'[n] = logs[n]
  BY <1>2, LogsStay
<1>5. \A m \in DOMAIN manifests \cap DOMAIN manifests' :
          m = current => Grows(manifests[m].after, manifests'[m].after)
  BY <1>2, CurrentGrows
<1> QED BY <1>3, <1>4, <1>5 DEF Overwrites, Grows, IsPrefix

\* No file that some version, a reader or recovery needs is ever written over,
\* though a crash forgets the numbers that were taken and not yet recorded.
THEOREM NothingIsOverwritten == ASSUME ~CrashInNewDB PROVE Spec => NothingOverwritten
<1>1. IInv /\ [Next]_vars => IInv'
  BY StepOK
<1>2. IInv /\ [Next]_vars => ~Overwrites
  BY StepKeepsFiles
<1> QED BY <1>1, <1>2, InitOK, PTL DEF Spec, NothingOverwritten
=============================================================================
