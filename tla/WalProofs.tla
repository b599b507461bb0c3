----------------------------- MODULE WalProofs -----------------------------
(* Theorems about Wal, for every set of operations, every prefix-closed    *)
(* set of legal histories and any number of faults.                        *)
EXTENDS Wal, TLAPS

-----------------------------------------------------------------------------
(* The inductive invariant *)

\* What was synced is a prefix of what a reader sees.
SyncedFirst ==
  /\ Len(synced.entries) <= Len(disk.entries)
  /\ \A i \in 1 .. Len(synced.entries) : synced.entries[i] = disk.entries[i]

\* An acknowledged operation has been synced at its place.
AckedSynced ==
  \A a \in acked : a.at <= Len(synced.entries) /\ synced.entries[a.at] = a.op

\* The entry being logged is the last one of the log, and synced before the answer.
InProgress ==
  /\ pc \in {"sync", "reply"} =>
       Len(disk.entries) > 0 /\ disk.entries[Len(disk.entries)] = op /\ writer = "open"
  /\ pc = "reply" => synced = disk

\* The log of an open writer is the history of the book, up to the operation
\* that is about to be written.
LogIsHistory ==
  /\ bk \in Legal /\ disk.entries \in Legal
  /\ writer = "open" =>
       bk = IF pc = "write" THEN Append(disk.entries, op) ELSE disk.entries

\* Kills alone leave only complete lines.
Unharmed ==
  gentle => ~disk.torn /\ disk.ended = 1 .. Len(disk.entries) /\ writer # "broken"

IInv == TypeOK /\ SyncedFirst /\ AckedSynced /\ InProgress /\ LogIsHistory /\ Unharmed

-----------------------------------------------------------------------------
(* Logs *)

LEMMA AppendedLog ==
  ASSUME NEW d \in Logs, NEW o \in Ops
  PROVE  /\ Appended(d, o) \in Logs /\ Unended(d, o) \in Logs /\ Torn(d) \in Logs
         /\ Appended(d, o).entries = Append(d.entries, o)
         /\ Unended(d, o).entries = Append(d.entries, o)
         /\ Torn(d).entries = d.entries
         /\ Appended(d, o).torn = d.torn
         /\ Appended(d, o).ended = d.ended \cup {Len(d.entries) + 1}
<1>1. /\ d.entries \in Seq(Ops) /\ d.ended \subseteq Nat /\ d.torn \in BOOLEAN
      /\ d = [entries |-> d.entries, ended |-> d.ended, torn |-> d.torn]
  BY DEF Logs
<1>2. Append(d.entries, o) \in Seq(Ops) /\ Len(d.entries) + 1 \in Nat
  BY <1>1
<1>3. Appended(d, o) \in Logs
  BY <1>1, <1>2 DEF Appended, Logs
<1>4. Unended(d, o) \in Logs /\ Unended(d, o).entries = Append(d.entries, o)
  BY <1>1, <1>2 DEF Unended, Logs
<1>5. Torn(d) \in Logs /\ Torn(d).entries = d.entries
  BY <1>1 DEF Torn, Logs
<1>6. QED
  BY <1>3, <1>4, <1>5 DEF Appended

\* Whatever a power loss leaves has the synced entries and is a prefix.
LEMMA RemainingLog ==
  ASSUME NEW d \in Logs, NEW s \in Logs, Len(s.entries) <= Len(d.entries),
         NEW r \in Remains(d, s)
  PROVE  /\ r \in Logs
         /\ \E k \in Len(s.entries) .. Len(d.entries) : r.entries = SubSeq(d.entries, 1, k)
<1>1. ASSUME NEW k \in Len(s.entries) .. Len(d.entries)
      PROVE  Cut(d, k) \in Logs /\ Cut(d, k).entries = SubSeq(d.entries, 1, k)
  BY DEF Cut, Logs
<1>2. ASSUME NEW c \in Logs
      PROVE  /\ Torn(c) \in Logs /\ Torn(c).entries = c.entries
             /\ [c EXCEPT !.ended = @ \ {Len(c.entries)}] \in Logs
             /\ [c EXCEPT !.ended = @ \ {Len(c.entries)}].entries = c.entries
  BY DEF Torn, Logs
<1>3. CASE r = d
  <2>1. d.entries = SubSeq(d.entries, 1, Len(d.entries))
    BY DEF Logs
  <2>2. Len(d.entries) \in Len(s.entries) .. Len(d.entries)
    BY DEF Logs
  <2>3. QED
    BY <1>3, <2>1, <2>2
<1>4. ASSUME NEW k \in Len(s.entries) .. Len(d.entries),
             \/ r = Cut(d, k) \/ r = Torn(Cut(d, k))
             \/ r = [Cut(d, k) EXCEPT !.ended = @ \ {Len(Cut(d, k).entries)}]
      PROVE  r \in Logs /\ r.entries = SubSeq(d.entries, 1, k)
  BY <1>1, <1>2, <1>4
<1>5. r = d \/ \E k \in Len(s.entries) .. Len(d.entries) :
        \/ r = Cut(d, k) \/ r = Torn(Cut(d, k))
        \/ r = [Cut(d, k) EXCEPT !.ended = @ \ {Len(Cut(d, k).entries)}]
  BY DEF Remains, Logs
<1>6. QED
  BY <1>3, <1>4, <1>5

-----------------------------------------------------------------------------
LEMMA InvInit == Init => IInv
<1> SUFFICES ASSUME Init PROVE IInv
  OBVIOUS
<1>1. EmptyLog \in Logs
  BY DEF EmptyLog, Logs
<1>2. TypeOK
  <2>1. faults \in Nat /\ bk \in Seq(Ops) /\ acked \subseteq [at : Nat \ {0}, op : Ops]
    BY DEF Init
  <2>2. disk \in Logs /\ synced \in Logs
    BY <1>1 DEF Init
  <2>3. QED
    BY <2>1, <2>2 DEF Init, TypeOK
<1>3. SyncedFirst /\ AckedSynced /\ InProgress
  BY DEF Init, SyncedFirst, AckedSynced, InProgress, EmptyLog
<1>4. LogIsHistory /\ Unharmed
  BY WalAssumption DEF Init, LogIsHistory, Unharmed, EmptyLog
<1>5. QED
  BY <1>2, <1>3, <1>4 DEF IInv

\* A step that leaves the log, its synced part and the acknowledgements alone.
LEMMA LogUnchanged ==
  ASSUME IInv, UNCHANGED <<disk, synced, acked>>, TypeOK', LogIsHistory',
         pc' \in {"idle", "write"}, gentle' => gentle,
         gentle' => writer' # "broken"
  PROVE  IInv'
  BY DEF IInv, SyncedFirst, AckedSynced, InProgress, Unharmed

LEMMA FaultType == TypeOK /\ Fault => faults' \in Nat
  BY DEF TypeOK, Fault

LEMMA InvStep == IInv /\ [Next]_vars => IInv'
<1> SUFFICES ASSUME IInv, [Next]_vars PROVE IInv'
  OBVIOUS
<1> USE DEF server
<1>1. TypeOK /\ SyncedFirst /\ AckedSynced /\ InProgress /\ LogIsHistory /\ Unharmed
  BY DEF IInv
<1>2. CASE NewBook
  <2>1. TypeOK'
    BY <1>1, <1>2 DEF NewBook, Idle, TypeOK, Logs
  <2>2. LogIsHistory'
    BY <1>1, <1>2 DEF NewBook, Idle, LogIsHistory
  <2>3. QED
    BY <1>2, <2>1, <2>2, LogUnchanged DEF NewBook, Idle
<1>3. CASE NewBookFails
  <2>1. TypeOK' /\ LogIsHistory'
    BY <1>1, <1>3 DEF NewBookFails, Idle, TypeOK, LogIsHistory
  <2>2. QED
    BY <1>1, <1>3, <2>1, LogUnchanged DEF NewBookFails, Idle, Unharmed
<1>4. CASE NewBookUnlogged
  <2>1. TypeOK'
    BY <1>1, <1>4 DEF NewBookUnlogged, Idle, TypeOK
  <2>2. LogIsHistory'
    BY <1>1, <1>4, WalAssumption DEF NewBookUnlogged, LogIsHistory
  <2>3. QED
    BY <1>4, <2>1, <2>2, LogUnchanged DEF NewBookUnlogged, Idle
<1>5. ASSUME NEW o \in Ops, Refuse(o) PROVE IInv'
  <2>1. TypeOK' /\ LogIsHistory'
    BY <1>1, <1>5 DEF Refuse, Idle, TypeOK, LogIsHistory
  <2>2. QED
    BY <1>1, <1>5, <2>1, LogUnchanged DEF Refuse, Idle, Unharmed
<1>6. ASSUME NEW o \in Ops, Apply(o) PROVE IInv'
  <2>1. TypeOK'
    BY <1>1, <1>6 DEF Apply, Idle, TypeOK
  <2>2. LogIsHistory'
    BY <1>1, <1>6 DEF Apply, Idle, LogIsHistory
  <2>3. QED
    BY <1>1, <1>6, <2>1, <2>2, LogUnchanged DEF Apply, Idle, Unharmed
<1>7. CASE Write
  <2>1. op \in Ops /\ disk \in Logs /\ synced \in Logs
    BY <1>1, <1>7 DEF Write, TypeOK
  <2>2. /\ disk' \in Logs /\ disk'.entries = Append(disk.entries, op)
        /\ disk'.torn = disk.torn
        /\ disk'.ended = disk.ended \cup {Len(disk.entries) + 1}
    BY <1>7, <2>1, AppendedLog DEF Write
  <2>3. /\ Len(disk'.entries) = Len(disk.entries) + 1
        /\ disk'.entries[Len(disk'.entries)] = op
        /\ \A i \in 1 .. Len(disk.entries) : disk'.entries[i] = disk.entries[i]
    BY <2>1, <2>2 DEF Logs
  <2>4. TypeOK'
    BY <1>1, <1>7, <2>2 DEF Write, TypeOK
  <2>5. SyncedFirst'
    BY <1>1, <1>7, <2>1, <2>3 DEF Write, SyncedFirst, Logs
  <2>6. AckedSynced'
    BY <1>1, <1>7 DEF Write, AckedSynced
  <2>7. InProgress'
    BY <1>7, <2>1, <2>3 DEF Write, InProgress, Logs
  <2>8. LogIsHistory'
    BY <1>1, <1>7, <2>2 DEF Write, LogIsHistory
  <2>9. Unharmed'
    BY <1>1, <1>7, <2>1, <2>2, <2>3 DEF Write, Unharmed, Logs
  <2>10. QED
    BY <2>4, <2>5, <2>6, <2>7, <2>8, <2>9 DEF IInv
<1>8. CASE WriteFails
  <2>1. op \in Ops /\ disk \in Logs /\ synced \in Logs
    BY <1>1, <1>8 DEF WriteFails, TypeOK
  <2>2. disk' \in Logs /\ disk'.entries \in {disk.entries, Append(disk.entries, op)}
    BY <1>8, <2>1, AppendedLog DEF WriteFails
  <2>3. /\ Len(disk.entries) <= Len(disk'.entries)
        /\ \A i \in 1 .. Len(disk.entries) : disk'.entries[i] = disk.entries[i]
    BY <2>1, <2>2 DEF Logs
  <2>4. TypeOK'
    <3>1. faults' \in Nat
      BY <1>1, <1>8, FaultType DEF WriteFails
    <3>2. QED
      BY <1>1, <1>8, <2>2, <3>1 DEF WriteFails, Answer, TypeOK
  <2>5. SyncedFirst'
    BY <1>1, <1>8, <2>1, <2>2, <2>3 DEF WriteFails, SyncedFirst, Logs
  <2>6. AckedSynced' /\ InProgress' /\ Unharmed'
    BY <1>1, <1>8 DEF WriteFails, Answer, AckedSynced, InProgress, Unharmed
  <2>7. LogIsHistory'
    BY <1>1, <1>8, <2>2 DEF WriteFails, LogIsHistory
  <2>8. QED
    BY <2>4, <2>5, <2>6, <2>7 DEF IInv
<1>9. CASE WriteBroken
  <2>1. TypeOK' /\ LogIsHistory'
    BY <1>1, <1>9 DEF WriteBroken, Answer, TypeOK, LogIsHistory
  <2>2. QED
    BY <1>1, <1>9, <2>1, LogUnchanged DEF WriteBroken, Answer, Unharmed
<1>10. CASE Sync
  <2>1. TypeOK'
    BY <1>1, <1>10 DEF Sync, TypeOK
  <2>2. SyncedFirst' /\ InProgress'
    BY <1>1, <1>10 DEF Sync, SyncedFirst, InProgress, TypeOK, Logs
  <2>3. AckedSynced'
    BY <1>1, <1>10 DEF Sync, SyncedFirst, AckedSynced, TypeOK, Logs
  <2>4. LogIsHistory' /\ Unharmed'
    BY <1>1, <1>10 DEF Sync, LogIsHistory, Unharmed
  <2>5. QED
    BY <2>1, <2>2, <2>3, <2>4 DEF IInv
<1>11. CASE SyncFails
  <2>1. TypeOK' /\ LogIsHistory'
    <3>1. faults' \in Nat
      BY <1>1, <1>11, FaultType DEF SyncFails
    <3>2. TypeOK'
      BY <1>1, <1>11, <3>1 DEF SyncFails, Answer, TypeOK
    <3>3. QED
      BY <1>1, <1>11, <3>2 DEF SyncFails, Answer, LogIsHistory
  <2>2. QED
    BY <1>1, <1>11, <2>1, LogUnchanged DEF SyncFails, Answer
<1>12. CASE Reply
  <2>1. Len(disk.entries) \in Nat \ {0} /\ op \in Ops
    BY <1>1, <1>12 DEF Reply, InProgress, TypeOK, Logs
  <2>2. TypeOK'
    BY <1>1, <1>12, <2>1 DEF Reply, Answer, TypeOK
  <2>3. AckedSynced'
    BY <1>1, <1>12, <2>1 DEF Reply, AckedSynced, InProgress
  <2>4. SyncedFirst' /\ InProgress' /\ Unharmed'
    BY <1>1, <1>12 DEF Reply, Answer, SyncedFirst, InProgress, Unharmed
  <2>5. LogIsHistory'
    BY <1>1, <1>12 DEF Reply, Answer, LogIsHistory
  <2>6. QED
    BY <2>2, <2>3, <2>4, <2>5 DEF IInv
<1>13. CASE Kill
  <2>1. TypeOK' /\ LogIsHistory'
    <3>1. faults' \in Nat /\ <<>> \in Seq(Ops)
      BY <1>1, <1>13, FaultType DEF Kill, Down
    <3>2. TypeOK'
      BY <1>1, <1>13, <3>1 DEF Kill, Down, Answer, TypeOK
    <3>3. QED
      BY <1>1, <1>13, <3>2, WalAssumption DEF Kill, Down, Answer, LogIsHistory
  <2>2. QED
    BY <1>13, <2>1, LogUnchanged DEF Kill, Down, Answer
<1>14. CASE PowerLoss
  <2>1. disk \in Logs /\ synced \in Logs /\ Len(synced.entries) <= Len(disk.entries)
    BY <1>1 DEF TypeOK, SyncedFirst
  <2>2. disk' \in Remains(disk, synced) /\ synced' = disk'
    BY <1>14 DEF PowerLoss
  <2>3. disk' \in Logs /\ synced' \in Logs
    BY <2>1, <2>2, RemainingLog
  <2>4. PICK k \in Len(synced.entries) .. Len(disk.entries) :
          disk'.entries = SubSeq(disk.entries, 1, k)
    BY <2>1, <2>2, RemainingLog
  <2>5. k \in Nat /\ k <= Len(disk.entries) /\ Len(synced.entries) <= k
    BY <2>1, <2>4 DEF Logs
  <2>6. /\ Len(disk'.entries) = k
        /\ \A i \in 1 .. k : disk'.entries[i] = disk.entries[i]
    BY <2>1, <2>4, <2>5 DEF Logs
  <2>7. TypeOK'
    <3>1. faults' \in Nat /\ <<>> \in Seq(Ops)
      BY <1>1, <1>14, FaultType DEF PowerLoss, Down
    <3>2. QED
      BY <1>1, <1>14, <2>3, <3>1 DEF PowerLoss, Down, Answer, TypeOK
  <2>8. SyncedFirst'
    BY <2>2, <2>3 DEF SyncedFirst, Logs
  <2>9. AckedSynced'
    <3>1. SUFFICES ASSUME NEW a \in acked'
                   PROVE  a.at <= Len(disk'.entries) /\ disk'.entries[a.at] = a.op
      BY <2>2 DEF AckedSynced
    <3>2. a \in acked /\ a.at \in Nat \ {0}
      BY <1>1, <1>14, <3>1 DEF PowerLoss, Down, TypeOK
    <3>3. a.at <= Len(synced.entries) /\ disk.entries[a.at] = a.op
      BY <1>1, <2>1, <3>2 DEF AckedSynced, SyncedFirst, Logs
    <3>4. QED
      BY <2>1, <2>5, <2>6, <3>2, <3>3 DEF Logs
  <2>10. InProgress' /\ Unharmed'
    BY <1>14 DEF PowerLoss, Down, Answer, InProgress, Unharmed
  <2>11. LogIsHistory'
    <3>1. SubSeq(disk.entries, 1, k) \in Legal
      BY <1>1, <2>5, WalAssumption DEF LogIsHistory
    <3>2. QED
      BY <1>14, <2>4, <3>1, WalAssumption DEF PowerLoss, Down, LogIsHistory
  <2>12. QED
    BY <2>7, <2>8, <2>9, <2>10, <2>11 DEF IInv
<1>15. CASE Restart
  <2>1. TypeOK' /\ LogIsHistory' /\ pc = "idle"
    BY <1>1, <1>15 DEF Restart, TypeOK, LogIsHistory
  <2>2. QED
    BY <1>1, <1>15, <2>1, LogUnchanged DEF Restart, Unharmed
<1>16. CASE UNCHANGED vars
  BY <1>16 DEF vars, IInv, TypeOK, SyncedFirst, AckedSynced, InProgress, LogIsHistory, Unharmed
<1>17. QED
  BY <1>2, <1>3, <1>4, <1>5, <1>6, <1>7, <1>8, <1>9, <1>10, <1>11, <1>12, <1>13,
     <1>14, <1>15, <1>16 DEF Next, Request

LEMMA Invariance == Spec => []IInv
  BY InvInit, InvStep, PTL DEF Spec

-----------------------------------------------------------------------------
(* Theorems *)

\* A log that replays gives back every acknowledged operation at its place,
\* after any sequence of kills, power losses and failed writes and syncs.
THEOREM NothingSilentlyLost == Spec => []NoSilentLoss
<1>1. IInv => NoSilentLoss
  BY DEF IInv, TypeOK, SyncedFirst, AckedSynced, NoSilentLoss, Logs
<1>2. QED
  BY <1>1, Invariance, PTL

\* Replay never meets an entry the book refuses, under any faults.
THEOREM ReplayAgrees == Spec => []ReplayNeverDiverges
<1>1. IInv => ReplayNeverDiverges
  BY DEF IInv, LogIsHistory, ReplayNeverDiverges
<1>2. QED
  BY <1>1, Invariance, PTL

\* Kills of the process never cost the log its readability, and a logged book
\* at rest is exactly what its log replays to.
THEOREM KilledProcessRecovers == Spec => []KillsAreHarmless
<1>1. IInv => KillsAreHarmless
  <2> SUFFICES ASSUME IInv, gentle
               PROVE  /\ Replayable(disk)
                      /\ pc = "idle" /\ writer = "open" => bk = disk.entries
    BY DEF KillsAreHarmless
  <2>1. Readable(disk)
    BY DEF IInv, TypeOK, Unharmed, Readable, Logs
  <2>2. QED
    BY <2>1 DEF IInv, LogIsHistory, Replayable
<1>2. QED
  BY <1>1, Invariance, PTL
=============================================================================
