-------------------------------- MODULE Wal --------------------------------
(***************************************************************************)
(* Crash recovery: cmd/simserver with internal/wal.                        *)
(*                                                                         *)
(* The server applies an operation to its book, appends it to the log,     *)
(* syncs the log and only then answers; new_book replays the log into an   *)
(* empty book before it opens the log for appending.  The process may be   *)
(* killed between any two of those steps, the machine may lose its power,  *)
(* and a write or a sync may fail.                                         *)
(*                                                                         *)
(* The book is deterministic and a refused operation leaves it alone       *)
(* (RejectIsNoOp of module Book), so a book is the sequence of operations  *)
(* it has accepted, and Legal says which sequences it accepts.             *)
(***************************************************************************)
EXTENDS Integers, Sequences

CONSTANTS
  Ops,        \* submits and cancels
  Legal,      \* the sequences of operations an empty book accepts
  MaxOps,     \* bound on the operations a book accepts, for model checking
  MaxFaults   \* bound on kills, power losses and failed writes

ASSUME WalAssumption ==
  /\ Legal \subseteq Seq(Ops) /\ <<>> \in Legal
  /\ \A s \in Legal : \A k \in 0 .. Len(s) : SubSeq(s, 1, k) \in Legal
  /\ MaxOps \in Nat /\ MaxFaults \in Nat

VARIABLES
  alive,    \* the server process runs
  serving,  \* it has a book
  bk,       \* the operations that book has accepted
  writer,   \* "none", "open", or "broken" once a write has failed
  pc, op,   \* the request in progress: where it is, and its operation
  reply,    \* the last answer
  disk,     \* the log as a reader of the file sees it
  synced,   \* the log as of the last successful sync or power loss
  acked,    \* history: log positions whose operation was acknowledged as logged
  faults,   \* faults so far, bounded by MaxFaults
  gentle    \* history: every fault so far was the kill of the process

server == <<alive, serving, bk, writer, pc, op, reply>>
vars == <<server, disk, synced, acked, faults, gentle>>

NoOp == "none"

\* A log is the entries whose bytes are complete, the set of positions that
\* also have their newline, and whether part of one more entry follows.
EmptyLog == [entries |-> <<>>, ended |-> {}, torn |-> FALSE]

\* Every line is one complete entry.  The last one may lack its newline: the
\* scanner yields it all the same.
Readable(d) == ~d.torn /\ \A i \in 1 .. Len(d.entries) - 1 : i \in d.ended

\* Replay succeeds: it can read every line and the book accepts every entry.
Replayable(d) == Readable(d) /\ d.entries \in Legal

\* The log with one more entry, and what a failing write may leave of it.
Appended(d, o) ==
  [entries |-> Append(d.entries, o), ended |-> d.ended \cup {Len(d.entries) + 1},
   torn |-> d.torn]

Unended(d, o) == [d EXCEPT !.entries = Append(@, o)]

Torn(d) == [d EXCEPT !.torn = TRUE]

\* What may be left of log d of which s was synced: any number of the entries
\* written since, the last of them without its newline or torn.
Cut(d, k) ==
  [entries |-> SubSeq(d.entries, 1, k), ended |-> d.ended \cap 1 .. k, torn |-> FALSE]

Remains(d, s) ==
  LET kept == {Cut(d, k) : k \in Len(s.entries) .. Len(d.entries)}
      cut  == {Cut(d, k) : k \in Len(s.entries) .. Len(d.entries) - 1}
  IN  {d} \cup kept
        \cup {Torn(c) : c \in cut}
        \cup {[c EXCEPT !.ended = @ \ {Len(c.entries)}] :
                c \in {x \in kept : Len(x.entries) > Len(s.entries)}}

Init ==
  /\ alive = TRUE /\ serving = FALSE /\ bk = <<>> /\ writer = "none"
  /\ pc = "idle" /\ op = NoOp /\ reply = "none"
  /\ disk = EmptyLog /\ synced = EmptyLog
  /\ acked = {} /\ faults = 0 /\ gentle = TRUE

-----------------------------------------------------------------------------
(* Requests *)

Idle == alive /\ pc = "idle"

\* Mutant of NewBook: the log is opened for appending without being replayed.
NewBookNoReplay ==
  /\ Idle /\ Replayable(disk)
  /\ serving' = TRUE /\ bk' = <<>> /\ writer' = "open" /\ reply' = "ok"
  /\ UNCHANGED <<alive, pc, op, disk, synced, acked, faults, gentle>>

\* new_book with a log: replay it, then append to it.
NewBook ==
  /\ Idle /\ Replayable(disk)
  /\ serving' = TRUE /\ bk' = disk.entries /\ writer' = "open" /\ reply' = "ok"
  /\ UNCHANGED <<alive, pc, op, disk, synced, acked, faults, gentle>>

\* The log cannot be replayed: the server goes on with the book it had, if any.
NewBookFails ==
  /\ Idle /\ ~Replayable(disk)
  /\ reply' = "error"
  /\ UNCHANGED <<alive, serving, bk, writer, pc, op, disk, synced, acked, faults, gentle>>

\* new_book without a log.
NewBookUnlogged ==
  /\ Idle
  /\ serving' = TRUE /\ bk' = <<>> /\ writer' = "none" /\ reply' = "ok"
  /\ UNCHANGED <<alive, pc, op, disk, synced, acked, faults, gentle>>

\* A submit or cancel before any book, or refused by the book.
Refuse(o) ==
  /\ Idle /\ ~(serving /\ Append(bk, o) \in Legal)
  /\ reply' = IF serving THEN "rejected" ELSE "error"
  /\ UNCHANGED <<alive, serving, bk, writer, pc, op, disk, synced, acked, faults, gentle>>

\* The book accepts it; what follows is for the log.
Apply(o) ==
  /\ Idle /\ serving /\ Append(bk, o) \in Legal /\ Len(bk) < MaxOps
  /\ bk' = Append(bk, o)
  /\ IF writer = "none" THEN reply' = "ok" /\ UNCHANGED <<pc, op>>
     ELSE pc' = "write" /\ op' = o /\ UNCHANGED reply
  /\ UNCHANGED <<alive, serving, writer, disk, synced, acked, faults, gentle>>

\* The entry and its newline go to the file in one write.
Write ==
  /\ pc = "write" /\ writer = "open"
  /\ disk' = Appended(disk, op) /\ pc' = "sync"
  /\ UNCHANGED <<alive, serving, bk, writer, op, reply, synced, acked, faults, gentle>>

Fault == faults < MaxFaults /\ faults' = faults + 1

Answer(r) == pc' = "idle" /\ op' = NoOp /\ reply' = r

\* The write fails, having written nothing or a part of the line.  The error
\* stays with the buffered writer.
WriteFails ==
  /\ pc = "write" /\ writer = "open" /\ Fault
  /\ disk' \in {disk, Torn(disk), Unended(disk, op)}
  /\ writer' = "broken" /\ gentle' = FALSE
  /\ Answer("wal_error")
  /\ UNCHANGED <<alive, serving, bk, synced, acked>>

\* Mutant of WriteBroken: the buffered writer forgets its error.
WriteForgets ==
  /\ pc = "write" /\ writer = "broken"
  /\ disk' = Appended(disk, op) /\ writer' = "open" /\ pc' = "sync"
  /\ UNCHANGED <<alive, serving, bk, op, reply, synced, acked, faults, gentle>>

\* A writer that has failed once fails for good; the book has moved on.
WriteBroken ==
  /\ pc = "write" /\ writer = "broken"
  /\ Answer("wal_error")
  /\ UNCHANGED <<alive, serving, bk, writer, disk, synced, acked, faults, gentle>>

\* Mutant of Sync: the answer does not wait for the sync.
SyncLater ==
  /\ pc = "sync" /\ pc' = "reply"
  /\ UNCHANGED <<alive, serving, bk, writer, op, reply, disk, synced, acked, faults, gentle>>

Sync ==
  /\ pc = "sync"
  /\ synced' = disk /\ pc' = "reply"
  /\ UNCHANGED <<alive, serving, bk, writer, op, reply, disk, acked, faults, gentle>>

\* A failed sync is reported with this answer only: the file keeps the entry,
\* and the next sync covers it.
SyncFails ==
  /\ pc = "sync" /\ Fault
  /\ gentle' = FALSE
  /\ Answer("wal_error")
  /\ UNCHANGED <<alive, serving, bk, writer, disk, synced, acked>>

Reply ==
  /\ pc = "reply"
  /\ acked' = acked \cup {[at |-> Len(disk.entries), op |-> op]}
  /\ Answer("ok")
  /\ UNCHANGED <<alive, serving, bk, writer, disk, synced, faults, gentle>>

-----------------------------------------------------------------------------
(* Crashes *)

Down ==
  /\ alive /\ Fault
  /\ alive' = FALSE /\ serving' = FALSE /\ bk' = <<>> /\ writer' = "none"
  /\ Answer("none")
  /\ UNCHANGED acked

\* The process dies; the operating system keeps what was written.
Kill == Down /\ UNCHANGED <<disk, synced, gentle>>

\* The machine dies; what was not synced may be gone, in part or whole.
PowerLoss ==
  /\ Down
  /\ \E d \in Remains(disk, synced) : disk' = d /\ synced' = d
  /\ gentle' = FALSE

Restart ==
  /\ ~alive /\ alive' = TRUE
  /\ UNCHANGED <<serving, bk, writer, pc, op, reply, disk, synced, acked, faults, gentle>>

Request ==
  \/ NewBook \/ NewBookFails \/ NewBookUnlogged
  \/ \E o \in Ops : Refuse(o) \/ Apply(o)

Next ==
  \/ Request
  \/ Write \/ WriteFails \/ WriteBroken \/ Sync \/ SyncFails \/ Reply
  \/ Kill \/ PowerLoss \/ Restart

Spec == Init /\ [][Next]_vars

-----------------------------------------------------------------------------
(* Properties *)

Logs == [entries : Seq(Ops), ended : SUBSET Nat, torn : BOOLEAN]

TypeOK ==
  /\ alive \in BOOLEAN /\ serving \in BOOLEAN /\ gentle \in BOOLEAN
  /\ bk \in Seq(Ops) /\ writer \in {"none", "open", "broken"}
  /\ pc \in {"idle", "write", "sync", "reply"}
  /\ pc # "idle" => alive /\ serving /\ op \in Ops /\ writer # "none"
  /\ reply \in {"none", "ok", "rejected", "error", "wal_error"}
  /\ disk \in Logs /\ synced \in Logs
  /\ acked \subseteq [at : Nat \ {0}, op : Ops]
  /\ faults \in Nat

\* A log that replays gives back every acknowledged operation at its place:
\* recovery may refuse a log, but it never succeeds without one of them.
NoSilentLoss ==
  Replayable(disk) =>
    \A a \in acked : a.at <= Len(disk.entries) /\ disk.entries[a.at] = a.op

\* No log, whatever the faults, makes replay stop with "replay diverged": the
\* entries are always a history the book accepts (wal.go, Replay).
ReplayNeverDiverges == disk.entries \in Legal

\* As long as only the process is killed, the log can always be replayed, and
\* between requests a logged book and its log are the same history.
KillsAreHarmless ==
  gentle => /\ Replayable(disk)
            /\ pc = "idle" /\ writer = "open" => bk = disk.entries

\* What internal/wal/README.md claims: nothing is ever acknowledged and then
\* lost to a crash.  A log that cannot be replayed gives nothing back.
AcknowledgedSurvivesCrash == ~alive /\ acked # {} => Replayable(disk)
=============================================================================
