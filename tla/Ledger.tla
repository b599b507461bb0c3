-------------------------------- MODULE Ledger --------------------------------
(* What the accounting promises, without a cache, a lock or a database        *)
(* session: every fill ever recorded counts exactly once in each view of the  *)
(* account, in the order of recording.  Three liberties are the code's: a row *)
(* cancelled after a partial fill no longer has the status of a fill, so its  *)
(* fill may or may not count; neither need a fill that is recorded after one  *)
(* of a higher id; and a view that nobody asked for since the process started *)
(* says nothing.                                                              *)
EXTENDS Fills

CONSTANTS
  Views,        \* the views that are asked for
  ScopeOf(_),   \* the rows each view is over
  Start,        \* the cash an account starts with
  InOrder       \* fills are recorded in the order of their ids

VARIABLES
  table,        \* the order rows
  fills,        \* the ids of the rows recorded as fills so far
  cancelled,    \* those cancelled afterwards
  overtaken,    \* those recorded after one of a higher id
  shown         \* what each view last said

ledgerVars == <<table, fills, cancelled, overtaken, shown>>

\* A view that counts exactly the given fills.
Account(view, ids) ==
  [Walk(EmptyWalk(Start), table, {i \in ids : InScope(ScopeOf(view), table[i])})
     EXCEPT !.last = 0]

LedgerInit ==
  /\ table = <<>> /\ fills = {} /\ cancelled = {} /\ overtaken = {}
  /\ shown = [v \in Views |-> None]

\* Orders come, go and change their status; fills are only ever added, and
\* only the status of a fill may change.
Record ==
  /\ UNCHANGED shown
  /\ fills \subseteq fills' /\ cancelled \subseteq cancelled' /\ cancelled' \subseteq fills'
  /\ \A i \in fills : [table'[i] EXCEPT !.status = ""] = [table[i] EXCEPT !.status = ""]
  /\ overtaken' = overtaken \cup {i \in fills' \ fills : \E j \in fills : j > i}
  /\ InOrder => overtaken' = {}

Ask(view) ==
  /\ UNCHANGED <<table, fills, cancelled, overtaken>>
  /\ \A v \in Views \ {view} : shown'[v] = shown[v]
  /\ \E uncounted \in SUBSET (cancelled \cup overtaken) :
       shown'[view] = Account(view, fills \ uncounted)

Forget ==
  /\ UNCHANGED <<table, fills, cancelled, overtaken>>
  /\ shown' = [v \in Views |-> None]

LedgerNext == Record \/ Forget \/ \E v \in Views : Ask(v)

LedgerSpec == LedgerInit /\ [][LedgerNext]_ledgerVars
=============================================================================
