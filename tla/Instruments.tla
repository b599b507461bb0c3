------------------------------ MODULE Instruments ------------------------------
(* The instrument master of instrument_master.py: a file that is downloaded   *)
(* once a day, and what a process keeps of it in memory, loaded by whichever  *)
(* request needs it first.  Requests that find it fresh take no lock.         *)
EXTENDS Naturals

CONSTANTS
  Readers,    \* the threads of the routes
  NotLoaded,  \* None
  MaxDays     \* bound: versions the broker publishes, one a day

ASSUME MasterAssumption == NotLoaded \notin Readers /\ NotLoaded \notin Nat

VARIABLES
  published,  \* the version the broker has
  file,       \* the cached file: missing, whole or cut off; its version; its age
  cache,      \* _cache: the version of the contracts in memory
  lists,      \* the sorted names made from it: the version
  loading,    \* who holds _load_lock
  reader      \* what each thread is doing

masterVars == <<published, file, cache, lists, loading, reader>>

MasterInit ==
  /\ published = 1 /\ cache = NotLoaded /\ lists = NotLoaded /\ loading = NotLoaded
  /\ file = [state |-> "missing", version |-> 0, fresh |-> FALSE]
  /\ reader = [t \in Readers |-> "idle"]

Goes(t, at) == reader' = [reader EXCEPT ![t] = at]
Leaves(t, at) == loading' = NotLoaded /\ Goes(t, at)

\* _ensure_loaded without the lock.  A list_* call may find what it needs.
Fresh == file.state # "missing" /\ file.fresh
Call(t) ==
  /\ reader[t] \in {"idle", "answered", "asserted", "empty", "raised"}
  /\ Goes(t, IF cache # NotLoaded /\ Fresh THEN "loaded" ELSE "waiting")
  /\ UNCHANGED <<published, file, cache, lists, loading>>

RefreshNow(t) ==
  /\ reader[t] \in {"idle", "answered", "asserted", "empty", "raised"}
  /\ Goes(t, "forced")
  /\ UNCHANGED <<published, file, cache, lists, loading>>

\* With the lock, everything is looked at again.
TakeLoadLock(t) ==
  /\ reader[t] \in {"waiting", "forced"} /\ loading = NotLoaded
  /\ IF reader[t] = "forced" \/ ~Fresh
     THEN loading' = t /\ Goes(t, "downloading")
     ELSE IF cache = NotLoaded THEN loading' = t /\ Goes(t, "parsing")
     ELSE Goes(t, "loaded") /\ UNCHANGED loading
  /\ UNCHANGED <<published, file, cache, lists>>

\* _fetch_and_cache.  The file is written in place: until it is done it is cut
\* off, and its time is new from the start.
DownloadFails(t) ==
  /\ reader[t] = "downloading" /\ Leaves(t, "raised")
  /\ UNCHANGED <<published, file, cache, lists>>

WriteFile(t) ==
  /\ reader[t] = "downloading"
  /\ file' = [state |-> "partial", version |-> published, fresh |-> TRUE]
  /\ Goes(t, "writing")
  /\ UNCHANGED <<published, cache, lists, loading>>

WriteFails(t) ==
  /\ reader[t] = "writing" /\ Leaves(t, "raised")
  /\ UNCHANGED <<published, file, cache, lists>>

\* The file is whole, and what was in memory is dropped.
AfterDownloadKept == cache
AfterDownload == NotLoaded
WriteDone(t) ==
  /\ reader[t] = "writing"
  /\ file' = [file EXCEPT !.state = "whole"]
  /\ cache' = AfterDownload
  /\ Goes(t, IF cache' = NotLoaded THEN "parsing" ELSE "loaded")
  /\ loading' = IF cache' = NotLoaded THEN t ELSE NotLoaded
  /\ UNCHANGED <<published, lists>>

\* _load_from_disk: a file that was cut off does not parse.
Parse(t) ==
  /\ reader[t] = "parsing" /\ file.state = "whole"
  /\ cache' = file.version /\ Goes(t, "sorting")
  /\ UNCHANGED <<published, file, lists, loading>>

ParseFails(t) ==
  /\ reader[t] = "parsing" /\ file.state = "partial" /\ Leaves(t, "raised")
  /\ UNCHANGED <<published, file, cache, lists>>

SortNames(t) ==
  /\ reader[t] = "sorting" /\ lists' = cache /\ Leaves(t, "loaded")
  /\ UNCHANGED <<published, file, cache>>

\* The lists are asserted to be there; a chain is empty without a cache.
ListNames(t) ==
  /\ reader[t] = "loaded" /\ Goes(t, IF lists = NotLoaded THEN "asserted" ELSE "answered")
  /\ UNCHANGED <<published, file, cache, lists, loading>>

ListContracts(t) ==
  /\ reader[t] = "loaded" /\ Goes(t, IF cache = NotLoaded THEN "empty" ELSE "answered")
  /\ UNCHANGED <<published, file, cache, lists, loading>>

\* A day passes: the file is stale and the broker publishes again.
NextDay ==
  /\ published < MaxDays /\ published' = published + 1
  /\ file' = [file EXCEPT !.fresh = FALSE]
  /\ UNCHANGED <<cache, lists, loading, reader>>

\* The process restarts, perhaps in the middle of a write.
ProcessRestarts ==
  /\ cache' = NotLoaded /\ lists' = NotLoaded /\ loading' = NotLoaded
  /\ reader' = [t \in Readers |-> "idle"]
  /\ UNCHANGED <<published, file>>

MasterNext ==
  \/ \E t \in Readers :
       \/ Call(t) \/ RefreshNow(t) \/ TakeLoadLock(t) \/ DownloadFails(t) \/ WriteFile(t)
       \/ WriteFails(t) \/ WriteDone(t) \/ Parse(t) \/ ParseFails(t) \/ SortNames(t)
       \/ ListNames(t) \/ ListContracts(t)
  \/ NextDay \/ ProcessRestarts

MasterSpec == MasterInit /\ [][MasterNext]_masterVars

-------------------------------------------------------------------------------
\* While nobody loads, what is in memory is what the file holds, contracts and
\* names of one version, and whoever passed _ensure_loaded finds it; only during a
\* load can a reader meet the assertion of list_live_equity_names or an empty
\* chain, and only a download cut off by an error keeps memory older than the file.
MemoryFollowsFile ==
  loading = NotLoaded =>
    /\ cache # NotLoaded => lists = cache
    /\ cache # NotLoaded /\ file.state = "whole" => cache = file.version
    /\ \A t \in Readers : reader[t] = "loaded" => cache # NotLoaded
===============================================================================
