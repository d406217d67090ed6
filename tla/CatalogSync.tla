----------------------------- MODULE CatalogSync -----------------------------
(***************************************************************************)
(* The catalog mirror and the ledger of its runs: catalog.ingest_run, the  *)
(* full pass over TMDB's id export (kind catalog_initial) and the daily    *)
(* delta over /tv/changes (kind catalog_update).                           *)
(*                                                                         *)
(* A run resolves what to fetch, then mirrors one show per transaction.    *)
(* The delta's cursor is a date: the day its coverage ends, written only   *)
(* when the run completes.  The catalog can lose an upstream change only   *)
(* if a cursor moves past a day whose changes were not all mirrored, so    *)
(* the module follows which change each mirrored row holds.                *)
(*                                                                         *)
(* Runs of both kinds overlap, at a guard that reads before it inserts;    *)
(* processes die, shows fail to fetch, and a restart of the application    *)
(* cancels the rows that look abandoned.  Of the runs that are over the    *)
(* module keeps what their two readers read: the cursor of the delta that  *)
(* succeeded last, whether a pass succeeded, and when the first began.     *)
(***************************************************************************)
EXTENDS Integers, FiniteSets

CONSTANTS
    Shows,            \* TMDB series ids
    Runs,             \* bound: the runs in flight at once, of either kind
    Thresholds,       \* values ingest_consecutive_failure_threshold is set to
    MaxDay,           \* bound: days that pass
    MaxChanges        \* bound: changes upstream

ASSUME CatalogAssumption ==
    /\ IsFiniteSet(Shows) /\ IsFiniteSet(Runs)
    /\ Thresholds \subseteq Nat \ {0} /\ IsFiniteSet(Thresholds)
    /\ {MaxDay, MaxChanges} \subseteq Nat

VARIABLES
    threshold,\* ingest_consecutive_failure_threshold, as deployed
    day,      \* the UTC date
    changes,  \* what TMDB's change feed lists: [show, version, day]
    mirror,   \* mirror[s]: the version show s was stamped with, or Unsynced
    history,  \* of the runs so far: cursor, passed, began
    runs,     \* runs[r]: the row of a run that is not finished
    proc,     \* proc[r]: its process
    lost      \* shows no run answers for: skipped, overwritten, or held at a
              \* cold start

vars == <<threshold, day, changes, mirror, history, runs, proc, lost>>

Unsynced == -1
Never == -1
Kinds == {"catalog_update", "catalog_initial"}
Places == {"idle", "start", "list", "loop", "commit"}
Day == 0 .. MaxDay

\* cursor: of the delta that succeeded last.  began: the day of the first
\* attempt at a full pass.  passed: some attempt succeeded.
History ==
    [cursor : Day \cup {Never}, began : Day \cup {Never}, passed : BOOLEAN]

Statuses == {"none", "running", "cancelled"}
Row == [kind : Kinds, status : Statuses, progressed : BOOLEAN]
NoRow == [kind |-> "catalog_update", status |-> "none", progressed |-> FALSE]

\* today and from: the dates the run covers, cold when from is a guess.  show
\* and version: the payload in hand.  skipped: the shows counted as failed.
\* failing: consecutive failures.
Process == [at : Places, today : Day, from : -1 .. MaxDay, cold : BOOLEAN,
            todo : SUBSET Shows, show : SUBSET Shows, version : 0 .. MaxChanges,
            skipped : SUBSET Shows, failing : Nat]
NoProcess == [at |-> "idle", today |-> 0, from |-> 0, cold |-> FALSE,
              todo |-> {}, show |-> {}, version |-> 0, skipped |-> {},
              failing |-> 0]

Init ==
    /\ threshold \in Thresholds
    /\ day = 0
    /\ changes = {}
    /\ mirror = [s \in Shows |-> Unsynced]
    /\ history = [cursor |-> Never, began |-> Never, passed |-> FALSE]
    /\ runs = [r \in Runs |-> NoRow]
    /\ proc = [r \in Runs |-> NoProcess]
    /\ lost = {}

-----------------------------------------------------------------------------
(* The run ledger                                                          *)

Running == {r \in Runs : runs[r].status = "running"}

\* find_live_run: a row of the kind, running, and active within
\* ingest_stale_run_minutes.  The clock decides which rows are stale.
Live(kind, unseen) == {r \in Running \ unseen : runs[r].kind = kind}

\* record_progress, in the transaction of one show.
Progress(r) == [runs EXCEPT ![r].progressed = TRUE]

\* finalize_run, whatever the row says by now: a run that was cancelled while it
\* worked succeeds or fails all the same.
Finalized(r) == [runs EXCEPT ![r] = NoRow]

\* resolve_start_date: the cursor of the last delta, else the start of the first
\* attempt at a pass once one succeeded, else yesterday.
ColdStart == history.cursor = Never /\ ~history.passed
StartDate == IF ColdStart THEN day - 1
             ELSE IF history.cursor # Never THEN history.cursor
             ELSE history.began

-----------------------------------------------------------------------------
(* Upstream                                                                *)

Versions(s) == {0} \cup {c.version : c \in {x \in changes : x.show = s}}
Latest(s) == CHOOSE v \in Versions(s) : \A w \in Versions(s) : w <= v

\* TMDB changes a show and lists it under the day.
Change(s) ==
    /\ Cardinality(changes) < MaxChanges
    /\ changes' = changes \cup
                    {[show |-> s, version |-> Latest(s) + 1, day |-> day]}
    /\ UNCHANGED <<threshold, day, mirror, history, runs, proc, lost>>

\* plan_windows and changed_series_ids: every show listed in the windows, both
\* bounds included; no window when the range is empty.
Changed(from, to) ==
    {c.show : c \in {x \in changes : from < to /\ from <= x.day /\ x.day <= to}}

-----------------------------------------------------------------------------
(* Starting a run                                                          *)

\* Mutant: a pass begins with its last attempt.
StartLastAttempt(r, kind) ==
    /\ runs[r].status = "none"
    /\ \E unseen \in SUBSET Running : Live(kind, unseen) = {}
    /\ runs' = [runs EXCEPT ![r].kind = kind, ![r].status = "running"]
    /\ history' = IF kind = "catalog_initial"
                  THEN [history EXCEPT !.began = day] ELSE history
    /\ proc' = [proc EXCEPT ![r].at = "start"]
    /\ UNCHANGED <<threshold, day, changes, mirror, lost>>

\* _start_run and run_scheduled_delta.  The guard is per kind and advisory: it
\* does not see a run that is stale, nor one whose row another start has yet to
\* commit.
Start(r, kind) ==
    /\ runs[r].status = "none"
    /\ \E unseen \in SUBSET Running : Live(kind, unseen) = {}
    /\ runs' = [runs EXCEPT ![r].kind = kind, ![r].status = "running"]
    /\ history' = IF kind = "catalog_initial" /\ history.began = Never
                  THEN [history EXCEPT !.began = day] ELSE history
    /\ proc' = [proc EXCEPT ![r].at = "start"]
    /\ UNCHANGED <<threshold, day, changes, mirror, lost>>

\* The shows stamped, and those some run has fetched and is about to stamp.
Held ==
    {s \in Shows : mirror[s] # Unsynced} \cup UNION {proc[q].show : q \in Runs}

\* run_catalog_update: today is read first, and where coverage begins.  A cold
\* start answers for one day back, and for nothing before it.
Resolve(r) ==
    /\ runs[r].kind = "catalog_update" /\ proc[r].at = "start"
    /\ proc' = [proc EXCEPT ![r].at = "list", ![r].today = day,
                            ![r].from = StartDate, ![r].cold = ColdStart]
    /\ lost' = IF ColdStart THEN lost \cup Held ELSE lost
    /\ UNCHANGED <<threshold, day, changes, mirror, history, runs>>

ListChanges(r) ==
    /\ proc[r].at = "list"
    /\ proc' = [proc EXCEPT ![r].at = "loop",
                            ![r].todo = Changed(proc[r].from, proc[r].today),
                            ![r].from = 0]
    /\ UNCHANGED <<threshold, day, changes, mirror, history, runs, lost>>

\* run_catalog_ingest: the export minus the shows stamped so far.
ListExport(r) ==
    /\ runs[r].kind = "catalog_initial" /\ proc[r].at = "start"
    /\ proc' = [proc EXCEPT ![r].at = "loop",
                            ![r].todo = {s \in Shows : mirror[s] = Unsynced}]
    /\ UNCHANGED <<threshold, day, changes, mirror, history, runs, lost>>

-----------------------------------------------------------------------------
(* mirror_series                                                           *)

\* One show and its overflow seasons, fetched with no transaction open.
Fetch(r) ==
    /\ proc[r].at = "loop"
    /\ \E s \in proc[r].todo :
         proc' = [proc EXCEPT ![r].at = "commit", ![r].todo = @ \ {s},
                              ![r].show = {s}, ![r].version = Latest(s)]
    /\ UNCHANGED <<threshold, day, changes, mirror, history, runs, lost>>

\* The mirror may be behind on a show that an older payload overwrote, or that a
\* delta with no idea of where coverage began was the last to stamp, until its
\* latest payload lands.
Behind(r, s) ==
    IF proc[r].version < mirror[s] \/ proc[r].cold THEN lost \cup {s}
    ELSE IF proc[r].version = Latest(s) THEN lost \ {s} ELSE lost

Landed(r) == [proc[r] EXCEPT !.at = "loop", !.show = {}, !.version = 0]
Skipped(r) == [Landed(r) EXCEPT !.skipped = @ \cup proc[r].show]

\* mark_series_synced, with the upsert of its payload.
Stamped(r, s) == [mirror EXCEPT ![s] = proc[r].version]

\* Upsert, stamp and progress, in one transaction.
Commit(r) ==
    /\ proc[r].at = "commit"
    /\ \E s \in proc[r].show :
         /\ mirror' = Stamped(r, s)
         /\ lost' = Behind(r, s)
    /\ runs' = Progress(r)
    /\ proc' = [proc EXCEPT ![r] = [Landed(r) EXCEPT !.failing = 0]]
    /\ UNCHANGED <<threshold, day, changes, history>>

\* 404: gone upstream, counted but never towards the abort.
FetchGone(r) ==
    /\ proc[r].at = "commit"
    /\ runs' = Progress(r)
    /\ proc' = [proc EXCEPT ![r] = Skipped(r)]
    /\ UNCHANGED <<threshold, day, changes, mirror, history, lost>>

\* Any other failure of the fetch or of the transaction.  At the threshold the
\* run is finalized failed, and its cursor stays where it was.
FetchFails(r) ==
    /\ proc[r].at = "commit"
    /\ IF proc[r].failing + 1 >= threshold
       THEN /\ runs' = Finalized(r)
            /\ proc' = [proc EXCEPT ![r] = NoProcess]
       ELSE /\ runs' = Progress(r)
            /\ proc' = [proc EXCEPT ![r] = [Skipped(r) EXCEPT !.failing = @ + 1]]
    /\ UNCHANGED <<threshold, day, changes, mirror, history, lost>>

-----------------------------------------------------------------------------
(* Ending a run                                                            *)

\* The success finalization is the caller's, after the whole list: the delta
\* writes the date it read at the start, the full pass no cursor.  The cursor
\* moves past the shows the run skipped.
Finish(r) ==
    /\ proc[r].at = "loop" /\ proc[r].todo = {}
    /\ history' = IF runs[r].kind = "catalog_update"
                  THEN [history EXCEPT !.cursor = proc[r].today]
                  ELSE [history EXCEPT !.passed = TRUE]
    /\ runs' = Finalized(r)
    /\ proc' = [proc EXCEPT ![r] = NoProcess]
    /\ lost' = lost \cup {s \in proc[r].skipped : mirror[s] # Latest(s)}
    /\ UNCHANGED <<threshold, day, changes, mirror>>

\* Mutant: a pass that raises is finalized like one that ends.
RaiseSucceeds(r) ==
    /\ proc[r].at # "idle"
    /\ history' = IF runs[r].kind = "catalog_initial"
                  THEN [history EXCEPT !.passed = TRUE] ELSE history
    /\ runs' = Finalized(r)
    /\ proc' = [proc EXCEPT ![r] = NoProcess]
    /\ UNCHANGED <<threshold, day, changes, mirror, lost>>

\* An exception out of the run: its job finalizes it failed.
Raise(r) ==
    /\ proc[r].at # "idle"
    /\ runs' = Finalized(r)
    /\ proc' = [proc EXCEPT ![r] = NoProcess]
    /\ UNCHANGED <<threshold, day, changes, mirror, history, lost>>

\* The process dies and finalizes nothing.
Die(r) ==
    /\ proc[r].at # "idle"
    /\ proc' = [proc EXCEPT ![r] = NoProcess]
    /\ UNCHANGED <<threshold, day, changes, mirror, history, runs, lost>>

\* mark_stale_runs_cancelled, when the application starts: any rows whose last
\* progress is older than the threshold.  A row with no progress is left alone.
Sweep ==
    /\ \E stale \in SUBSET {r \in Running : runs[r].progressed} \ {{}} :
         runs' = [r \in Runs |-> IF r \in stale
                                 THEN [runs[r] EXCEPT !.status = "cancelled"]
                                 ELSE runs[r]]
    /\ UNCHANGED <<threshold, day, changes, mirror, history, proc, lost>>

\* The row of a dead run is too old for every guard, and stays so.
Expire(r) ==
    /\ runs[r].status # "none" /\ proc[r].at = "idle"
    /\ runs' = [runs EXCEPT ![r] = NoRow]
    /\ UNCHANGED <<threshold, day, changes, mirror, history, proc, lost>>

\* Midnight, at any point of any run.
NextDay ==
    /\ day < MaxDay
    /\ day' = day + 1
    /\ UNCHANGED <<threshold, changes, mirror, history, runs, proc, lost>>

RunStep(r) ==
    \/ \E kind \in Kinds : Start(r, kind)
    \/ Resolve(r) \/ ListChanges(r) \/ ListExport(r)
    \/ Fetch(r) \/ Commit(r) \/ FetchGone(r) \/ FetchFails(r)
    \/ Finish(r) \/ Raise(r) \/ Die(r) \/ Expire(r)

Next ==
    \/ \E r \in Runs : RunStep(r)
    \/ \E s \in Shows : Change(s)
    \/ Sweep
    \/ NextDay

Spec == Init /\ [][Next]_vars

-----------------------------------------------------------------------------
(* Properties                                                              *)

TypeOK ==
    /\ threshold \in Thresholds /\ day \in Day
    /\ changes \subseteq [show : Shows, version : 1 .. MaxChanges, day : Day]
    /\ mirror \in [Shows -> {Unsynced} \cup 0 .. MaxChanges]
    /\ history \in History
    /\ runs \in [Runs -> Row] /\ proc \in [Runs -> Process]
    /\ \A r \in Runs : proc[r].failing < threshold
    /\ lost \subseteq Shows

\* Once a delta has succeeded, every stamped show holds every change made
\* before the day of the cursor, whatever runs failed, died, were cancelled,
\* resumed or overlapped (tmdb/update.py run_catalog_update).  The exceptions are
\* a show the run that succeeded had skipped, one an older payload overwrote,
\* and one held when a delta started cold.
NoChangeLost ==
    \A c \in changes :
        /\ c.day < history.cursor
        /\ mirror[c.show] # Unsynced /\ c.show \notin lost
        => mirror[c.show] >= c.version

\* A succeeded full pass is "the only evidence the pass covered the whole
\* catalog" (catalog/runs.py get_completed_pass_start): every show is stamped,
\* by it or by an attempt before it, or is counted among its failures.
PassCovers ==
    history.passed => \A s \in Shows : mirror[s] # Unsynced \/ s \in lost

=============================================================================
