---------------------------- MODULE UpstreamProofs ----------------------------
(***************************************************************************)
(* The mirror and its upstream.  Of the runs that keep the mirror: what    *)
(* CatalogSync keeps for every catalog, any number of runs in flight and   *)
(* any threshold, from CatalogAssumption.  Of the budget they share: that  *)
(* the limiters of any number of processes, whatever they interleave, are  *)
(* one token bucket, and that what is spent was granted before, for every  *)
(* capacity, rate, lease and size of request, from RateAssumption.         *)
(*                                                                         *)
(* A cursor steps over nothing if what lies before it is safe (Safe): the  *)
(* mirror holds the change, its show is owned up to as lost, or the show   *)
(* is not stamped yet and every payload in hand for it is late enough.     *)
(* Once safe a change stays safe, whoever commits (CommitStep), so it is   *)
(* enough to see who makes changes safe: a delta those of the days it      *)
(* covers, show by show (DeltasHold); the first attempt at a full pass     *)
(* those before it, since whatever was stamped until then is lost          *)
(* (Guessed); a cold start all there are.                                  *)
(***************************************************************************)
EXTENDS CatalogSync, RateBudget, FiniteSetTheorems, TLAPS

-----------------------------------------------------------------------------
(* The runs                                                                *)

\* Where a run has resolved what it covers.
Under == {"list", "loop", "commit"}

\* The versions of a show are finitely many, and the last one is the latest.
Numbered ==
    /\ IsFiniteSet(changes)
    /\ \A s \in Shows :
         /\ Latest(s) \in Versions(s) /\ Latest(s) <= Cardinality(changes)
         /\ \A v \in Versions(s) : v <= Latest(s)

\* Nothing bears a date to come.
Dated ==
    /\ \A c \in changes : c.day <= day
    /\ history.cursor <= day /\ history.began <= day
    /\ \A r \in Runs : proc[r].today <= day

\* Only a run about to commit has a payload in hand, and a run at work has a row.
Placed(r) ==
    /\ proc[r].at = "idle" => proc[r] = NoProcess
    /\ proc[r].at # "commit" => proc[r].show = {}
    /\ proc[r].at = "commit" => \E s \in Shows : proc[r].show = {s}
    /\ proc[r].at = "list" => runs[r].kind = "catalog_update"
    /\ proc[r].at # "idle" => runs[r].status # "none"
AllPlaced == \A r \in Runs : Placed(r)

\* Where there is an attempt at a full pass, its day is on record.
Begun ==
    /\ history.passed => history.began # Never
    /\ \A r \in Runs : runs[r].status # "none" /\ runs[r].kind = "catalog_initial"
                       => history.began # Never

\* Before the first attempt and the first cursor, all runs started cold, and what
\* they stamped is lost.
Guessed ==
    history.cursor = Never /\ history.began = Never =>
        /\ \A s \in Shows : mirror[s] # Unsynced => s \in lost
        /\ \A r \in Runs : proc[r].at \in Under => proc[r].cold

\* No step from here on makes the mirror miss the change unnoticed.
Safe(c) ==
    \/ c.show \in lost
    \/ mirror[c.show] >= c.version
    \/ /\ mirror[c.show] = Unsynced
       /\ \A r \in Runs : c.show \in proc[r].show =>
                             proc[r].cold \/ proc[r].version >= c.version

\* What a cursor, and the day a delta falls back on without one, step over.
CursorHolds == \A c \in changes : c.day < history.cursor => Safe(c)

BeganHolds ==
    history.cursor = Never => \A c \in changes : c.day < history.began => Safe(c)

\* A delta answers for every change before its day: it is safe, or the run has
\* its show before it, in hand, or counted as failed.
Pending(r) ==
    IF proc[r].at = "list" THEN Changed(proc[r].from, proc[r].today)
    ELSE proc[r].todo

Answers(r, c) ==
    \/ Safe(c)
    \/ c.show \in Pending(r)
    \/ c.show \in proc[r].skipped
    \/ c.show \in proc[r].show /\ proc[r].version >= c.version

DeltaHolds(r) ==
    runs[r].kind = "catalog_update" /\ proc[r].at \in Under =>
        \A c \in changes : c.day < proc[r].today => Answers(r, c)
DeltasHold == \A r \in Runs : DeltaHolds(r)

\* A full pass answers for every show in the same way.
Reaches(r, s) ==
    mirror[s] # Unsynced \/ s \in proc[r].todo \cup proc[r].show \cup proc[r].skipped

PassHolds(r) ==
    runs[r].kind = "catalog_initial" /\ proc[r].at \in Under =>
        \A s \in Shows : Reaches(r, s)
PassesHold == \A r \in Runs : PassHolds(r)

IInv ==
    /\ TypeOK /\ Numbered /\ Dated /\ AllPlaced /\ Begun /\ Guessed
    /\ CursorHolds /\ BeganHolds /\ DeltasHold /\ PassesHold /\ PassCovers
-----------------------------------------------------------------------------
(* What every step relies on                                               *)

LEMMA Bounds ==
  /\ MaxDay \in Nat /\ MaxChanges \in Nat
  /\ \A t \in Thresholds : t \in Nat /\ t >= 1
BY CatalogAssumption

LEMMA Rolling ==
  ASSUME TypeOK, Numbered, NEW s \in Shows
  PROVE  /\ Latest(s) \in 0 .. MaxChanges
         /\ \A c \in changes : c.show = s => c.version <= Latest(s)
<1>1. \A c \in changes : c.version \in 1 .. MaxChanges
  BY DEF TypeOK
<1>2. Versions(s) \subseteq 0 .. MaxChanges
  BY <1>1, Bounds DEF Versions
<1>3. \A c \in changes : c.show = s => c.version \in Versions(s)
  BY DEF Versions
<1> QED BY <1>2, <1>3 DEF Numbered

\* The rest of the state aside, a step that takes no show in hand and lets
\* none go behind keeps every change safe.
LEMMA SafeKept ==
  ASSUME IInv, NEW c \in changes, Safe(c),
         mirror' = mirror, lost \subseteq lost',
         \A q \in Runs : c.show \in proc'[q].show =>
            \/ c.show \in proc[q].show /\ proc'[q].cold = proc[q].cold
                                       /\ proc'[q].version = proc[q].version
            \/ proc'[q].version >= c.version
  PROVE  Safe(c)'
BY DEF Safe

LEMMA IInvInit == Init => IInv
<1> SUFFICES ASSUME Init PROVE IInv
  OBVIOUS
<1> USE Bounds
<1>1. TypeOK
  BY DEF Init, TypeOK, History, Row, NoRow, Process, NoProcess, Places, Kinds,
         Statuses, Day, Unsynced, Never
<1>2. Numbered
  <2>1. \A s \in Shows : Versions(s) = {0}
    BY DEF Init, Versions
  <2>2. \A s \in Shows : Latest(s) = 0
    BY <2>1 DEF Latest
  <2>3. IsFiniteSet(changes) /\ Cardinality(changes) = 0
    BY FS_EmptySet DEF Init
  <2> QED BY <2>1, <2>2, <2>3 DEF Numbered
<1>3. \A r \in Runs : proc[r] = NoProcess
  BY DEF Init
<1>4. Dated /\ AllPlaced /\ Begun /\ Guessed
  BY <1>3 DEF Dated, AllPlaced, Placed, Begun, Guessed, Init, NoProcess, NoRow, Never, Under, Unsynced
<1>5. CursorHolds /\ BeganHolds /\ DeltasHold
  BY DEF Init, CursorHolds, BeganHolds, DeltasHold, DeltaHolds
<1>6. PassesHold /\ PassCovers
  BY <1>3 DEF Init, PassesHold, PassHolds, PassCovers, NoProcess, Under
<1> QED BY <1>1, <1>2, <1>4, <1>5, <1>6 DEF IInv

-----------------------------------------------------------------------------
(* Steps of one run that leave the mirror and the cursor alone             *)

LEMMA TypeStep ==
  ASSUME IInv, NEW r \in Runs, proc' \in [Runs -> Process],
         UNCHANGED <<threshold, day, changes, mirror, history>>,
         runs' \in [Runs -> Row], lost' \subseteq Shows,
         proc'[r].failing < threshold,
         \A q \in Runs \ {r} : proc'[q] = proc[q]
  PROVE  TypeOK'
BY DEF IInv, TypeOK, History, Day

\* What the runs of a state owe each other is nothing: a step of one run that
\* leaves the mirror alone keeps the invariant if it keeps its own part of it.
LEMMA OneRun ==
  ASSUME IInv, NEW r \in Runs, proc' \in [Runs -> Process],
         UNCHANGED <<threshold, day, changes, mirror, history>>,
         runs' \in [Runs -> Row], lost \subseteq lost', lost' \subseteq Shows,
         proc'[r].failing < threshold,
         \A q \in Runs \ {r} : proc'[q] = proc[q] /\ runs'[q] = runs[q],
         Placed(r)', proc'[r].today <= day,
         runs'[r].status # "none" => /\ runs[r].status # "none"
                                     /\ runs'[r].kind = runs[r].kind,
         history.cursor = Never /\ history.began = Never =>
            (proc'[r].at \in Under => proc'[r].cold),
         \A c \in changes : c.show \in proc'[r].show =>
            \/ c.show \in proc[r].show /\ proc'[r].cold = proc[r].cold
                                       /\ proc'[r].version = proc[r].version
            \/ proc'[r].version >= c.version,
         (\A c \in changes : Safe(c) => Safe(c)') => DeltaHolds(r)',
         PassHolds(r)'
  PROVE  IInv'
<1>1. TypeOK'
  BY TypeStep
<1>2. Numbered' /\ Dated'
  BY DEF IInv, Numbered, Dated, Latest, Versions
<1>3. AllPlaced'
  BY DEF IInv, AllPlaced, Placed
<1>4. Begun'
  BY DEF IInv, Begun
<1>5. Guessed'
  BY DEF IInv, Guessed
<1>6. \A c \in changes : Safe(c) => Safe(c)'
  <2> SUFFICES ASSUME NEW c \in changes, Safe(c) PROVE Safe(c)'
    OBVIOUS
  <2> QED BY SafeKept
<1>7. CursorHolds' /\ BeganHolds'
  BY <1>6 DEF IInv, CursorHolds, BeganHolds
<1>8. DeltasHold'
  <2> SUFFICES ASSUME NEW q \in Runs \ {r} PROVE DeltaHolds(q)'
    BY <1>6 DEF DeltasHold
  <2>1. DeltaHolds(q)
    BY DEF IInv, DeltasHold
  <2>2. proc'[q] = proc[q] /\ runs'[q] = runs[q]
    OBVIOUS
  <2>3. \A c \in changes : Answers(q, c) => Answers(q, c)'
    BY <2>2, <1>6 DEF Answers, Pending, Changed
  <2> QED BY <2>1, <2>2, <2>3 DEF DeltaHolds
<1>9. PassesHold'
  BY DEF IInv, PassesHold, PassHolds, Reaches
<1>10. PassCovers'
  BY DEF IInv, PassCovers
<1> QED
  BY <1>1, <1>2, <1>3, <1>4, <1>5, <1>7, <1>8, <1>9, <1>10 DEF IInv

\* A run that is over, however it ends short of succeeding.
LEMMA RunOver ==
  ASSUME IInv, NEW r \in Runs,
         UNCHANGED <<threshold, day, changes, mirror, history, lost>>,
         proc' = [proc EXCEPT ![r] = NoProcess],
         runs' = runs \/ runs' = [runs EXCEPT ![r] = NoRow]
  PROVE  IInv'
<1> USE Bounds
<1>1. NoProcess \in Process /\ NoRow \in Row
  BY DEF NoProcess, Process, Places, Day, NoRow, Row, Kinds, Statuses
<1>2. threshold \in Nat /\ threshold >= 1 /\ day \in Nat
  BY DEF IInv, TypeOK, Day
<1>3. /\ proc' \in [Runs -> Process] /\ runs' \in [Runs -> Row]
      /\ proc'[r] = NoProcess
      /\ \A q \in Runs \ {r} : proc'[q] = proc[q] /\ runs'[q] = runs[q]
  BY <1>1 DEF IInv, TypeOK
<1>4. NoProcess.at = "idle" /\ NoProcess.show = {} /\ NoProcess.today = 0
      /\ NoProcess.failing = 0
  BY DEF NoProcess
<1>5. Placed(r)'
  BY <1>3, <1>4 DEF Placed
<1>6. runs'[r].status # "none" => runs[r].status # "none" /\ runs'[r].kind = runs[r].kind
  BY DEF NoRow, IInv, TypeOK
<1>7. DeltaHolds(r)' /\ PassHolds(r)'
  BY <1>3, <1>4 DEF DeltaHolds, PassHolds, Under
<1>8. lost \subseteq Shows
  BY DEF IInv, TypeOK
<1> QED
  BY <1>2, <1>3, <1>4, <1>5, <1>6, <1>7, <1>8, OneRun DEF Under

LEMMA EndSteps ==
  ASSUME IInv, NEW r \in Runs, Raise(r) \/ Die(r)
  PROVE  IInv'
BY RunOver DEF Raise, Die, Finalized

LEMMA ExpireStep ==
  ASSUME IInv, NEW r \in Runs, Expire(r)
  PROVE  IInv'
<1>1. proc[r] = NoProcess
  BY DEF IInv, AllPlaced, Placed, Expire
<1>2. proc' = [proc EXCEPT ![r] = NoProcess]
  BY <1>1 DEF Expire, IInv, TypeOK
<1> QED BY <1>2, RunOver DEF Expire

\* StartDate answers for the days before it.
LEMMA StartDateHolds ==
  ASSUME IInv, ~ColdStart
  PROVE  /\ StartDate \in Day /\ StartDate <= day
         /\ \A c \in changes : c.day < StartDate => Safe(c)
<1> USE Bounds
<1>1. day \in Day /\ history.cursor \in Day \cup {Never} /\ history.began \in Day \cup {Never}
  BY DEF IInv, TypeOK, History
<1>2. CASE history.cursor # Never
  BY <1>1, <1>2 DEF StartDate, ColdStart, IInv, Dated, CursorHolds
<1>3. CASE history.cursor = Never
  <2>1. history.passed /\ history.began # Never
    BY <1>3 DEF ColdStart, IInv, Begun
  <2>2. StartDate = history.began
    BY <2>1, <1>3 DEF StartDate, ColdStart
  <2> QED BY <1>1, <1>3, <2>1, <2>2 DEF IInv, Dated, BeganHolds
<1> QED BY <1>2, <1>3

LEMMA ResolveStep ==
  ASSUME IInv, NEW r \in Runs, Resolve(r)
  PROVE  IInv'
<1> USE Bounds
<1> DEFINE x == [proc[r] EXCEPT !.at = "list", !.today = day,
                                !.from = StartDate, !.cold = ColdStart]
<1>1. proc[r] \in Process /\ day \in Day /\ runs \in [Runs -> Row] /\ lost \subseteq Shows
      /\ proc \in [Runs -> Process]
  BY DEF IInv, TypeOK
<1>2. StartDate \in -1 .. MaxDay
  <2>1. CASE ColdStart
    BY <1>1, <2>1 DEF StartDate, Day
  <2>2. CASE ~ColdStart
    BY <2>2, StartDateHolds DEF Day
  <2> QED BY <2>1, <2>2
<1>3. x \in Process /\ x.at = "list" /\ x.today = day /\ x.from = StartDate
      /\ x.cold = ColdStart /\ x.show = proc[r].show /\ x.failing = proc[r].failing
  BY <1>1, <1>2 DEF Process, Places, ColdStart
<1>4. proc' = [proc EXCEPT ![r] = x]
  BY <1>1 DEF Resolve
<1> HIDE DEF x
<1>5. proc' \in [Runs -> Process] /\ proc'[r] = x
      /\ \A q \in Runs \ {r} : proc'[q] = proc[q]
  BY <1>1, <1>3, <1>4
<1>6. x.show = {}
  BY <1>3 DEF IInv, AllPlaced, Placed, Resolve
<1>7. UNCHANGED <<threshold, day, changes, mirror, history, runs>>
      /\ lost \subseteq lost' /\ lost' \subseteq Shows
  <2>1. Held \subseteq Shows
    BY <1>1 DEF Process, Held
  <2> QED BY <1>1, <2>1 DEF Resolve
<1>8. Placed(r)'
  BY <1>3, <1>5, <1>6, <1>7 DEF Placed, Resolve, IInv, AllPlaced
<1>9. \A c \in changes : c.day \in Day /\ c.show \in Shows /\ c.version \in 1 .. MaxChanges
  BY DEF IInv, TypeOK
<1>10. ASSUME \A c \in changes : Safe(c) => Safe(c)',
              NEW c \in changes, c.day < day
       PROVE  Answers(r, c)'
  <2>1. CASE ColdStart
    <3>1. CASE c.show \in Held
      BY <2>1, <3>1 DEF Resolve, Answers, Safe
    <3>2. CASE c.show \notin Held
      <4>1. mirror[c.show] = Unsynced /\ \A q \in Runs : c.show \notin proc[q].show
        BY <1>9, <3>2 DEF Held
      <4>2. Safe(c)
        BY <4>1 DEF Safe
      <4> QED BY <4>2, <1>10 DEF Answers
    <3> QED BY <3>1, <3>2
  <2>2. CASE ~ColdStart
    <3>1. CASE c.day < StartDate
      BY <2>2, <3>1, <1>10, StartDateHolds DEF Answers
    <3>2. CASE ~(c.day < StartDate)
      <4>1. StartDate < day /\ StartDate <= c.day /\ c.day <= day
        BY <1>1, <1>9, <1>10, <2>2, <3>2, StartDateHolds DEF Day
      <4>2. c.show \in Changed(StartDate, day)
        BY <4>1 DEF Changed
      <4>3. c.show \in Pending(r)'
        BY <4>2, <1>3, <1>5, <1>7 DEF Pending, Changed
      <4> QED BY <4>3 DEF Answers
    <3> QED BY <3>1, <3>2
  <2> QED BY <2>1, <2>2
<1>11. (\A c \in changes : Safe(c) => Safe(c)') => DeltaHolds(r)'
  BY <1>3, <1>5, <1>7, <1>10 DEF DeltaHolds
<1>12. PassHolds(r)'
  BY <1>7 DEF PassHolds, Resolve
<1>13. history.cursor = Never /\ history.began = Never => ColdStart
  BY DEF IInv, Begun, ColdStart
<1>14. x.failing < threshold /\ x.today <= day
  BY <1>1, <1>3 DEF IInv, TypeOK, Day
<1> QED
  BY <1>3, <1>5, <1>6, <1>7, <1>8, <1>11, <1>12, <1>13, <1>14, <1>1, OneRun

LEMMA ListChangesStep ==
  ASSUME IInv, NEW r \in Runs, ListChanges(r)
  PROVE  IInv'
<1> USE Bounds
<1> DEFINE x == [proc[r] EXCEPT !.at = "loop", !.from = 0,
                                !.todo = Changed(proc[r].from, proc[r].today)]
<1>1. proc[r] \in Process /\ runs \in [Runs -> Row] /\ lost \subseteq Shows
      /\ proc \in [Runs -> Process]
  BY DEF IInv, TypeOK
<1>2. Changed(proc[r].from, proc[r].today) \subseteq Shows
  BY DEF Changed, IInv, TypeOK
<1>3. x \in Process /\ x.at = "loop" /\ x.today = proc[r].today
      /\ x.todo = Changed(proc[r].from, proc[r].today) /\ x.version = proc[r].version
      /\ x.cold = proc[r].cold /\ x.show = proc[r].show /\ x.failing = proc[r].failing
      /\ x.skipped = proc[r].skipped
  <2>1. 0 \in -1 .. MaxDay /\ Changed(proc[r].from, proc[r].today) \in SUBSET Shows
    BY <1>2
  <2> HIDE DEF Changed
  <2>2. x \in Process
    BY <1>1, <2>1 DEF Process, Places
  <2> QED BY <1>1, <2>2 DEF Process
<1>4. proc' = [proc EXCEPT ![r] = x]
  BY <1>1 DEF ListChanges
<1> HIDE DEF x
<1>5. proc' \in [Runs -> Process] /\ proc'[r] = x
      /\ \A q \in Runs \ {r} : proc'[q] = proc[q]
  BY <1>1, <1>3, <1>4
<1>6. x.show = {} /\ runs[r].kind = "catalog_update" /\ runs[r].status # "none"
  BY <1>3 DEF IInv, AllPlaced, Placed, ListChanges
<1>7. UNCHANGED <<threshold, day, changes, mirror, history, runs, lost>>
  BY DEF ListChanges
<1>8. Placed(r)'
  BY <1>3, <1>5, <1>6, <1>7 DEF Placed
<1>9. \A c \in changes : c.day < x.today /\ (Safe(c) => Safe(c)') => Answers(r, c)'
  <2>1. \A c \in changes : c.day < x.today => Answers(r, c)
    BY <1>3, <1>6 DEF IInv, DeltasHold, DeltaHolds, Under, ListChanges
  <2>2. Pending(r) = x.todo /\ Pending(r)' = x.todo
    BY <1>3, <1>5 DEF Pending, ListChanges
  <2> QED BY <1>3, <1>5, <2>1, <2>2 DEF Answers
<1>10. (\A c \in changes : Safe(c) => Safe(c)') => DeltaHolds(r)'
  BY <1>5, <1>7, <1>9 DEF DeltaHolds
<1>11. PassHolds(r)'
  BY <1>6, <1>7 DEF PassHolds
<1>12. history.cursor = Never /\ history.began = Never => x.cold
  BY <1>3 DEF IInv, Guessed, Under, ListChanges
<1>13. x.failing < threshold /\ x.today <= day
  BY <1>1, <1>3 DEF IInv, TypeOK, Dated
<1> QED
  BY <1>1, <1>3, <1>5, <1>6, <1>7, <1>8, <1>10, <1>11, <1>12, <1>13, OneRun

LEMMA ListExportStep ==
  ASSUME IInv, NEW r \in Runs, ListExport(r)
  PROVE  IInv'
<1> USE Bounds
<1> DEFINE x == [proc[r] EXCEPT !.at = "loop",
                                !.todo = {s \in Shows : mirror[s] = Unsynced}]
<1>1. proc[r] \in Process /\ runs \in [Runs -> Row] /\ lost \subseteq Shows
      /\ proc \in [Runs -> Process]
  BY DEF IInv, TypeOK
<1>2. x \in Process /\ x.at = "loop" /\ x.today = proc[r].today
      /\ x.todo = {s \in Shows : mirror[s] = Unsynced}
      /\ x.show = proc[r].show /\ x.failing = proc[r].failing
  BY <1>1 DEF Process, Places
<1>3. proc' = [proc EXCEPT ![r] = x]
  BY <1>1 DEF ListExport
<1> HIDE DEF x
<1>4. proc' \in [Runs -> Process] /\ proc'[r] = x
      /\ \A q \in Runs \ {r} : proc'[q] = proc[q]
  BY <1>1, <1>2, <1>3
<1>5. x.show = {} /\ runs[r].kind = "catalog_initial" /\ runs[r].status # "none"
  BY <1>2 DEF IInv, AllPlaced, Placed, ListExport
<1>6. UNCHANGED <<threshold, day, changes, mirror, history, runs, lost>>
  BY DEF ListExport
<1>7. Placed(r)'
  BY <1>2, <1>4, <1>5, <1>6 DEF Placed
<1>8. DeltaHolds(r)'
  BY <1>5, <1>6 DEF DeltaHolds
<1>9. PassHolds(r)'
  BY <1>2, <1>4, <1>6 DEF PassHolds, Reaches
<1>10. history.began # Never
  BY <1>5 DEF IInv, Begun
<1>11. x.failing < threshold /\ x.today <= day
  BY <1>1, <1>2 DEF IInv, TypeOK, Dated
<1> QED
  BY <1>1, <1>2, <1>4, <1>5, <1>6, <1>7, <1>8, <1>9, <1>10, <1>11, OneRun

LEMMA FetchStep ==
  ASSUME IInv, NEW r \in Runs, Fetch(r)
  PROVE  IInv'
<1> USE Bounds
<1>0. PICK s \in proc[r].todo :
        proc' = [proc EXCEPT ![r].at = "commit", ![r].todo = @ \ {s},
                             ![r].show = {s}, ![r].version = Latest(s)]
  BY DEF Fetch
<1> DEFINE x == [proc[r] EXCEPT !.at = "commit", !.todo = @ \ {s},
                                !.show = {s}, !.version = Latest(s)]
<1>1. proc[r] \in Process /\ runs \in [Runs -> Row] /\ lost \subseteq Shows
      /\ proc \in [Runs -> Process] /\ s \in Shows
  BY DEF IInv, TypeOK, Process
<1>2. Latest(s) \in 0 .. MaxChanges /\ \A c \in changes : c.show = s => c.version <= Latest(s)
  BY <1>1, Rolling DEF IInv
<1>3. x \in Process /\ x.at = "commit" /\ x.today = proc[r].today
      /\ x.todo = proc[r].todo \ {s} /\ x.version = Latest(s)
      /\ x.cold = proc[r].cold /\ x.show = {s} /\ x.failing = proc[r].failing
      /\ x.skipped = proc[r].skipped
  <2>1. {s} \in SUBSET Shows /\ proc[r].todo \ {s} \in SUBSET Shows
    BY <1>1 DEF Process
  <2>2. x \in Process
    BY <1>1, <1>2, <2>1 DEF Process, Places
  <2> QED BY <1>1, <2>2 DEF Process
<1>4. proc' = [proc EXCEPT ![r] = x]
  BY <1>0, <1>1
<1> HIDE DEF x
<1>5. proc' \in [Runs -> Process] /\ proc'[r] = x
      /\ \A q \in Runs \ {r} : proc'[q] = proc[q]
  BY <1>1, <1>3, <1>4
<1>6. UNCHANGED <<threshold, day, changes, mirror, history, runs, lost>> /\ proc[r].at = "loop"
  BY DEF Fetch
<1>7. Placed(r)'
  BY <1>1, <1>3, <1>5, <1>6 DEF Placed, IInv, AllPlaced
<1>8. \A c \in changes : c.show = s => c.version <= x.version
  BY <1>2, <1>3
<1>9. \A c \in changes : c.show \in x.show => x.version >= c.version
  <2> SUFFICES ASSUME NEW c \in changes, c.show \in x.show PROVE x.version >= c.version
    OBVIOUS
  <2>1. c.version \in Nat /\ x.version \in Nat
    BY <1>2, <1>3 DEF IInv, TypeOK
  <2> QED BY <1>3, <1>8, <2>1
<1>10. ASSUME \A c \in changes : Safe(c) => Safe(c)' PROVE DeltaHolds(r)'
  <2> SUFFICES ASSUME runs[r].kind = "catalog_update", NEW c \in changes, c.day < x.today
               PROVE  Answers(r, c)'
    BY <1>5, <1>6 DEF DeltaHolds
  <2>1. Answers(r, c)
    BY <1>3, <1>6 DEF IInv, DeltasHold, DeltaHolds, Under
  <2>2. Pending(r) = proc[r].todo /\ Pending(r)' = x.todo
    BY <1>3, <1>5, <1>6 DEF Pending
  <2>3. CASE c.show = s
    BY <2>3, <1>3, <1>5, <1>9 DEF Answers
  <2>4. CASE c.show # s
    <3>1. c.show \notin proc[r].show
      BY <1>6 DEF IInv, AllPlaced, Placed
    <3> QED BY <2>1, <2>2, <2>4, <3>1, <1>3, <1>5, <1>10 DEF Answers
  <2> QED BY <2>3, <2>4
<1>11. PassHolds(r)'
  <2> SUFFICES ASSUME runs[r].kind = "catalog_initial", NEW p \in Shows PROVE Reaches(r, p)'
    BY <1>6 DEF PassHolds
  <2>1. Reaches(r, p)
    BY <1>6 DEF IInv, PassesHold, PassHolds, Under
  <2>2. proc[r].show = {}
    BY <1>6 DEF IInv, AllPlaced, Placed
  <2> QED BY <2>1, <2>2, <1>3, <1>5, <1>6 DEF Reaches
<1>12. history.cursor = Never /\ history.began = Never => x.cold
  BY <1>3, <1>6 DEF IInv, Guessed, Under
<1>13. x.failing < threshold /\ x.today <= day
  BY <1>1, <1>3 DEF IInv, TypeOK, Dated
<1> QED
  BY <1>1, <1>3, <1>5, <1>6, <1>7, <1>9, <1>10, <1>11, <1>12, <1>13, OneRun

\* A fetch that fails leaves its show among the skipped.
LEMMA SkipKeeps ==
  ASSUME IInv, NEW r \in Runs, proc[r].at = "commit", NEW n \in Nat, n < threshold,
         UNCHANGED <<threshold, day, changes, mirror, history, lost>>,
         runs' = Progress(r),
         proc' = [proc EXCEPT ![r] = [Skipped(r) EXCEPT !.failing = n]]
  PROVE  IInv'
<1> USE Bounds
<1> DEFINE x == [Skipped(r) EXCEPT !.failing = n]
<1>1. proc[r] \in Process /\ runs \in [Runs -> Row] /\ lost \subseteq Shows
      /\ proc \in [Runs -> Process] /\ runs[r] \in Row
  BY DEF IInv, TypeOK
<1>2. x \in Process /\ x.at = "loop" /\ x.today = proc[r].today
      /\ x.todo = proc[r].todo /\ x.show = {} /\ x.cold = proc[r].cold
      /\ x.failing = n /\ x.skipped = proc[r].skipped \cup proc[r].show
  <2>1. {} \in SUBSET Shows /\ proc[r].skipped \cup proc[r].show \in SUBSET Shows
        /\ 0 \in 0 .. MaxChanges
    BY <1>1 DEF Process
  <2>2. Landed(r) \in Process /\ Landed(r).skipped = proc[r].skipped
        /\ Landed(r).at = "loop" /\ Landed(r).today = proc[r].today
        /\ Landed(r).todo = proc[r].todo /\ Landed(r).show = {}
        /\ Landed(r).cold = proc[r].cold
    <3>1. Landed(r) \in Process
      BY <1>1, <2>1 DEF Process, Places, Landed
    <3> QED BY <1>1, <3>1 DEF Process, Landed
  <2> DEFINE l == Landed(r)
  <2>3. x = [l EXCEPT !.skipped = @ \cup proc[r].show, !.failing = n]
    BY <1>1, <2>2 DEF Skipped, Process
  <2> HIDE DEF l
  <2>4. l \in Process /\ l.skipped = proc[r].skipped
        /\ l.at = "loop" /\ l.today = proc[r].today
        /\ l.todo = proc[r].todo /\ l.show = {} /\ l.cold = proc[r].cold
    BY <2>2 DEF l
  <2> HIDE DEF x
  <2>5. x \in Process
    BY <2>1, <2>3, <2>4 DEF Process
  <2> QED BY <2>3, <2>4, <2>5 DEF Process
<1>3. proc' = [proc EXCEPT ![r] = x]
  OBVIOUS
<1> HIDE DEF x
<1>4. proc' \in [Runs -> Process] /\ proc'[r] = x
      /\ \A q \in Runs \ {r} : proc'[q] = proc[q]
  BY <1>1, <1>2, <1>3
<1>5. runs' \in [Runs -> Row] /\ runs'[r].status = runs[r].status
      /\ runs'[r].kind = runs[r].kind /\ \A q \in Runs \ {r} : runs'[q] = runs[q]
  BY <1>1 DEF Progress, Row
<1>6. Placed(r)'
  BY <1>2, <1>4, <1>5 DEF Placed, IInv, AllPlaced
<1>7. ASSUME \A c \in changes : Safe(c) => Safe(c)' PROVE DeltaHolds(r)'
  <2> SUFFICES ASSUME runs[r].kind = "catalog_update", NEW c \in changes, c.day < x.today
               PROVE  Answers(r, c)'
    BY <1>4, <1>5 DEF DeltaHolds
  <2>1. Answers(r, c)
    BY <1>2 DEF IInv, DeltasHold, DeltaHolds, Under
  <2>2. Pending(r) = proc[r].todo /\ Pending(r)' = x.todo
    BY <1>2, <1>4 DEF Pending
  <2>3. c.show \in proc[r].show \cup proc[r].skipped => c.show \in x.skipped
    BY <1>2
  <2>4. CASE Safe(c)
    BY <2>4, <1>7 DEF Answers
  <2>5. CASE c.show \in Pending(r)
    BY <2>2, <2>5, <1>2 DEF Answers
  <2>6. CASE c.show \in proc[r].show \cup proc[r].skipped
    BY <2>3, <2>6, <1>4 DEF Answers
  <2> QED BY <2>1, <2>4, <2>5, <2>6 DEF Answers
<1>8. PassHolds(r)'
  BY <1>2, <1>4, <1>5 DEF PassHolds, Reaches, IInv, PassesHold, Under
<1>9. history.cursor = Never /\ history.began = Never => x.cold
  BY <1>2 DEF IInv, Guessed, Under
<1>10. x.failing < threshold /\ x.today <= day
  BY <1>1, <1>2 DEF IInv, TypeOK, Dated
<1> QED
  BY <1>1, <1>2, <1>4, <1>5, <1>6, <1>7, <1>8, <1>9, <1>10, OneRun

LEMMA FailSteps ==
  ASSUME IInv, NEW r \in Runs, FetchGone(r) \/ FetchFails(r)
  PROVE  IInv'
<1> USE Bounds
<1>1. proc[r] \in Process /\ proc \in [Runs -> Process] /\ proc[r].failing < threshold
      /\ threshold \in Nat /\ proc[r].failing \in Nat
  BY DEF IInv, TypeOK, Process
<1>2. Skipped(r).failing = proc[r].failing /\ Skipped(r) = [Skipped(r) EXCEPT !.failing = proc[r].failing]
  BY <1>1 DEF Skipped, Landed, Process
<1>3. CASE FetchGone(r)
  BY <1>1, <1>2, <1>3, SkipKeeps DEF FetchGone
<1>4. CASE FetchFails(r) /\ proc[r].failing + 1 >= threshold
  BY <1>4, RunOver DEF FetchFails, Finalized
<1>5. CASE FetchFails(r) /\ ~(proc[r].failing + 1 >= threshold)
  <2>1. proc' = [proc EXCEPT ![r] = [Skipped(r) EXCEPT !.failing = proc[r].failing + 1]]
    BY <1>2, <1>5 DEF FetchFails
  <2>2. proc[r].at = "commit" /\ runs' = Progress(r)
        /\ UNCHANGED <<threshold, day, changes, mirror, history, lost>>
    BY <1>5 DEF FetchFails
  <2>3. proc[r].failing + 1 \in Nat /\ proc[r].failing + 1 < threshold
    BY <1>1, <1>5
  <2> HIDE DEF Skipped, Progress
  <2> QED BY <2>1, <2>2, <2>3, SkipKeeps
<1> QED BY <1>3, <1>4, <1>5

-----------------------------------------------------------------------------
(* Commit, Finish and Start                                                *)

\* The transaction of one show: what a stale, a latest and any other payload do
\* to what the mirror holds, and to what no run answers for.
Lands(r, s) ==
    /\ proc[r].show = {s} /\ proc[r].at = "commit"
    /\ mirror' \in [Shows -> {Unsynced} \cup 0 .. MaxChanges]
    /\ mirror'[s] = proc[r].version
    /\ \A p \in Shows \ {s} : mirror'[p] = mirror[p]
    /\ lost' \subseteq Shows /\ lost \subseteq lost' \cup {s} /\ lost' \subseteq lost \cup {s}
    /\ proc[r].version < mirror[s] \/ proc[r].cold => s \in lost'
    /\ s \in lost /\ s \notin lost' => proc[r].version = Latest(s)
    /\ proc' \in [Runs -> Process]
    /\ \A q \in Runs \ {r} : proc'[q] = proc[q]
    /\ proc'[r].at = "loop" /\ proc'[r].today = proc[r].today
    /\ proc'[r].todo = proc[r].todo /\ proc'[r].show = {}
    /\ proc'[r].cold = proc[r].cold /\ proc'[r].failing = 0
    /\ proc'[r].skipped = proc[r].skipped
    /\ runs' \in [Runs -> Row]
    /\ \A q \in Runs : runs'[q].status = runs[q].status /\ runs'[q].kind = runs[q].kind
    /\ UNCHANGED <<threshold, day, changes, history>>

LEMMA CommitFacts ==
  ASSUME IInv, NEW r \in Runs, Commit(r)
  PROVE  \E s \in Shows : Lands(r, s)
<1> USE Bounds
<1>1. proc[r] \in Process /\ proc \in [Runs -> Process] /\ runs \in [Runs -> Row]
      /\ mirror \in [Shows -> {Unsynced} \cup 0 .. MaxChanges] /\ lost \subseteq Shows
  BY DEF IInv, TypeOK
<1>2. PICK s \in Shows : proc[r].show = {s}
  BY DEF IInv, AllPlaced, Placed, Commit
<1>3. mirror' = Stamped(r, s) /\ lost' = Behind(r, s)
  BY <1>2 DEF Commit
<1>4. proc[r].version \in 0 .. MaxChanges
  BY <1>1 DEF Process
<1>5. /\ mirror' \in [Shows -> {Unsynced} \cup 0 .. MaxChanges]
      /\ mirror'[s] = proc[r].version
      /\ \A p \in Shows \ {s} : mirror'[p] = mirror[p]
  BY <1>1, <1>3, <1>4 DEF Stamped
<1>6. /\ lost' \subseteq Shows /\ lost \subseteq lost' \cup {s} /\ lost' \subseteq lost \cup {s}
      /\ proc[r].version < mirror[s] \/ proc[r].cold => s \in lost'
      /\ s \in lost /\ s \notin lost' => proc[r].version = Latest(s)
  <2>1. CASE proc[r].version < mirror[s] \/ proc[r].cold
    BY <2>1, <1>1, <1>3 DEF Behind
  <2>2. CASE ~(proc[r].version < mirror[s] \/ proc[r].cold) /\ proc[r].version = Latest(s)
    BY <2>2, <1>1, <1>3 DEF Behind
  <2>3. CASE ~(proc[r].version < mirror[s] \/ proc[r].cold) /\ proc[r].version # Latest(s)
    BY <2>3, <1>1, <1>3 DEF Behind
  <2> QED BY <2>1, <2>2, <2>3
<1> DEFINE x == [Landed(r) EXCEPT !.failing = 0]
<1>7. x \in Process /\ x.at = "loop" /\ x.today = proc[r].today
      /\ x.todo = proc[r].todo /\ x.show = {} /\ x.cold = proc[r].cold
      /\ x.failing = 0 /\ x.skipped = proc[r].skipped
  <2>1. {} \in SUBSET Shows /\ 0 \in 0 .. MaxChanges
    OBVIOUS
  <2>2. x \in Process
    BY <1>1, <2>1 DEF Process, Places, Landed
  <2> QED BY <1>1, <2>2 DEF Process, Landed
<1>8. proc' = [proc EXCEPT ![r] = x]
  BY DEF Commit
<1> HIDE DEF x
<1>9. /\ proc' \in [Runs -> Process] /\ proc'[r] = x
      /\ \A q \in Runs \ {r} : proc'[q] = proc[q]
  BY <1>1, <1>7, <1>8
<1>10. /\ runs' \in [Runs -> Row]
       /\ \A q \in Runs : runs'[q].status = runs[q].status /\ runs'[q].kind = runs[q].kind
  BY <1>1 DEF Commit, Progress, Row
<1>11. UNCHANGED <<threshold, day, changes, history>> /\ proc[r].at = "commit"
  BY DEF Commit
<1> QED BY <1>2, <1>5, <1>6, <1>7, <1>9, <1>10, <1>11 DEF Lands

LEMMA CommitStep ==
  ASSUME IInv, NEW r \in Runs, Commit(r)
  PROVE  IInv'
<1> USE Bounds
<1>0. PICK s \in Shows : Lands(r, s)
  BY CommitFacts
<1> USE DEF Lands
<1>1. \A c \in changes : c.show \in Shows /\ c.version \in 1 .. MaxChanges
  BY DEF IInv, TypeOK
<1>2. proc[r].version \in 0 .. MaxChanges /\ \A p \in Shows : mirror[p] \in {Unsynced} \cup 0 .. MaxChanges
  BY DEF IInv, TypeOK, Process
<1>3. TypeOK'
  <2>1. \A q \in Runs : proc'[q].failing < threshold
    BY <1>0, <1>2 DEF IInv, TypeOK
  <2>2. changes \subseteq [show : Shows, version : 1 .. MaxChanges, day : Day]
        /\ threshold \in Thresholds /\ day \in Day /\ history \in History
    BY DEF IInv, TypeOK
  <2> QED BY <1>0, <2>1, <2>2 DEF TypeOK
<1>4. Numbered'
  BY <1>0 DEF IInv, Numbered, Latest, Versions
<1>5. Dated'
  <2>1. \A q \in Runs : proc'[q].today = proc[q].today
    BY <1>0
  <2> QED BY <1>0, <2>1 DEF IInv, Dated
<1>6. AllPlaced'
  <2> SUFFICES ASSUME NEW q \in Runs PROVE Placed(q)'
    BY DEF AllPlaced
  <2>1. Placed(q) /\ Placed(r)
    BY DEF IInv, AllPlaced
  <2>2. CASE q = r
    BY <1>0, <2>1, <2>2 DEF Placed
  <2>3. CASE q # r
    BY <1>0, <2>1, <2>3 DEF Placed
  <2> QED BY <2>2, <2>3
<1>7. Begun'
  BY <1>0 DEF IInv, Begun
<1>8. Guessed'
  BY <1>0 DEF IInv, Guessed, Under
<1>9. \A c \in changes : Safe(c) => Safe(c)'
  <2> SUFFICES ASSUME NEW c \in changes, Safe(c) PROVE Safe(c)'
    OBVIOUS
  <2>1. CASE c.show # s
    <3>1. \A q \in Runs : c.show \in proc'[q].show =>
             c.show \in proc[q].show /\ proc'[q] = proc[q]
      BY <1>0
    <3> QED BY <1>0, <1>1, <2>1, <3>1 DEF Safe
  <2>2. CASE c.show = s
    <3>1. CASE s \in lost
      <4>1. CASE s \in lost'
        BY <4>1, <2>2 DEF Safe
      <4>2. CASE s \notin lost'
        <5>1. c.version <= Latest(s) /\ proc[r].version = Latest(s)
          BY <1>0, <2>2, <3>1, <4>2, Rolling DEF IInv
        <5> QED BY <1>0, <1>1, <1>2, <2>2, <5>1 DEF Safe
      <4> QED BY <4>1, <4>2
    <3>2. CASE s \notin lost /\ proc[r].cold
      BY <1>0, <2>2, <3>2 DEF Safe
    <3>3. CASE s \notin lost /\ ~proc[r].cold /\ mirror[s] >= c.version
      BY <1>0, <1>1, <1>2, <2>2, <3>3 DEF Safe, Unsynced
    <3>4. CASE s \notin lost /\ ~proc[r].cold /\ ~(mirror[s] >= c.version)
      <4>1. proc[r].version >= c.version
        BY <1>0, <2>2, <3>4 DEF Safe
      <4> QED BY <1>0, <2>2, <4>1 DEF Safe
    <3> QED BY <3>1, <3>2, <3>3, <3>4
  <2> QED BY <2>1, <2>2
<1>10. CursorHolds' /\ BeganHolds'
  BY <1>0, <1>9 DEF IInv, CursorHolds, BeganHolds
<1>11. DeltasHold'
  <2> SUFFICES ASSUME NEW q \in Runs, runs[q].kind = "catalog_update", proc'[q].at \in Under,
                      NEW c \in changes, c.day < proc'[q].today
               PROVE  Answers(q, c)'
    BY <1>0 DEF DeltasHold, DeltaHolds
  <2>1. Answers(q, c)
    BY <1>0 DEF IInv, DeltasHold, DeltaHolds, Under
  <2>2. CASE q # r
    <3>1. Pending(q)' = Pending(q) /\ proc'[q] = proc[q]
      BY <1>0, <2>2 DEF Pending, Changed
    <3> QED BY <1>9, <2>1, <3>1 DEF Answers
  <2>3. CASE q = r
    <3>1. Pending(q)' = Pending(q)
      BY <1>0, <2>3 DEF Pending
    <3>2. CASE c.show \in proc[q].show /\ proc[q].version >= c.version
      BY <1>0, <2>3, <3>2 DEF Answers, Safe
    <3>3. CASE ~(c.show \in proc[q].show /\ proc[q].version >= c.version)
      BY <1>0, <1>9, <2>1, <2>3, <3>1, <3>3 DEF Answers
    <3> QED BY <3>2, <3>3
  <2> QED BY <2>2, <2>3
<1>12. \A p \in Shows : mirror[p] # Unsynced => mirror'[p] # Unsynced
  BY <1>0, <1>2 DEF Unsynced
<1>13. PassesHold'
  <2> SUFFICES ASSUME NEW q \in Runs, runs[q].kind = "catalog_initial", proc'[q].at \in Under,
                      NEW p \in Shows
               PROVE  Reaches(q, p)'
    BY <1>0 DEF PassesHold, PassHolds
  <2>1. Reaches(q, p)
    BY <1>0 DEF IInv, PassesHold, PassHolds, Under
  <2>2. p = s => mirror'[p] # Unsynced
    BY <1>0, <1>2 DEF Unsynced
  <2>3. CASE q = r
    BY <1>0, <1>12, <2>1, <2>2, <2>3 DEF Reaches
  <2>4. CASE q # r
    BY <1>0, <1>12, <2>1, <2>4 DEF Reaches
  <2> QED BY <2>3, <2>4
<1>14. PassCovers'
  <2> SUFFICES ASSUME history.passed, NEW p \in Shows PROVE mirror'[p] # Unsynced \/ p \in lost'
    BY <1>0 DEF PassCovers
  <2>1. mirror[p] # Unsynced \/ p \in lost
    BY DEF IInv, PassCovers
  <2> QED BY <1>0, <1>2, <1>12, <2>1 DEF Unsynced
<1> QED
  BY <1>3, <1>4, <1>5, <1>6, <1>7, <1>8, <1>10, <1>11, <1>13, <1>14 DEF IInv

\* The cursor moves to the day of the delta, and what it skipped is owned up to.
LEMMA FinishStep ==
  ASSUME IInv, NEW r \in Runs, Finish(r)
  PROVE  IInv'
<1> USE Bounds
<1>1. proc[r] \in Process /\ proc \in [Runs -> Process] /\ runs \in [Runs -> Row]
      /\ history \in History /\ lost \subseteq Shows /\ mirror \in [Shows -> {Unsynced} \cup 0 .. MaxChanges]
  BY DEF IInv, TypeOK
<1>2. /\ proc[r].at = "loop" /\ proc[r].todo = {} /\ proc[r].show = {}
      /\ runs[r].status # "none" /\ proc[r].at \in Under
      /\ UNCHANGED <<threshold, day, changes, mirror>>
  BY DEF Finish, IInv, AllPlaced, Placed, Under
<1>3. NoProcess \in Process /\ NoRow \in Row
  BY DEF NoProcess, Process, Places, Day, NoRow, Row, Kinds, Statuses
<1>4. /\ proc' \in [Runs -> Process] /\ runs' \in [Runs -> Row]
      /\ proc'[r] = NoProcess /\ runs'[r] = NoRow
      /\ \A q \in Runs \ {r} : proc'[q] = proc[q] /\ runs'[q] = runs[q]
  BY <1>1, <1>3 DEF Finish, Finalized
<1>5. NoProcess.at = "idle" /\ NoProcess.show = {} /\ NoProcess.today = 0
      /\ NoProcess.failing = 0 /\ NoRow.status = "none"
  BY DEF NoProcess, NoRow
<1>6. /\ lost' = lost \cup {s \in proc[r].skipped : mirror[s] # Latest(s)}
      /\ lost \subseteq lost' /\ lost' \subseteq Shows
  BY <1>1 DEF Finish, Process
<1>7. /\ history' \in History /\ history'.began = history.began
      /\ runs[r].kind = "catalog_update" =>
            history'.cursor = proc[r].today /\ history'.passed = history.passed
      /\ runs[r].kind # "catalog_update" =>
            history'.cursor = history.cursor /\ history'.passed = TRUE
  <2>1. CASE runs[r].kind = "catalog_update"
    BY <2>1, <1>1 DEF Finish, History, Process
  <2>2. CASE runs[r].kind # "catalog_update"
    BY <2>2, <1>1 DEF Finish, History
  <2> QED BY <2>1, <2>2
<1>8. runs[r].kind \in Kinds /\ threshold \in Nat /\ threshold >= 1 /\ day \in Nat
      /\ proc[r].today \in Day
  BY <1>1 DEF Row, IInv, TypeOK, Day, Process
<1>9. TypeOK'
  <2>1. \A q \in Runs : proc'[q].failing < threshold
    BY <1>4, <1>5, <1>8 DEF IInv, TypeOK
  <2>2. changes \subseteq [show : Shows, version : 1 .. MaxChanges, day : Day]
        /\ threshold \in Thresholds /\ day \in Day
    BY DEF IInv, TypeOK
  <2> QED BY <1>1, <1>2, <1>4, <1>6, <1>7, <2>1, <2>2 DEF TypeOK
<1>10. Numbered'
  BY <1>2 DEF IInv, Numbered, Latest, Versions
<1>11. Dated'
  <2>1. \A q \in Runs : proc'[q].today <= day
    BY <1>4, <1>5, <1>8 DEF IInv, Dated
  <2>2. history'.cursor <= day
    BY <1>7 DEF IInv, Dated
  <2> QED BY <1>2, <1>7, <2>1, <2>2 DEF IInv, Dated
<1>12. AllPlaced'
  BY <1>4, <1>5 DEF IInv, AllPlaced, Placed
<1>13. Begun'
  <2>1. history'.passed => history'.began # Never
    BY <1>2, <1>7, <1>8 DEF IInv, Begun, Kinds
  <2> QED BY <2>1, <1>4, <1>5, <1>7 DEF IInv, Begun
<1>14. Guessed'
  <2> SUFFICES ASSUME history'.cursor = Never, history'.began = Never
               PROVE  /\ \A s \in Shows : mirror'[s] # Unsynced => s \in lost'
                      /\ \A q \in Runs : proc'[q].at \in Under => proc'[q].cold
    BY DEF Guessed
  <2>1. history.cursor = Never /\ history.began = Never
    BY <1>7, <1>8 DEF Day, Never
  <2> QED BY <1>2, <1>4, <1>5, <1>6, <2>1 DEF IInv, Guessed, Under
<1>15. \A c \in changes : Safe(c) => Safe(c)'
  <2> SUFFICES ASSUME NEW c \in changes, Safe(c) PROVE Safe(c)'
    OBVIOUS
  <2>1. \A q \in Runs : c.show \in proc'[q].show =>
           c.show \in proc[q].show /\ proc'[q] = proc[q]
    BY <1>4, <1>5
  <2> QED BY <1>2, <1>6, <2>1, SafeKept
<1>16. ASSUME runs[r].kind = "catalog_update", NEW c \in changes, c.day < proc[r].today
       PROVE  Safe(c)'
  <2>1. Answers(r, c)
    BY <1>2, <1>16 DEF IInv, DeltasHold, DeltaHolds
  <2>2. CASE Safe(c)
    BY <2>2, <1>15
  <2>3. CASE ~Safe(c)
    <3>1. c.show \in proc[r].skipped
      BY <1>2, <2>1, <2>3 DEF Answers, Pending
    <3>2. CASE mirror[c.show] # Latest(c.show)
      BY <1>6, <3>1, <3>2 DEF Safe
    <3>3. CASE mirror[c.show] = Latest(c.show)
      <4>1. c.show \in Shows /\ c.version \in Nat
        BY DEF IInv, TypeOK
      <4>2. mirror[c.show] >= c.version
        BY <3>3, <4>1, Rolling DEF IInv
      <4> QED BY <2>3, <4>2 DEF Safe
    <3> QED BY <3>2, <3>3
  <2> QED BY <2>2, <2>3
<1>17. CursorHolds' /\ BeganHolds'
  <2>1. CASE runs[r].kind = "catalog_update"
    <3>1. history'.cursor # Never
      BY <1>7, <1>8, <2>1 DEF Day, Never
    <3> QED BY <1>2, <1>7, <1>16, <2>1, <3>1 DEF CursorHolds, BeganHolds
  <2>2. CASE runs[r].kind # "catalog_update"
    BY <1>2, <1>7, <1>15, <2>2 DEF IInv, CursorHolds, BeganHolds
  <2> QED BY <2>1, <2>2
<1>18. DeltasHold'
  <2> SUFFICES ASSUME NEW q \in Runs PROVE DeltaHolds(q)'
    BY DEF DeltasHold
  <2>1. CASE q = r
    BY <2>1, <1>4, <1>5 DEF DeltaHolds, Under
  <2>2. CASE q # r
    <3>1. proc'[q] = proc[q] /\ runs'[q] = runs[q] /\ Pending(q)' = Pending(q)
      BY <2>2, <1>2, <1>4 DEF Pending, Changed
    <3>2. \A c \in changes : Answers(q, c) => Answers(q, c)'
      BY <3>1, <1>15 DEF Answers
    <3> QED BY <3>1, <3>2, <1>2 DEF DeltaHolds, IInv, DeltasHold
  <2> QED BY <2>1, <2>2
<1>19. PassesHold'
  BY <1>2, <1>4, <1>5 DEF IInv, PassesHold, PassHolds, Reaches, Under
<1>20. PassCovers'
  <2> SUFFICES ASSUME history'.passed, NEW s \in Shows
               PROVE  mirror[s] # Unsynced \/ s \in lost'
    BY <1>2 DEF PassCovers
  <2>1. CASE runs[r].kind = "catalog_update"
    BY <2>1, <1>6, <1>7 DEF IInv, PassCovers
  <2>2. CASE runs[r].kind # "catalog_update"
    <3>1. Reaches(r, s)
      BY <2>2, <1>2, <1>8 DEF IInv, PassesHold, PassHolds, Kinds
    <3>2. Latest(s) \in 0 .. MaxChanges
      BY Rolling DEF IInv
    <3>3. mirror[s] = Unsynced => mirror[s] # Latest(s)
      BY <3>2 DEF Unsynced
    <3> QED BY <1>2, <1>6, <3>1, <3>3 DEF Reaches
  <2> QED BY <2>1, <2>2
<1> QED
  BY <1>9, <1>10, <1>11, <1>12, <1>13, <1>14, <1>17, <1>18, <1>19, <1>20 DEF IInv

\* The first attempt: whatever is stamped by then is lost, and whatever is in
\* hand is of a run that started cold.
LEMMA StartStep ==
  ASSUME IInv, NEW r \in Runs, NEW kind \in Kinds, Start(r, kind)
  PROVE  IInv'
<1> USE Bounds
<1>1. proc[r] \in Process /\ proc \in [Runs -> Process] /\ runs \in [Runs -> Row]
      /\ history \in History /\ lost \subseteq Shows /\ day \in Day
  BY DEF IInv, TypeOK
<1>2. /\ runs[r].status = "none" /\ UNCHANGED <<threshold, day, changes, mirror, lost>>
      /\ proc[r] = NoProcess
  BY DEF Start, IInv, AllPlaced, Placed
<1> DEFINE x == [NoProcess EXCEPT !.at = "start"]
<1>3. NoProcess \in Process
  BY <1>1, <1>2
<1>4. x \in Process /\ x.at = "start" /\ x.show = {} /\ x.today = 0 /\ x.failing = 0
  <2>1. x \in Process
    BY <1>3 DEF Process, Places
  <2> QED BY <2>1 DEF Process, NoProcess
<1>5. proc' = [proc EXCEPT ![r] = x]
  BY <1>1, <1>2 DEF Start
<1> HIDE DEF x
<1>6. /\ proc' \in [Runs -> Process] /\ proc'[r] = x
      /\ \A q \in Runs \ {r} : proc'[q] = proc[q]
  BY <1>1, <1>4, <1>5
<1>7. /\ runs' \in [Runs -> Row] /\ runs'[r].kind = kind /\ runs'[r].status = "running"
      /\ \A q \in Runs \ {r} : runs'[q] = runs[q]
  <2>1. runs' = [runs EXCEPT ![r].kind = kind, ![r].status = "running"]
    BY DEF Start
  <2>2. [runs[r] EXCEPT !.kind = kind, !.status = "running"] \in Row
    BY <1>1 DEF Row, Statuses
  <2>3. runs' = [runs EXCEPT ![r] = [runs[r] EXCEPT !.kind = kind, !.status = "running"]]
    BY <1>1, <2>1
  <2> QED BY <1>1, <2>2, <2>3 DEF Row
<1>8. /\ history' \in History /\ history'.cursor = history.cursor
      /\ history'.passed = history.passed
      /\ \/ kind = "catalog_initial" /\ history.began = Never /\ history'.began = day
         \/ ~(kind = "catalog_initial" /\ history.began = Never) /\ history' = history
  <2>1. CASE kind = "catalog_initial" /\ history.began = Never
    BY <2>1, <1>1 DEF Start, History
  <2>2. CASE ~(kind = "catalog_initial" /\ history.began = Never)
    BY <2>2, <1>1 DEF Start
  <2> QED BY <2>1, <2>2
<1>9. day \in Nat /\ threshold \in Nat /\ threshold >= 1
  BY <1>1 DEF IInv, TypeOK, Day
<1>10. TypeOK'
  <2>1. \A q \in Runs : proc'[q].failing < threshold
    BY <1>4, <1>6, <1>9 DEF IInv, TypeOK
  <2>2. changes \subseteq [show : Shows, version : 1 .. MaxChanges, day : Day]
        /\ threshold \in Thresholds /\ mirror \in [Shows -> {Unsynced} \cup 0 .. MaxChanges]
    BY DEF IInv, TypeOK
  <2> QED BY <1>1, <1>2, <1>6, <1>7, <1>8, <2>1, <2>2 DEF TypeOK
<1>11. Numbered'
  BY <1>2 DEF IInv, Numbered, Latest, Versions
<1>12. Dated'
  <2>1. \A q \in Runs : proc'[q].today <= day
    BY <1>4, <1>6, <1>9 DEF IInv, Dated
  <2>2. history'.began <= day
    BY <1>8, <1>9 DEF IInv, Dated
  <2> QED BY <1>2, <1>8, <2>1, <2>2 DEF IInv, Dated
<1>13. AllPlaced'
  BY <1>4, <1>6, <1>7 DEF IInv, AllPlaced, Placed
<1>14. history.began # Never => history'.began # Never
  BY <1>8
<1>15. Begun'
  <2>1. kind = "catalog_initial" => history'.began # Never
    BY <1>8, <1>9 DEF Never
  <2> QED BY <2>1, <1>7, <1>8, <1>14 DEF IInv, Begun
<1>16. Guessed'
  BY <1>2, <1>4, <1>6, <1>8, <1>14 DEF IInv, Guessed, Under
<1>17. \A c \in changes : Safe(c) => Safe(c)'
  <2> SUFFICES ASSUME NEW c \in changes, Safe(c) PROVE Safe(c)'
    OBVIOUS
  <2>1. \A q \in Runs : c.show \in proc'[q].show =>
           c.show \in proc[q].show /\ proc'[q] = proc[q]
    BY <1>4, <1>6
  <2> QED BY <1>2, <2>1, SafeKept
<1>18. CursorHolds'
  BY <1>2, <1>8, <1>17 DEF IInv, CursorHolds
<1>19. BeganHolds'
  <2>1. CASE history' = history
    BY <1>2, <1>17, <2>1 DEF IInv, BeganHolds
  <2>2. CASE history.began = Never /\ history'.cursor = Never
    <3> SUFFICES ASSUME NEW c \in changes PROVE Safe(c)
      BY <1>2, <1>17 DEF BeganHolds
    <3>1. history.cursor = Never /\ c.show \in Shows
      BY <1>8, <2>2 DEF IInv, TypeOK
    <3>2. mirror[c.show] # Unsynced => c.show \in lost
      BY <2>2, <3>1 DEF IInv, Guessed
    <3>3. \A q \in Runs : c.show \in proc[q].show => proc[q].cold
      <4> SUFFICES ASSUME NEW q \in Runs, c.show \in proc[q].show PROVE proc[q].cold
        OBVIOUS
      <4>1. proc[q].at = "commit"
        BY DEF IInv, AllPlaced, Placed
      <4> QED BY <2>2, <3>1, <4>1 DEF IInv, Guessed, Under
    <3> QED BY <3>2, <3>3 DEF Safe
  <2> QED BY <1>8, <2>1, <2>2 DEF BeganHolds
<1>20. DeltasHold'
  <2> SUFFICES ASSUME NEW q \in Runs PROVE DeltaHolds(q)'
    BY DEF DeltasHold
  <2>1. CASE q = r
    BY <2>1, <1>4, <1>6 DEF DeltaHolds, Under
  <2>2. CASE q # r
    <3>1. proc'[q] = proc[q] /\ runs'[q] = runs[q] /\ Pending(q)' = Pending(q)
      BY <2>2, <1>2, <1>6, <1>7 DEF Pending, Changed
    <3>2. \A c \in changes : Answers(q, c) => Answers(q, c)'
      BY <3>1, <1>17 DEF Answers
    <3> QED BY <3>1, <3>2, <1>2 DEF DeltaHolds, IInv, DeltasHold
  <2> QED BY <2>1, <2>2
<1>21. PassesHold'
  BY <1>2, <1>4, <1>6, <1>7 DEF IInv, PassesHold, PassHolds, Reaches, Under
<1>22. PassCovers'
  BY <1>2, <1>8 DEF IInv, PassCovers
<1> QED
  BY <1>10, <1>11, <1>12, <1>13, <1>15, <1>16, <1>18, <1>19, <1>20, <1>21, <1>22 DEF IInv

-----------------------------------------------------------------------------
(* Steps of upstream, of the restart and of the clock                      *)

LEMMA ChangeStep ==
  ASSUME IInv, NEW s \in Shows, Change(s)
  PROVE  IInv'
<1> USE Bounds
<1> DEFINE n == [show |-> s, version |-> Latest(s) + 1, day |-> day]
<1>1. /\ Cardinality(changes) < MaxChanges /\ changes' = changes \cup {n}
      /\ UNCHANGED <<threshold, day, mirror, history, runs, proc, lost>>
      /\ n.show = s /\ n.version = Latest(s) + 1 /\ n.day = day
  BY DEF Change
<1>2. day \in Day /\ IsFiniteSet(changes) /\ Cardinality(changes) \in Nat
  BY FS_CardinalityType DEF IInv, TypeOK, Numbered
<1>3. Latest(s) \in 0 .. MaxChanges /\ Latest(s) <= Cardinality(changes)
      /\ \A c \in changes : c.show = s => c.version <= Latest(s)
  BY Rolling DEF IInv, Numbered
<1>4. \A c \in changes : c.version \in 1 .. MaxChanges /\ c.show \in Shows /\ c.day \in Day
  BY DEF IInv, TypeOK
<1>5. n \in [show : Shows, version : 1 .. MaxChanges, day : Day]
  BY <1>1, <1>2, <1>3
<1>6. n \notin changes
  BY <1>1, <1>3, <1>4
<1> HIDE DEF n
<1>7. IsFiniteSet(changes') /\ Cardinality(changes') = Cardinality(changes) + 1
  BY <1>1, <1>2, <1>6, FS_AddElement
<1>8. TypeOK'
  BY <1>1, <1>5 DEF IInv, TypeOK
<1>9. Numbered'
  <2> SUFFICES ASSUME NEW p \in Shows
               PROVE  /\ Latest(p)' \in Versions(p)' /\ Latest(p)' <= Cardinality(changes')
                      /\ \A v \in Versions(p)' : v <= Latest(p)'
    BY <1>7 DEF Numbered
  <2>1. /\ Latest(p) \in Versions(p) /\ Latest(p) <= Cardinality(changes)
        /\ \A v \in Versions(p) : v <= Latest(p)
        /\ Latest(p) \in 0 .. MaxChanges
    BY Rolling DEF IInv, Numbered
  <2>2. CASE p # s
    <3>1. Versions(p)' = Versions(p)
      BY <1>1, <2>2 DEF Versions
    <3>2. Latest(p)' = Latest(p)
      BY <3>1 DEF Latest
    <3> QED BY <1>2, <1>7, <2>1, <3>1, <3>2
  <2>3. CASE p = s
    <3>1. Versions(s)' = Versions(s) \cup {Latest(s) + 1}
      BY <1>1 DEF Versions
    <3>2. /\ Latest(s) + 1 \in Versions(s)'
          /\ \A v \in Versions(s)' : v <= Latest(s) + 1
          /\ \A v \in Versions(s)' : v \in Nat
      <4>1. \A v \in Versions(s) : v \in Nat /\ v <= Latest(s)
        BY <1>4, <2>1, <2>3 DEF Versions
      <4> QED BY <1>3, <3>1, <4>1
    <3>3. Latest(s)' = Latest(s) + 1
      <4>1. \A v \in Versions(s)' : (\A w \in Versions(s)' : w <= v) => v = Latest(s) + 1
        BY <1>3, <3>2
      <4> QED BY <3>2, <4>1 DEF Latest
    <3> QED BY <1>2, <1>3, <1>7, <2>3, <3>2, <3>3
  <2> QED BY <2>2, <2>3
<1>10. Dated'
  BY <1>1, <1>2 DEF IInv, Dated, Day
<1>11. AllPlaced' /\ Begun' /\ Guessed' /\ PassesHold' /\ PassCovers'
  <2>1. AllPlaced'
    BY <1>1 DEF IInv, AllPlaced, Placed
  <2>2. Begun' /\ Guessed' /\ PassCovers'
    BY <1>1 DEF IInv, Begun, Guessed, PassCovers
  <2>3. PassesHold'
    BY <1>1 DEF IInv, PassesHold, PassHolds, Reaches
  <2> QED BY <2>1, <2>2, <2>3
<1>12. \A c \in changes : Safe(c) => Safe(c)'
  BY <1>1 DEF Safe
<1>13. CursorHolds' /\ BeganHolds'
  <2>1. ~(n.day < history.cursor) /\ ~(n.day < history.began)
    <3>1. history.cursor \in Day \cup {Never} /\ history.began \in Day \cup {Never}
      BY DEF IInv, TypeOK, History
    <3> QED BY <1>1, <1>2, <3>1 DEF IInv, Dated, Day, Never
  <2> QED BY <1>1, <1>12, <2>1 DEF IInv, CursorHolds, BeganHolds
<1>14. DeltasHold'
  <2> SUFFICES ASSUME NEW q \in Runs, runs[q].kind = "catalog_update", proc[q].at \in Under,
                      NEW c \in changes', c.day < proc[q].today
               PROVE  Answers(q, c)'
    BY <1>1 DEF DeltasHold, DeltaHolds
  <2>1. proc[q].today \in Day /\ proc[q].today <= day
    BY DEF IInv, TypeOK, Process, Dated
  <2>2. c \in changes
    BY <1>1, <1>2, <2>1 DEF Day
  <2>3. Answers(q, c)
    BY <2>2 DEF IInv, DeltasHold, DeltaHolds
  <2>4. Pending(q) \subseteq Pending(q)'
    <3>1. CASE proc[q].at = "list"
      BY <3>1, <1>1 DEF Pending, Changed
    <3>2. CASE proc[q].at # "list"
      BY <3>2, <1>1 DEF Pending
    <3> QED BY <3>1, <3>2
  <2> QED BY <1>1, <1>12, <2>2, <2>3, <2>4 DEF Answers
<1> QED
  BY <1>8, <1>9, <1>10, <1>11, <1>13, <1>14 DEF IInv

LEMMA SweepStep ==
  ASSUME IInv, Sweep
  PROVE  IInv'
<1>1. PICK stale \in SUBSET {r \in Running : runs[r].progressed} \ {{}} :
        runs' = [r \in Runs |-> IF r \in stale THEN [runs[r] EXCEPT !.status = "cancelled"]
                                ELSE runs[r]]
  BY DEF Sweep
<1>2. UNCHANGED <<threshold, day, changes, mirror, history, proc, lost>>
  BY DEF Sweep
<1>3. \A r \in Runs : runs[r] \in Row
  BY DEF IInv, TypeOK
<1>4. \A r \in Runs : /\ runs'[r] \in Row /\ runs'[r].kind = runs[r].kind
                      /\ runs'[r].status = "none" <=> runs[r].status = "none"
  <2> SUFFICES ASSUME NEW r \in Runs
               PROVE  /\ runs'[r] \in Row /\ runs'[r].kind = runs[r].kind
                      /\ runs'[r].status = "none" <=> runs[r].status = "none"
    OBVIOUS
  <2>1. CASE r \in stale
    <3>1. runs[r].status = "running"
      BY <2>1 DEF Running
    <3> QED BY <1>1, <1>3, <2>1, <3>1 DEF Row, Statuses
  <2>2. CASE r \notin stale
    BY <1>1, <1>3, <2>2
  <2> QED BY <2>1, <2>2
<1>5. runs' \in [Runs -> Row]
  BY <1>1, <1>4
<1>6. TypeOK' /\ Numbered' /\ Dated'
  BY <1>2, <1>5 DEF IInv, TypeOK, Numbered, Latest, Versions, Dated
<1>7. AllPlaced'
  BY <1>2, <1>4 DEF IInv, AllPlaced, Placed
<1>8. Begun' /\ Guessed'
  BY <1>2, <1>4 DEF IInv, Begun, Guessed
<1>9. CursorHolds' /\ BeganHolds' /\ PassCovers'
  BY <1>2 DEF IInv, CursorHolds, BeganHolds, PassCovers, Safe
<1>10. DeltasHold'
  <2>1. \A r \in Runs, c \in changes : Answers(r, c)' = Answers(r, c)
    BY <1>2 DEF Answers, Safe, Pending, Changed
  <2> QED BY <1>2, <1>4, <2>1 DEF IInv, DeltasHold, DeltaHolds
<1>11. PassesHold'
  BY <1>2, <1>4 DEF IInv, PassesHold, PassHolds, Reaches
<1> QED BY <1>6, <1>7, <1>8, <1>9, <1>10, <1>11 DEF IInv

\* Midnight, and a step of something else.
LEMMA IdleStep ==
  ASSUME IInv, NextDay \/ UNCHANGED vars
  PROVE  IInv'
<1> USE Bounds
<1>1. UNCHANGED <<threshold, changes, mirror, history, runs, proc, lost>>
  BY DEF NextDay, vars
<1>2. day' \in Day /\ day <= day' /\ day \in Day
  BY DEF NextDay, vars, Day, IInv, TypeOK
<1>3. TypeOK' /\ Numbered'
  BY <1>1, <1>2 DEF IInv, TypeOK, Numbered, Latest, Versions
<1>4. Dated'
  <2>1. \A c \in changes : c.day \in Day
    BY DEF IInv, TypeOK
  <2>2. history.cursor \in Day \cup {Never} /\ history.began \in Day \cup {Never}
        /\ \A r \in Runs : proc[r].today \in Day
    BY DEF IInv, TypeOK, History, Process
  <2> QED BY <1>1, <1>2, <2>1, <2>2 DEF IInv, Dated, Day, Never
<1>5. AllPlaced' /\ Begun' /\ Guessed'
  BY <1>1 DEF IInv, AllPlaced, Placed, Begun, Guessed
<1>6. CursorHolds' /\ BeganHolds' /\ PassCovers'
  BY <1>1 DEF IInv, CursorHolds, BeganHolds, PassCovers, Safe
<1>7. DeltasHold'
  <2>1. \A r \in Runs, c \in changes : Answers(r, c)' = Answers(r, c)
    BY <1>1 DEF Answers, Safe, Pending, Changed
  <2> QED BY <1>1, <2>1 DEF IInv, DeltasHold, DeltaHolds
<1>8. PassesHold'
  BY <1>1 DEF IInv, PassesHold, PassHolds, Reaches
<1> QED BY <1>3, <1>4, <1>5, <1>6, <1>7, <1>8 DEF IInv

-----------------------------------------------------------------------------

LEMMA NextKeeps ==
  ASSUME IInv, [Next]_vars
  PROVE  IInv'
<1>1. ASSUME NEW r \in Runs, RunStep(r) PROVE IInv'
  BY <1>1, StartStep, ResolveStep, ListChangesStep, ListExportStep, FetchStep, CommitStep,
     FailSteps, FinishStep, EndSteps, ExpireStep DEF RunStep
<1>2. ASSUME NEW s \in Shows, Change(s) PROVE IInv'
  BY <1>2, ChangeStep
<1>3. Sweep => IInv'
  BY SweepStep
<1>4. NextDay \/ UNCHANGED vars => IInv'
  BY IdleStep
<1> QED BY <1>1, <1>2, <1>3, <1>4 DEF Next

LEMMA CursorCovers == IInv => NoChangeLost
<1> SUFFICES ASSUME IInv, NEW c \in changes, c.day < history.cursor,
                    mirror[c.show] # Unsynced, c.show \notin lost
             PROVE  mirror[c.show] >= c.version
  BY DEF NoChangeLost
<1> QED BY DEF IInv, CursorHolds, Safe

\* The inductive invariant holds of every behaviour of the overlapping runs.
THEOREM Guarded == Spec => []IInv
<1>1. Init => IInv
  BY IInvInit
<1>2. IInv /\ [Next]_vars => IInv'
  BY NextKeeps
<1> QED BY <1>1, <1>2, PTL DEF Spec

\* The mirror, the run ledger and the processes keep their types; a run never
\* has as many consecutive failures as the threshold and goes on.
THEOREM Typed == Spec => []TypeOK
<1>1. IInv => TypeOK
  BY DEF IInv
<1> QED BY <1>1, Guarded, PTL

\* Whatever runs failed, died, were cancelled, resumed or overlapped, a cursor on
\* record steps over no change of a stamped show (tmdb/update.py
\* run_catalog_update), but for the shows owned up to as lost.
THEOREM CursorHonest == Spec => []NoChangeLost
BY CursorCovers, Guarded, PTL

\* A full pass on record as succeeded covered the whole catalog
\* (catalog/runs.py get_completed_pass_start).
THEOREM PassComplete == Spec => []PassCovers
<1>1. IInv => PassCovers
  BY DEF IInv
<1> QED BY <1>1, Guarded, PTL

-----------------------------------------------------------------------------
(* The shared request budget                                               *)

LEMMA FullNat == Full \in Nat /\ Fill \in Nat \ {0} /\ Cap \in Nat
BY RateAssumption DEF Full

LEMMA Division ==
    ASSUME NEW x \in Nat, NEW d \in Nat \ {0}
    PROVE  /\ x \div d \in Nat
           /\ (x \div d) * d <= x
           /\ x \div d < 1 => x < d
OBVIOUS

LEMMA LevelType ==
    ASSUME RowOK
    PROVE  Level \in 0 .. Full
BY FullNat DEF RowOK, Level

\* The holder of the row lock has a caller to serve, and what it read under
\* the lock is still there: others wait, and the clock only adds to it.
Holder(p) == lock = p /\ seen[p] <= Level /\ Short(p)

LimiterInv ==
    /\ RowOK /\ LimitersOK
    /\ span \in Nat /\ granted \in Nat
    /\ \A p \in Procs : at[p] = "locked" => Holder(p)

-----------------------------------------------------------------------------
(* What a transaction grants                                               *)

LEMMA WantType ==
    ASSUME LimitersOK, NEW p \in Procs, Short(p)
    PROVE  /\ Head(queue[p]) \in Caller
           /\ Want(p) \in Nat \ {0}
<1>1. Head(queue[p]) \in Caller
  BY DEF LimitersOK, Short
<1>2. Head(queue[p]).n \in Nat \ {0}
  BY <1>1, RateAssumption DEF Caller
<1>3. leased[p] \in Nat /\ leased[p] < Head(queue[p]).n
  BY DEF LimitersOK, Short
<1> QED
  BY <1>1, <1>2, <1>3, RateAssumption DEF Want

LEMMA GrantedType ==
    ASSUME LimitersOK, NEW p \in Procs, Short(p)
    PROVE  /\ Granted(p) \in Nat
           /\ Granted(p) * Fill \in Nat
           /\ Granted(p) * Fill <= seen[p]
           /\ Granted(p) < 1 => seen[p] < Fill
<1> DEFINE whole == seen[p] \div Fill
<1>1. seen[p] \in Nat
  BY FullNat DEF LimitersOK
<1>2. whole \in Nat /\ whole * Fill <= seen[p] /\ (whole < 1 => seen[p] < Fill)
  BY <1>1, FullNat, Division
<1>3. Want(p) \in Nat \ {0}
  BY WantType
<1>4. Granted(p) = IF Want(p) < whole THEN Want(p) ELSE whole
  BY DEF Granted
<1> HIDE DEF whole
<1>5. Granted(p) \in Nat /\ Granted(p) <= whole /\ (Granted(p) < 1 => whole < 1)
  BY <1>2, <1>3, <1>4
<1>6. Granted(p) * Fill \in Nat /\ Granted(p) * Fill <= whole * Fill
  BY <1>2, <1>5, FullNat
<1> QED
  BY <1>1, <1>2, <1>5, <1>6, FullNat

-----------------------------------------------------------------------------
(* The invariant                                                           *)

LEMMA LimiterInit == BudgetInit => LimiterInv
<1> SUFFICES ASSUME BudgetInit PROVE LimiterInv
  OBVIOUS
<1>1. RowOK
  BY FullNat DEF BudgetInit, RowOK
<1>2. LimitersOK
  BY FullNat, RateAssumption DEF BudgetInit, LimitersOK
<1> QED
  BY <1>1, <1>2 DEF BudgetInit, LimiterInv

\* Only one process holds the row lock.
LEMMA OneHolder ==
    ASSUME LimiterInv, NEW p \in Procs, NEW q \in Procs,
           at[p] = "locked", at[q] = "locked"
    PROVE  p = q
BY DEF LimiterInv, Holder

\* A process whose row and limiter a step leaves alone goes on holding.
LEMMA HolderKeeps ==
    ASSUME LimiterInv, NEW q \in Procs, at[q] = "locked",
           lock' = lock, tokens' = tokens, age' = age, seen'[q] = seen[q],
           leased'[q] = leased[q], queue'[q] = queue[q]
    PROVE  Holder(q)'
BY DEF LimiterInv, Holder, Level, Short

LEMMA AcquireKeeps ==
    ASSUME LimiterInv, NEW p \in Procs, NEW s \in Seats, NEW n \in Sizes,
           Acquire(p, s, n)
    PROVE  LimiterInv'
<1> DEFINE c == [seat |-> s, n |-> n]
<1>1. c \in Caller
  BY DEF Caller
<1>2. queue' = [queue EXCEPT ![p] = Append(queue[p], c)]
  BY DEF Acquire
<1>3. queue \in [Procs -> Seq(Caller)]
  BY DEF LimiterInv, LimitersOK
<1>4. queue' \in [Procs -> Seq(Caller)]
  BY <1>1, <1>2, <1>3
<1>5. LimitersOK'
  BY <1>4, RateAssumption DEF Acquire, LimiterInv, LimitersOK
<1>6. RowOK'
  BY DEF Acquire, LimiterInv, RowOK, row
<1>7. ASSUME NEW q \in Procs, at'[q] = "locked"
      PROVE  Holder(q)'
  <2>1. Holder(q) /\ queue[q] # <<>>
    BY <1>7 DEF Acquire, LimiterInv, Holder, Short
  <2>2. queue'[q] # <<>> /\ Head(queue'[q]) = Head(queue[q])
    BY <2>1, <1>1, <1>2, <1>3
  <2> QED
    BY <2>1, <2>2 DEF Acquire, Holder, Short, Level, row
<1> QED
  BY <1>5, <1>6, <1>7 DEF Acquire, LimiterInv, window

LEMMA LockKeeps ==
    ASSUME LimiterInv, NEW p \in Procs, Lock(p)
    PROVE  LimiterInv'
<1>1. Level \in 0 .. Full
  BY LevelType DEF LimiterInv
<1>2. LimitersOK'
  BY <1>1 DEF Lock, LimiterInv, LimitersOK
<1>3. RowOK' /\ Level' = Level
  BY DEF Lock, LimiterInv, RowOK, Level
<1>4. \A q \in Procs : at[q] # "locked"
  BY RateAssumption DEF Lock, LimiterInv, Holder
<1>5. \A q \in Procs : at'[q] = "locked" => q = p
  BY <1>4 DEF Lock, LimiterInv, LimitersOK
<1>6. seen'[p] = Level /\ lock' = p /\ Short(p)'
  BY DEF Lock, LimiterInv, LimitersOK, Short
<1>7. Holder(p)'
  BY <1>1, <1>3, <1>6 DEF Holder
<1> QED
  BY <1>2, <1>3, <1>5, <1>7 DEF Lock, LimiterInv, window

\* The end of a transaction: nobody holds the lock.
LEMMA CommitFrees ==
    ASSUME LimiterInv, NEW p \in Procs, at[p] = "locked",
           NEW how \in {"idle", "asleep"}, Release(p, how)
    PROVE  /\ lock' = NoProc
           /\ at' \in [Procs -> {"idle", "locked", "asleep"}]
           /\ seen' \in [Procs -> 0 .. Full]
           /\ \A q \in Procs : at'[q] # "locked"
<1>1. \A q \in Procs : q # p => at[q] # "locked"
  BY OneHolder
<1> QED
  BY <1>1, FullNat DEF LimiterInv, LimitersOK, Release

LEMMA TakeKeeps ==
    ASSUME LimiterInv, NEW p \in Procs, Take(p)
    PROVE  LimiterInv'
<1>1. Granted(p) \in Nat /\ Granted(p) * Fill \in Nat /\ Granted(p) * Fill <= seen[p]
  BY GrantedType DEF Take, LimiterInv, Holder
<1>2. at[p] = "locked" /\ Release(p, "idle")
  BY DEF Take
<1>3. /\ lock' = NoProc
      /\ at' \in [Procs -> {"idle", "locked", "asleep"}]
      /\ seen' \in [Procs -> 0 .. Full]
      /\ \A q \in Procs : at'[q] # "locked"
  BY <1>2, CommitFrees
<1>4. tokens' \in 0 .. Full
  <2>1. seen[p] \in 0 .. Full
    BY DEF LimiterInv, LimitersOK
  <2>2. tokens' = seen[p] - Granted(p) * Fill
    BY DEF Take
  <2> QED
    BY ONLY <1>1, <2>1, <2>2, FullNat
<1>5. RowOK'
  BY <1>3, <1>4, FullNat DEF Take, RowOK
<1>6. leased' \in [Procs -> Nat]
  BY <1>1 DEF Take, LimiterInv, LimitersOK
<1>7. LimitersOK'
  BY <1>3, <1>6 DEF Take, LimiterInv, LimitersOK
<1> QED
  BY <1>1, <1>3, <1>5, <1>7 DEF Take, LimiterInv

LEMMA RefuseKeeps ==
    ASSUME LimiterInv, NEW p \in Procs, Refuse(p)
    PROVE  LimiterInv'
<1>1. seen[p] < Fill /\ seen[p] \in Nat
  BY GrantedType, FullNat DEF Refuse, LimiterInv, Holder, LimitersOK
<1>2. at[p] = "locked" /\ Release(p, "asleep")
  BY DEF Refuse
<1>3. /\ lock' = NoProc
      /\ at' \in [Procs -> {"idle", "locked", "asleep"}]
      /\ seen' \in [Procs -> 0 .. Full]
      /\ \A q \in Procs : at'[q] # "locked"
  BY <1>2, CommitFrees
<1>4. Fill - seen[p] \in 0 .. Fill
  BY <1>1, FullNat
<1>5. nap' \in [Procs -> 0 .. Fill]
  BY <1>4 DEF Refuse, LimiterInv, LimitersOK
<1>6. LimitersOK'
  BY <1>3, <1>5 DEF Refuse, LimiterInv, LimitersOK
<1>7. RowOK'
  BY <1>3 DEF Refuse, LimiterInv, RowOK
<1> QED
  BY <1>3, <1>6, <1>7 DEF Refuse, LimiterInv, window

LEMMA WakeKeeps ==
    ASSUME LimiterInv, NEW p \in Procs, Wake(p)
    PROVE  LimiterInv'
<1>1. LimitersOK' /\ RowOK'
  BY DEF Wake, LimiterInv, LimitersOK, RowOK, row
<1>2. ASSUME NEW q \in Procs, at'[q] = "locked"
      PROVE  Holder(q)'
  <2>1. at[q] = "locked"
    BY <1>2 DEF Wake, LimiterInv, LimitersOK
  <2> QED
    BY <2>1, HolderKeeps DEF Wake, row
<1> QED
  BY <1>1, <1>2 DEF Wake, LimiterInv, window

LEMMA SpendKeeps ==
    ASSUME LimiterInv, NEW p \in Procs, Spend(p)
    PROVE  LimiterInv'
<1>1. Head(queue[p]) \in Caller /\ Tail(queue[p]) \in Seq(Caller)
  BY DEF Spend, LimiterInv, LimitersOK
<1>2. leased[p] - Head(queue[p]).n \in Nat
  <2>1. Head(queue[p]).n \in Nat
    BY <1>1, RateAssumption DEF Caller
  <2> QED
    BY <2>1 DEF Spend, Short, LimiterInv, LimitersOK
<1>3. LimitersOK'
  BY <1>1, <1>2 DEF Spend, LimiterInv, LimitersOK
<1>4. RowOK'
  BY DEF Spend, LimiterInv, RowOK, row
<1>5. ASSUME NEW q \in Procs, at'[q] = "locked"
      PROVE  Holder(q)'
  <2>1. at[q] = "locked" /\ q # p
    BY <1>5 DEF Spend
  <2> QED
    BY <2>1, HolderKeeps DEF Spend, row, LimiterInv, LimitersOK
<1> QED
  BY <1>3, <1>4, <1>5 DEF Spend, LimiterInv

\* A process that lets go of the row, by failing or dying, frees it only if it
\* held it.
LEMMA ReleaseKeeps ==
    ASSUME LimiterInv, NEW p \in Procs,
           at' = [at EXCEPT ![p] = "idle"],
           lock' = (IF at[p] = "locked" THEN NoProc ELSE lock),
           tokens' = tokens, age' = age,
           \A q \in Procs \ {p} : /\ seen'[q] = seen[q]
                                  /\ leased'[q] = leased[q]
                                  /\ queue'[q] = queue[q]
    PROVE  \A q \in Procs : at'[q] = "locked" => Holder(q)'
<1> SUFFICES ASSUME NEW q \in Procs, at'[q] = "locked"
             PROVE  Holder(q)'
  OBVIOUS
<1>1. at[q] = "locked" /\ q # p
  BY DEF LimiterInv, LimitersOK
<1>2. at[p] # "locked"
  BY <1>1, OneHolder
<1> QED
  BY <1>1, <1>2, HolderKeeps

LEMMA FailClosedKeeps ==
    ASSUME LimiterInv, NEW p \in Procs, FailClosed(p)
    PROVE  LimiterInv'
<1>1. queue[p] # <<>>
  BY DEF FailClosed, LimiterInv, Holder, Short
<1>2. Tail(queue[p]) \in Seq(Caller)
  BY <1>1 DEF LimiterInv, LimitersOK
<1>3. LimitersOK'
  BY <1>2, FullNat DEF FailClosed, LimiterInv, LimitersOK
<1>4. RowOK'
  BY DEF FailClosed, LimiterInv, RowOK
<1>5. \A q \in Procs : at'[q] = "locked" => Holder(q)'
  BY ReleaseKeeps DEF FailClosed, LimiterInv, LimitersOK
<1> QED
  BY <1>3, <1>4, <1>5 DEF FailClosed, LimiterInv, window

LEMMA CrashKeeps ==
    ASSUME LimiterInv, NEW p \in Procs, Crash(p)
    PROVE  LimiterInv'
<1>1. LimitersOK'
  BY FullNat DEF Crash, LimiterInv, LimitersOK
<1>2. RowOK'
  BY DEF Crash, LimiterInv, RowOK
<1>3. \A q \in Procs : at'[q] = "locked" => Holder(q)'
  BY ReleaseKeeps DEF Crash, LimiterInv, LimitersOK
<1> QED
  BY <1>1, <1>2, <1>3 DEF Crash, LimiterInv, window

LEMMA TickKeeps ==
    ASSUME LimiterInv, Tick
    PROVE  LimiterInv'
<1>1. RowOK' /\ Level <= Level' /\ Level \in Nat /\ Level' \in Nat
  <2>1. tokens \in 0 .. Full /\ age \in 0 .. Full /\ lock \in Procs \cup {NoProc}
    BY DEF LimiterInv, RowOK
  <2>2. tokens' = tokens /\ lock' = lock
        /\ age' = (IF age < Full THEN age + 1 ELSE age)
    BY DEF Tick
  <2>3. age' \in 0 .. Full /\ age <= age'
    BY ONLY <2>1, <2>2, FullNat
  <2>4. RowOK'
    BY <2>1, <2>2, <2>3 DEF RowOK
  <2>5. Level <= Level' /\ Level \in Nat /\ Level' \in Nat
    BY ONLY <2>1, <2>2, <2>3, FullNat DEF Level
  <2> QED
    BY <2>4, <2>5
<1>2. nap' \in [Procs -> 0 .. Fill]
  BY FullNat DEF Tick, LimiterInv, LimitersOK
<1>3. LimitersOK'
  BY <1>2 DEF Tick, LimiterInv, LimitersOK
<1>4. span' \in Nat /\ granted' \in Nat
  BY RateAssumption DEF Tick, LimiterInv, NewWindow
<1>5. ASSUME NEW q \in Procs, at'[q] = "locked"
      PROVE  Holder(q)'
  <2>1. Holder(q) /\ seen[q] \in Nat
    BY <1>5, FullNat DEF Tick, LimiterInv, LimitersOK
  <2>2. seen'[q] <= Level'
    BY <1>1, <2>1 DEF Tick, Holder
  <2> QED
    BY <2>1, <2>2 DEF Tick, Holder, Short
<1> QED
  BY <1>1, <1>3, <1>4, <1>5 DEF LimiterInv

LEMMA IdleKeeps ==
    ASSUME LimiterInv, Mark \/ UNCHANGED budgetVars
    PROVE  LimiterInv'
<1>1. RowOK' /\ LimitersOK'
  BY DEF Mark, budgetVars, row, LimiterInv, RowOK, LimitersOK
<1>2. span' \in Nat /\ granted' \in Nat
  BY DEF Mark, NewWindow, budgetVars, window, LimiterInv
<1>3. ASSUME NEW q \in Procs, at'[q] = "locked"
      PROVE  Holder(q)'
  BY <1>3, HolderKeeps DEF Mark, budgetVars, row
<1> QED
  BY <1>1, <1>2, <1>3 DEF LimiterInv

LEMMA LimiterStep ==
    ASSUME LimiterInv, [BudgetNext]_budgetVars
    PROVE  LimiterInv'
BY AcquireKeeps, LockKeeps, TakeKeeps, RefuseKeeps, WakeKeeps, SpendKeeps,
   FailClosedKeeps, CrashKeeps, TickKeeps, IdleKeeps DEF BudgetNext, Work

LEMMA LimiterInvariant == BudgetSpec => []LimiterInv
BY LimiterInit, LimiterStep, PTL DEF BudgetSpec

-----------------------------------------------------------------------------
(* The limiters are one bucket                                             *)

LEMMA TakeGrants ==
    ASSUME LimiterInv, NEW p \in Procs, Take(p)
    PROVE  Granted(p) \in 1 .. Cap /\ Bucket!Grant(Granted(p))
<1> DEFINE k == Granted(p)
<1>1. k \in Nat /\ k >= 1 /\ k * Fill \in Nat /\ k * Fill <= seen[p]
  BY GrantedType DEF Take, LimiterInv, Holder
<1>2. seen[p] \in 0 .. Full /\ Level \in 0 .. Full /\ seen[p] <= Level
  BY LevelType DEF Take, LimiterInv, LimitersOK, Holder
<1>3. tokens' = seen[p] - k * Fill /\ age' = 0
  BY DEF Take
<1> HIDE DEF k
<1>4. k <= Cap
  <2>1. k * Fill <= Cap * Fill
    BY <1>1, <1>2, FullNat DEF Full
  <2> QED
    BY ONLY <1>1, <2>1, FullNat
<1>5. tokens' \in 0 .. Full
  BY ONLY <1>1, <1>2, <1>3, FullNat
<1>6. Level' = tokens'
  BY ONLY <1>3, <1>5, FullNat DEF Level
<1>7. k * Fill <= Level /\ Level' \in 0 .. Level - k * Fill
  BY ONLY <1>1, <1>2, <1>3, <1>6, FullNat
<1>8. granted' = granted + k /\ span' = span
  BY DEF Take, k
<1> QED
  BY <1>1, <1>4, <1>7, <1>8 DEF Bucket!Grant, k

LEMMA TickRefills ==
    ASSUME LimiterInv, Tick
    PROVE  Bucket!Refill
<1>1. tokens \in 0 .. Full /\ age \in 0 .. Full
  BY DEF LimiterInv, RowOK
<1>2. tokens' = tokens /\ age' = (IF age < Full THEN age + 1 ELSE age)
  BY DEF Tick
<1>3. Level' = IF Level < Full THEN Level + 1 ELSE Full
  BY ONLY <1>1, <1>2, FullNat DEF Level
<1>4. IF span < MaxSpan THEN span' = span + 1 /\ granted' = granted
                        ELSE span' = 0 /\ granted' = 0
  BY DEF Tick, NewWindow
<1> QED
  BY <1>3, <1>4 DEF Bucket!Refill, Bucket!Full, Full

LEMMA BucketStep ==
    ASSUME LimiterInv, [BudgetNext]_budgetVars
    PROVE  [Bucket!Next]_(Bucket!bucketVars)
<1>1. ASSUME NEW p \in Procs, Take(p)
      PROVE  Bucket!Next
  BY <1>1, TakeGrants DEF Bucket!Next
<1>2. CASE Tick
  BY <1>2, TickRefills DEF Bucket!Next
<1>3. CASE Mark
  BY <1>3 DEF Mark, NewWindow, row, Level, Bucket!Mark, Bucket!Next
<1>4. ASSUME NEW p \in Procs,
             \/ \E s \in Seats, n \in Sizes : Acquire(p, s, n)
             \/ Lock(p) \/ Refuse(p) \/ Wake(p) \/ Spend(p)
             \/ FailClosed(p) \/ Crash(p)
      PROVE  UNCHANGED Bucket!bucketVars
  BY <1>4 DEF Acquire, Lock, Refuse, Wake, Spend, FailClosed, Crash, row,
     window, Level, Bucket!bucketVars
<1>5. CASE UNCHANGED budgetVars
  BY <1>5 DEF budgetVars, row, window, Level, Bucket!bucketVars
<1> QED
  BY <1>1, <1>2, <1>3, <1>4, <1>5 DEF BudgetNext, Work

LEMMA BucketInit == BudgetInit => Bucket!Init
BY FullNat DEF BudgetInit, Bucket!Init, Level, Full, Bucket!Full

\* The limiters of any number of processes, interleaved, refused, asleep,
\* failing or dying, behave to the outside as one token bucket.
THEOREM LimitersAreOneBucket == BudgetSpec => ImplementsBucket
BY BucketInit, BucketStep, LimiterInvariant, PTL
   DEF BudgetSpec, ImplementsBucket, Bucket!Spec

\* What the bucket still holds counts against the window: the sum of the two
\* grows by no more than one unit a tick.
WindowInv ==
    /\ Level \in 0 .. Full
    /\ span \in Nat
    /\ granted \in Nat
    /\ granted * Fill + Level <= Full + span

LEMMA TakeFrom ==
    ASSUME NEW had \in Nat, NEW took \in Nat, NEW full \in Nat, NEW s \in Nat,
           NEW l \in Nat, NEW m \in Nat, had + l <= full + s, m <= l - took
    PROVE  (had + took) + m <= full + s
OBVIOUS

LEMMA WindowStep ==
    ASSUME WindowInv, [Bucket!Next]_(Bucket!bucketVars)
    PROVE  WindowInv'
<1>0. Full \in Nat /\ Fill \in Nat /\ Bucket!Full = Full
  BY FullNat DEF Full, Bucket!Full
<1> USE <1>0
<1>1. CASE Bucket!Refill
  BY <1>1 DEF Bucket!Refill, WindowInv
<1>2. CASE Bucket!Mark
  BY <1>2 DEF Bucket!Mark, WindowInv
<1>3. ASSUME NEW k \in 1 .. Cap, Bucket!Grant(k)
      PROVE  WindowInv'
  <2>1. k * Fill \in Nat /\ granted * Fill \in Nat
    BY FullNat DEF WindowInv
  <2>2. granted' * Fill = granted * Fill + k * Fill
    BY <1>3, FullNat DEF Bucket!Grant, WindowInv
  <2>3. Level' \in 0 .. Full /\ Level' <= Level - k * Fill
    BY <1>3, <2>1 DEF Bucket!Grant, WindowInv
  <2>4. granted' \in Nat /\ span' = span
    BY <1>3, FullNat DEF Bucket!Grant, WindowInv
  <2>5. granted * Fill + Level <= Full + span /\ Level \in Nat /\ span \in Nat
    BY DEF WindowInv
  <2>6. granted' * Fill + Level' <= Full + span'
    <3>1. Level' \in Nat /\ Level \in Nat /\ span \in Nat
      BY <2>3, <2>5
    <3>2. (granted * Fill + k * Fill) + Level' <= Full + span
      BY ONLY <2>1, <2>3, <2>5, <3>1, <1>0, TakeFrom
    <3> QED
      BY ONLY <2>2, <2>4, <3>2
  <2> QED
    BY <2>3, <2>4, <2>5, <2>6 DEF WindowInv
<1>4. CASE UNCHANGED Bucket!bucketVars
  BY <1>4 DEF Bucket!bucketVars, WindowInv
<1> QED
  BY <1>1, <1>2, <1>3, <1>4 DEF Bucket!Next

\* The promise kept: for any capacity and rate, no window of any length sees
\* more grants than the bucket's capacity and what flowed in.
THEOREM BucketWindows == Bucket!Spec => []Bucket!WindowBound
<1>1. Bucket!Init => WindowInv
  BY FullNat DEF Bucket!Init, WindowInv, Full, Bucket!Full
<1>2. WindowInv => Bucket!WindowBound
  BY FullNat DEF WindowInv, Bucket!WindowBound, Full, Bucket!Full
<1>3. WindowInv /\ [Bucket!Next]_(Bucket!bucketVars) => WindowInv'
  BY WindowStep
<1> QED
  BY <1>1, <1>2, <1>3, PTL DEF Bucket!Spec

\* For any capacity, rate, lease, request size and number of processes, no
\* window of any length sees more tokens granted than a full bucket and what
\* flowed in: sharing the row is what keeps the sum under the cap.
THEOREM WindowsGranted == BudgetSpec => []WindowGrant
<1>1. BudgetSpec => []Bucket!WindowBound
  BY LimitersAreOneBucket, BucketWindows DEF ImplementsBucket
<1>2. Bucket!WindowBound => WindowGrant
  BY DEF Bucket!WindowBound, Bucket!Full, WindowGrant, Full
<1> QED
  BY <1>1, <1>2, PTL

-----------------------------------------------------------------------------
(* What is spent was granted                                               *)

\* The tokens on lease under any assignment of leases, so that the lemmas speak
\* of the leases before a step and after it.
Tokens(f, p) == {p} \X (1 .. f[p])
TokensIn(f, S) == UNION {Tokens(f, p) : p \in S}

LEMMA LeasedTokens ==
    /\ OnLease = Cardinality(TokensIn(leased, Procs))
    /\ OnLease' = Cardinality(TokensIn(leased', Procs))
BY DEF OnLease, TokensOf, Tokens, TokensIn

LEMMA TokensFinite ==
    ASSUME NEW f \in [Procs -> Nat]
    PROVE  /\ \A p \in Procs : /\ IsFiniteSet(Tokens(f, p))
                               /\ Cardinality(Tokens(f, p)) = f[p]
           /\ \A S \in SUBSET Procs : IsFiniteSet(TokensIn(f, S))
<1>1. ASSUME NEW p \in Procs
      PROVE  IsFiniteSet(Tokens(f, p)) /\ Cardinality(Tokens(f, p)) = f[p]
  <2>1. IsFiniteSet({p}) /\ Cardinality({p}) = 1
    BY FS_Singleton
  <2>2. IsFiniteSet(1 .. f[p]) /\ Cardinality(1 .. f[p]) = f[p]
    BY FS_Interval
  <2>3. /\ IsFiniteSet({p} \X (1 .. f[p]))
        /\ Cardinality({p} \X (1 .. f[p])) = 1 * f[p]
    BY <2>1, <2>2, FS_Product
  <2>4. 1 * f[p] = f[p]
    OBVIOUS
  <2> QED BY <2>3, <2>4 DEF Tokens
<1>2. ASSUME NEW S \in SUBSET Procs
      PROVE  IsFiniteSet(TokensIn(f, S))
  <2> DEFINE T == {Tokens(f, p) : p \in S}
             g == [p \in S |-> Tokens(f, p)]
  <2>1. IsFiniteSet(S)
    BY RateAssumption, FS_Subset
  <2>2. g \in Surjection(S, T)
    BY DEF Surjection
  <2>3. IsFiniteSet(T)
    BY <2>1, <2>2, FS_Surjection
  <2>4. \A t \in T : IsFiniteSet(t)
    BY <1>1
  <2> QED BY <2>3, <2>4, FS_UNION DEF TokensIn
<1> QED BY <1>1, <1>2

\* What one process has on lease and what the others have add up.
LEMMA LeaseSplit ==
    ASSUME NEW f \in [Procs -> Nat], NEW p \in Procs
    PROVE  /\ Cardinality(TokensIn(f, Procs)) \in Nat
           /\ Cardinality(TokensIn(f, Procs \ {p})) \in Nat
           /\ Cardinality(TokensIn(f, Procs))
                = Cardinality(TokensIn(f, Procs \ {p})) + f[p]
<1> DEFINE O == TokensIn(f, Procs \ {p})
           T == Tokens(f, p)
<1>1. IsFiniteSet(T) /\ Cardinality(T) = f[p] /\ IsFiniteSet(O)
  BY TokensFinite
<1>2. O \cap T = {}
  BY DEF TokensIn, Tokens
<1>3. TokensIn(f, Procs) = O \cup T
  BY DEF TokensIn
<1> HIDE DEF O, T
<1>4. Cardinality(O \cup T) = Cardinality(O) + Cardinality(T) - Cardinality(O \cap T)
  BY <1>1, FS_Union
<1>5. Cardinality(O \cap T) = 0 /\ Cardinality(O) \in Nat
  BY <1>1, <1>2, FS_EmptySet, FS_CardinalityType
<1>6. f[p] \in Nat
  OBVIOUS
<1> QED BY <1>1, <1>3, <1>4, <1>5, <1>6 DEF O

LEMMA LeaseMoves ==
    ASSUME leased \in [Procs -> Nat], NEW p \in Procs, NEW n \in Nat,
           leased' = [leased EXCEPT ![p] = n]
    PROVE  OnLease' = OnLease - leased[p] + n
<1>1. leased' \in [Procs -> Nat] /\ leased'[p] = n
  OBVIOUS
<1>2. TokensIn(leased', Procs \ {p}) = TokensIn(leased, Procs \ {p})
  BY DEF TokensIn, Tokens
<1> DEFINE o == Cardinality(TokensIn(leased, Procs \ {p}))
<1>3. OnLease \in Nat /\ o \in Nat /\ OnLease = o + leased[p]
  BY LeaseSplit, LeasedTokens
<1>4. OnLease' = o + leased'[p]
  BY <1>1, <1>2, LeaseSplit, LeasedTokens
<1>5. leased[p] \in Nat
  OBVIOUS
<1> HIDE DEF o
<1> QED BY <1>1, <1>3, <1>4, <1>5

LEMMA LeaseType ==
    ASSUME leased \in [Procs -> Nat]
    PROVE  OnLease \in Nat
BY TokensFinite, FS_CardinalityType, LeasedTokens

\* The ghosts of the window count what there is.
Backed == WindowOK /\ SpendBacked

LEMMA BackedStep ==
    ASSUME LimiterInv, Backed, [BudgetNext]_budgetVars
    PROVE  Backed'
<1> USE DEF Backed, WindowOK, SpendBacked
<1>0. leased \in [Procs -> Nat] /\ MaxSpan \in Nat
  BY RateAssumption DEF LimiterInv, LimitersOK
<1>1. ASSUME UNCHANGED <<leased, window>> PROVE Backed'
  BY <1>1 DEF window, OnLease, TokensOf
<1>3. OnLease \in Nat
  BY <1>0, LeaseType
<1>4. ASSUME leased' = leased, NewWindow PROVE Backed'
  <2>1. OnLease' = OnLease
    BY <1>4 DEF OnLease, TokensOf
  <2> QED BY <1>0, <1>3, <1>4, <2>1 DEF NewWindow
<1>5. ASSUME NEW p \in Procs, Take(p) PROVE Backed'
  <2>1. Granted(p) \in Nat
    BY <1>5, GrantedType DEF Take, LimiterInv, Holder
  <2> DEFINE n == leased[p] + Granted(p)
  <2>2. leased' = [leased EXCEPT ![p] = n] /\ n \in Nat
    BY <1>0, <1>5, <2>1 DEF Take
  <2> HIDE DEF n
  <2>3. OnLease' = OnLease - leased[p] + n
    BY <1>0, <2>2, LeaseMoves
  <2>4. span' = span /\ granted' = granted + Granted(p) /\ spent' = spent /\ held' = held
    BY <1>5 DEF Take
  <2> QED BY <1>0, <1>3, <2>1, <2>3, <2>4 DEF n
<1>6. ASSUME NEW p \in Procs, Spend(p) PROVE Backed'
  <2> DEFINE k == Head(queue[p]).n
             n == leased[p] - k
  <2>1. Head(queue[p]) \in Caller
    BY <1>6 DEF Spend, LimiterInv, LimitersOK
  <2>2. k \in Nat /\ ~(leased[p] < k)
    BY <1>6, <2>1, RateAssumption DEF Spend, Short, Caller
  <2>3. leased' = [leased EXCEPT ![p] = n] /\ n \in Nat
    BY <1>0, <1>6, <2>2 DEF Spend
  <2>4. span' = span /\ granted' = granted /\ spent' = spent + k /\ held' = held
    BY <1>6 DEF Spend
  <2> HIDE DEF n, k
  <2>5. OnLease' = OnLease - leased[p] + n
    BY <1>0, <2>3, LeaseMoves
  <2> QED BY <1>0, <1>3, <2>2, <2>4, <2>5 DEF n
<1>7. ASSUME NEW p \in Procs, Crash(p) PROVE Backed'
  <2>1. leased' = [leased EXCEPT ![p] = 0] /\ UNCHANGED window
    BY <1>7 DEF Crash
  <2>2. OnLease' = OnLease - leased[p] + 0
    BY <1>0, <2>1, LeaseMoves
  <2> QED BY <1>0, <1>3, <2>1, <2>2 DEF window
<1>8. CASE Tick
  <2>1. leased' = leased
    BY <1>8 DEF Tick
  <2>2. CASE span < MaxSpan
    <3>1. OnLease' = OnLease
      BY <2>1 DEF OnLease, TokensOf
    <3> QED BY <1>0, <1>8, <2>2, <3>1 DEF Tick
  <2>3. CASE ~(span < MaxSpan)
    BY <1>4, <1>8, <2>1, <2>3 DEF Tick
  <2> QED BY <2>2, <2>3
<1>9. CASE Mark
  BY <1>4, <1>9 DEF Mark
<1>10. ASSUME NEW p \in Procs,
              \/ \E s \in Seats, n \in Sizes : Acquire(p, s, n)
              \/ Lock(p) \/ Refuse(p) \/ Wake(p) \/ FailClosed(p)
       PROVE  Backed'
  BY <1>1, <1>10 DEF Acquire, Lock, Refuse, Wake, FailClosed, window
<1>11. CASE UNCHANGED budgetVars
  BY <1>1, <1>11 DEF budgetVars
<1> QED
  BY <1>5, <1>6, <1>7, <1>8, <1>9, <1>10, <1>11 DEF BudgetNext, Work

LEMMA BackedInvariant == BudgetSpec => []Backed
<1>1. ASSUME BudgetInit PROVE Backed
  <2>1. leased \in [Procs -> Nat] /\ \A p \in Procs : leased[p] = 0
    BY <1>1 DEF BudgetInit
  <2>2. \A p \in Procs : TokensOf(p) = {}
    BY <2>1 DEF TokensOf
  <2>3. UNION {TokensOf(p) : p \in Procs} = {}
    BY <2>2
  <2>4. OnLease = 0
    BY <2>3, FS_EmptySet DEF OnLease
  <2> QED BY <1>1, <2>4, RateAssumption DEF BudgetInit, Backed, WindowOK, SpendBacked
<1>2. LimiterInv /\ Backed /\ [BudgetNext]_budgetVars => Backed'
  BY BackedStep
<1> QED BY <1>1, <1>2, LimiterInvariant, PTL DEF BudgetSpec

\* The row never overfills, a lease is never overdrawn, and a sleep never exceeds
\* what a token takes, for any number of processes.
THEOREM BudgetTyped == BudgetSpec => []BudgetTypeOK
<1>1. LimiterInv /\ Backed => BudgetTypeOK
  BY DEF LimiterInv, Backed, BudgetTypeOK
<1> QED
  BY <1>1, LimiterInvariant, BackedInvariant, PTL

\* No caller of any process sends a request on a token that the row did not
\* grant, or on one that another has used: not after a short grant, a crash or a
\* failure, for any number of processes and sizes of request.
THEOREM NothingForged == BudgetSpec => []SpendBacked
<1>1. Backed => SpendBacked
  BY DEF Backed
<1> QED
  BY <1>1, BackedInvariant, PTL

=============================================================================
