------------------------------- MODULE Nightly -------------------------------
(***************************************************************************)
(* The nights of the catalog, and a backfill that runs for hours through   *)
(* them.                                                                   *)
(*                                                                         *)
(* A delta (tmdb/update.py) mirrors the shows that changed, downloads the  *)
(* id export, and runs the passes of CatalogPasses one after the other,    *)
(* each in a transaction of its own whose failure costs nothing but the    *)
(* pass.  What the delta re-fetches and where its coverage begins is       *)
(* CatalogSync; here it mirrors any shows.                                 *)
(*                                                                         *)
(* A backfill is one of the three loops of credits_backfill.py,            *)
(* season_credits_backfill.py and recommendations_backfill.py: pages of    *)
(* the mirrored shows that lack its stamp, by keyset, one show per         *)
(* transaction, by hand and again until nothing is left.  The third takes  *)
(* shows by popularity, which a night rewrites under it.  What a show's    *)
(* payload writes is PayloadUpsert.                                        *)
(***************************************************************************)
EXTENDS CatalogPasses

CONSTANTS
    Shows,        \* surrogate ids
    Series,       \* TMDB ids
    Limits,       \* values of --limit; Null for none
    PageSize, FailureThreshold,
    Scenarios     \* what a behaviour explores: the mirror it starts from (rows),
                  \* what TMDB may hold (holdings: [listed, score, airs]), the order
                  \* of the backfill's work list or Null if none runs (order), and
                  \* bounds on midnights, edits of TMDB and faults that pass

Columns == {"tmdb", "deleted", "popularity", "dates", "lastAired", "synced", "stamped"}

\* A float; only its order counts.
Scored(popularity) == popularity = Null \/ popularity \in Int

ASSUME NightlyAssumption ==
    /\ FailureThreshold \in Nat \ {0} /\ PageSize \in Nat \ {0}
    /\ Null \in Limits /\ Limits \ {Null} \subseteq Nat \ {0}
    /\ Shows \subseteq Int /\ IsFiniteSet(Shows) /\ IsFiniteSet(Series)
    /\ \A s \in Scenarios : /\ DOMAIN s.rows = Shows
                            /\ \A i \in Shows : DOMAIN s.rows[i] = Columns
                            /\ \A i, j \in Shows : s.rows[i].tmdb = s.rows[j].tmdb =>
                                                      i = j \/ s.rows[i].tmdb = Null
                            /\ \A i \in Shows : Scored(s.rows[i].popularity)
                            /\ \A h \in s.holdings : h.listed \subseteq Series
                            /\ \A h \in s.holdings, t \in Series : Scored(h.score[t])
                            /\ s.order \in {Null, "id", "popularity"}
                            /\ {s.midnights, s.edits, s.faults} \subseteq Nat

VARIABLES
    scenario,\* never changes
    day,
    tmdb,    \* what TMDB holds
    broken,  \* the series no request for which ever succeeds, or whose responses
             \* lack what a backfill came for
    file,    \* the export that is published
    rows,    \* catalog.show
    night,   \* the delta
    fill,    \* the backfill
    rolled,  \* the day of the last roll-forward
    spent    \* edits and faults so far

vars == <<scenario, day, tmdb, broken, file, rows, night, fill, rolled, spent>>

Export(holding) == [ids |-> holding.listed, score |-> holding.score]
Idle == [at |-> "idle", today |-> 0, entries |-> <<>>]
\* owed is a ghost: the candidates the run found and has not considered, less
\* those that rose, from after all it had read, to before some of it.
Resting == [at |-> "idle", page |-> {}, cursor |-> Null, considered |-> 0,
            consecutive |-> 0, limit |-> Null, owed |-> {}]

Init ==
    /\ day = 0 /\ rolled = 0 /\ spent = [edits |-> 0, faults |-> 0]
    /\ scenario \in Scenarios
    /\ tmdb \in scenario.holdings /\ file = Export(tmdb)
    /\ broken \in {b \in SUBSET Series : Cardinality(b) < FailureThreshold}
    /\ rows = RecomputeLastAired(scenario.rows, 0, Shows)
    /\ night = Idle /\ fill = Resting

----------------------------------------------------------------------------
(* Upstream and the clock.                                                  *)

Edit(holding) ==
    /\ spent.edits < scenario.edits /\ holding # tmdb
    /\ tmdb' = holding /\ spent' = [spent EXCEPT !.edits = @ + 1]
    /\ UNCHANGED <<scenario, day, broken, file, rows, night, fill, rolled>>

Publish ==
    /\ file' = Export(tmdb)
    /\ UNCHANGED <<scenario, day, tmdb, broken, rows, night, fill, rolled, spent>>

Midnight ==
    /\ day < scenario.midnights /\ day' = day + 1
    /\ UNCHANGED <<scenario, tmdb, broken, file, rows, night, fill, rolled, spent>>

Fault == spent.faults < scenario.faults /\ spent' = [spent EXCEPT !.faults = @ + 1]

----------------------------------------------------------------------------
(* The order of a backfill, and what a night's writes do to it.             *)

\* coalesce(popularity, -1): an unscored show sorts last.
Key(r, s) == [popularity |-> IF r[s].popularity = Null THEN -1 ELSE r[s].popularity, id |-> s]

\* Keyset order: by id, or by popularity and id, both descending.
\* Mutant: the cursor is the popularity alone.
PastScore(c, k) ==
    IF scenario.order = "id" THEN k.id > c.id ELSE k.popularity < c.popularity
Past(c, k) ==
    IF scenario.order = "id" THEN k.id > c.id
    ELSE k.popularity < c.popularity \/ (k.popularity = c.popularity /\ k.id < c.id)
Earlier(a, b) ==
    IF scenario.order = "id" THEN a.id < b.id
    ELSE a.popularity > b.popularity \/ (a.popularity = b.popularity /\ a.id > b.id)

\* A key that comes after all that the run has read.
Ahead(k) == /\ fill.cursor = Null \/ Past(fill.cursor, k)
            /\ \A j \in fill.page : Earlier(j, k)
OnPage(s) == \E k \in fill.page : k.id = s
RosePast(r) == {s \in Shows : ~OnPage(s) /\ Ahead(Key(rows, s)) /\ ~Ahead(Key(r, s))}
Rewrite(r) == rows' = r /\ fill' = [fill EXCEPT !.owed = @ \ RosePast(r)]

----------------------------------------------------------------------------
(* The delta.                                                               *)

RunCatalogUpdate ==
    /\ night.at = "idle"
    /\ night' = [Idle EXCEPT !.at = "loop", !.today = day]
    /\ UNCHANGED <<scenario, day, tmdb, broken, file, rows, fill, rolled, spent>>

\* A whole payload lands: every stamp, and last_aired by the date of the write.
MirrorSeries(s) ==
    LET id == rows[s].tmdb
        landed == [rows EXCEPT ![s] = [@ EXCEPT !.synced = TRUE, !.stamped = TRUE,
                      !.popularity = tmdb.score[id], !.dates = tmdb.airs[id]]]
    IN /\ night.at = "loop" /\ id \in tmdb.listed \ broken
       /\ Rewrite(RecomputeLastAired(landed, day, {s}))
       /\ UNCHANGED <<scenario, day, tmdb, broken, file, night, rolled, spent>>

\* An aborted run reconciles nothing against a catalog it only half saw.
Aborts ==
    /\ night.at = "loop" /\ Fault
    /\ night' = Idle
    /\ UNCHANGED <<scenario, day, tmdb, broken, file, rows, fill, rolled>>

Mirrored ==
    /\ night.at = "loop"
    /\ night' = [night EXCEPT !.at = "export"]
    /\ UNCHANGED <<scenario, day, tmdb, broken, file, rows, fill, rolled, spent>>

Lines(ids) == [id \in ids |-> [id |-> id, popularity |-> file.score[id]]]
\* A file that arrives whole, or one that parses and is short.
FetchSeriesExport(ids) ==
    /\ night.at = "export" /\ ids # {}
    /\ IF ids = file.ids THEN UNCHANGED spent ELSE Fault
    /\ night' = [night EXCEPT !.at = "popularity", !.entries = ParseSeriesExport(Lines(ids))]
    /\ UNCHANGED <<scenario, day, tmdb, broken, file, rows, fill, rolled>>
\* None published, a body cut short, no ids: both passes are skipped.
DownloadFails ==
    /\ night.at = "export" /\ Fault
    /\ night' = [night EXCEPT !.at = "roll"]
    /\ UNCHANGED <<scenario, day, tmdb, broken, file, rows, fill, rolled>>

Popularity ==
    /\ night.at = "popularity"
    /\ Rewrite(RefreshPopularity(rows, night.entries))
    /\ night' = [night EXCEPT !.at = "tombstone"]
    /\ UNCHANGED <<scenario, day, tmdb, broken, file, rolled, spent>>

Tombstone ==
    /\ night.at = "tombstone"
    /\ rows' = ReconcileTombstones(rows, IdsOf(night.entries))
    /\ night' = [night EXCEPT !.at = "roll", !.entries = <<>>]
    /\ UNCHANGED <<scenario, day, tmdb, broken, file, fill, rolled, spent>>

\* By the date the run began with, and then the run is finalized.
RollForwardLastAired ==
    /\ night.at = "roll"
    /\ rows' = RecomputeLastAired(rows, night.today, Shows)
    /\ rolled' = night.today /\ night' = Idle
    /\ UNCHANGED <<scenario, day, tmdb, broken, file, fill, spent>>

\* A pass that raises is logged, and the run goes on.
PassFails ==
    /\ night.at \in {"popularity", "tombstone", "roll"} /\ Fault
    /\ night' = CASE night.at = "popularity" -> [night EXCEPT !.at = "tombstone"]
                  [] night.at = "tombstone" -> [night EXCEPT !.at = "roll", !.entries = <<>>]
                  [] night.at = "roll" -> Idle
    /\ UNCHANGED <<scenario, day, tmdb, broken, file, rows, fill, rolled>>

NightDies ==
    /\ night.at # "idle" /\ Fault
    /\ night' = Idle
    /\ UNCHANGED <<scenario, day, tmdb, broken, file, rows, fill, rolled>>

----------------------------------------------------------------------------
(* The backfill.                                                            *)

Needs(r) == {s \in DOMAIN r : r[s].tmdb # Null /\ r[s].synced /\ ~r[s].stamped}

\* What is left of the work list, and as much of it as a page takes.
Waiting == {k \in {Key(rows, s) : s \in Needs(rows)} : fill.cursor = Null \/ Past(fill.cursor, k)}
Before(keys, k) == {j \in keys : Earlier(j, k)}
Candidates(take) == {k \in Waiting : Cardinality(Before(Waiting, k)) < take}
First(page) == CHOOSE k \in page : Before(page, k) = {}

Backfill(limit) ==
    /\ scenario.order # Null /\ fill.at = "idle"
    /\ fill' = [Resting EXCEPT !.at = "run", !.limit = limit, !.owed = Needs(rows)]
    /\ UNCHANGED <<scenario, day, tmdb, broken, file, rows, night, rolled, spent>>

Take == IF fill.limit = Null THEN PageSize
        ELSE IF fill.limit - fill.considered < PageSize THEN fill.limit - fill.considered ELSE PageSize
Spent == fill.page = {} /\ (Take = 0 \/ Candidates(Take) = {})

NextPage ==
    /\ fill.at = "run" /\ fill.page = {} /\ ~Spent
    /\ fill' = [fill EXCEPT !.page = Candidates(Take)]
    /\ UNCHANGED <<scenario, day, tmdb, broken, file, rows, night, rolled, spent>>

BackfillEnds ==
    /\ fill.at = "run" /\ Spent
    /\ fill' = Resting
    /\ UNCHANGED <<scenario, day, tmdb, broken, file, rows, night, rolled, spent>>

\* The next of the page, as it was when the page was read.
Considered ==
    LET next == First(fill.page) IN
    [fill EXCEPT !.page = @ \ {next}, !.cursor = next,
                 !.considered = @ + 1, !.owed = @ \ {next.id}]
AtShow(id) == fill.at = "run" /\ fill.page # {} /\ rows[First(fill.page).id].tmdb = id
OneMore(f) == IF f.consecutive + 1 >= FailureThreshold THEN Resting ELSE [f EXCEPT !.consecutive = @ + 1]

\* Rows and stamp in one transaction, although the delta may have stamped it since.
BackfillShow(id) ==
    /\ AtShow(id) /\ id \in tmdb.listed \ broken
    /\ rows' = [rows EXCEPT ![First(fill.page).id].stamped = TRUE]
    /\ fill' = [Considered EXCEPT !.consecutive = 0]
    /\ UNCHANGED <<scenario, day, tmdb, broken, file, night, rolled, spent>>

\* Mutant: a 404 counts towards the abort.
GoneCounts(id) ==
    /\ AtShow(id) /\ id \notin tmdb.listed
    /\ fill' = OneMore(Considered)
    /\ UNCHANGED <<scenario, day, tmdb, broken, file, rows, night, rolled, spent>>
\* 404: left unstamped, and neither a failure in a row nor the end of one.
GoneUpstream(id) ==
    /\ AtShow(id) /\ id \notin tmdb.listed
    /\ fill' = Considered
    /\ UNCHANGED <<scenario, day, tmdb, broken, file, rows, night, rolled, spent>>

\* The request, for a show that is gone too, the missing namespace or the
\* transaction: rolled back.
BackfillFails(id) ==
    /\ AtShow(id)
    /\ IF id \in broken THEN UNCHANGED spent ELSE Fault
    /\ fill' = OneMore(Considered)
    /\ UNCHANGED <<scenario, day, tmdb, broken, file, rows, night, rolled>>

\* "A pass killed at any point."
BackfillDies ==
    /\ fill.at = "run" /\ Fault
    /\ fill' = Resting
    /\ UNCHANGED <<scenario, day, tmdb, broken, file, rows, night, rolled>>

----------------------------------------------------------------------------
NightStep == Mirrored \/ FetchSeriesExport(file.ids) \/ Popularity \/ Tombstone \/ RollForwardLastAired
FillStep ==
    \/ NextPage \/ BackfillEnds
    \/ \E id \in Series : BackfillShow(id) \/ GoneUpstream(id) \/ (id \in broken /\ BackfillFails(id))

Next ==
    \/ \E h \in scenario.holdings : Edit(h)
    \/ Publish \/ Midnight
    \/ RunCatalogUpdate \/ NightStep \/ Aborts \/ DownloadFails \/ PassFails \/ NightDies
    \/ \E s \in Shows : MirrorSeries(s)
    \/ \E ids \in SUBSET file.ids : FetchSeriesExport(ids)
    \/ \E limit \in Limits : Backfill(limit)
    \/ FillStep \/ BackfillDies
    \/ \E id \in Series : BackfillFails(id)

\* An export is published daily, the delta is scheduled nightly and each of its
\* steps returns; a backfill is run again, and now and then without a limit.
Fairness ==
    /\ WF_vars(Publish) /\ WF_vars(RunCatalogUpdate) /\ WF_vars(NightStep)
    /\ SF_vars(Backfill(Null)) /\ WF_vars(FillStep)

Spec == Init /\ [][Next]_vars /\ Fairness

----------------------------------------------------------------------------
TypeOK ==
    /\ day \in 0 .. scenario.midnights /\ rolled \in 0 .. day
    /\ tmdb \in scenario.holdings /\ file.ids \subseteq Series
    /\ night.at \in {"idle", "loop", "export", "popularity", "tombstone", "roll"}
    /\ fill.at \in {"idle", "run"} /\ fill.consecutive \in 0 .. FailureThreshold - 1
    /\ \A s \in Shows :
          /\ rows[s].tmdb \in Series \cup {Null}
          /\ {rows[s].deleted, rows[s].synced, rows[s].stamped} \subseteq BOOLEAN
          /\ rows[s].tmdb = Null => ~rows[s].deleted /\ ~rows[s].synced

WronglyPurged == {s \in Live(rows) : rows'[s].deleted /\ rows[s].tmdb \in file.ids}
PurgeRoom == RelativeDen * Cardinality(file.ids)
             - RelativeNum * Larger(Cardinality(Live(rows)), MeasuredExport)
(* A file that is short, however short, tombstones at most the share of the *)
(* catalog the floors leave open, of the shows the published export lists;  *)
(* and no file, short or whole, tombstones a show that is not TMDB's: one   *)
(* authored or copied here, which no export lists (tmdb/tombstone.py,       *)
(* feed_is_implausible).                                                    *)
PurgeBounded ==
    [][/\ \A s \in Shows : rows'[s].deleted /\ ~rows[s].deleted => rows[s].tmdb # Null
       /\ file' = file /\ WronglyPurged # {} /\ IdsOf(night.entries) \subseteq file.ids
            => RelativeDen * Cardinality(WronglyPurged) <= PurgeRoom]_vars

(* A backfill without a limit that comes to its end has considered every    *)
(* show that lacked its stamp when it began, whatever the delta stamps and  *)
(* rewrites meanwhile; by popularity, save those that rose past its cursor, *)
(* or past the end of the page in hand, while they waited behind it         *)
(* (recommendations_backfill.py, _CANDIDATES).                              *)
NoneSkipped ==
    [][fill.at = "run" /\ Spent /\ fill'.at = "idle" /\ fill.limit = Null /\ spent' = spent
       => fill.owed \cap Needs(rows) = {}]_vars

(* Run again and again, a backfill stamps every mirrored show that TMDB     *)
(* serves: neither the shows that always fail nor those that are gone keep  *)
(* it from the others (credits_backfill.py, backfill_credits).              *)
Filled ==
    \A s \in Shows :
        []<>(\/ s \notin Needs(rows) \/ scenario.order = Null
             \/ rows[s].tmdb \notin tmdb.listed \ broken)

(* The mirror comes to agree with TMDB on what is gone: a series that is    *)
(* deleted is tombstoned, one that returns is resurrected, and tombstones   *)
(* never add up to a mirror that refuses its exports (tombstone.py, live);  *)
(* unless what TMDB lists has shrunk past the floor for good.               *)
Settles ==
    <>[](\/ FeedIsImplausible(Cardinality(tmdb.listed), Cardinality(Live(rows)))
         \/ \A s \in Shows : rows[s].tmdb # Null =>
                (rows[s].deleted = (rows[s].tmdb \notin tmdb.listed)))

(* last_aired is the latest air date by some day that is not before the     *)
(* last roll-forward, also once a date moved or went (catalog/last_aired.py *)
(* and its callers): browse never sorts by a date that is no episode's.     *)
LastAiredFits ==
    \A s \in Shows :
        \E d \in rolled .. day : rows[s].lastAired = LatestBy(rows[s].dates, d)
=============================================================================
