------------------------------ MODULE JobsProofs ------------------------------
(***************************************************************************)
(* The scheduled jobs.  Of the nightly ones, for any catalog, floors and   *)
(* scenarios: what a short export can cost (PurgeBounded), that tombstones *)
(* do not make the mirror refuse its next export, that last_aired is       *)
(* always the date of some recent day (LastAiredFits), and that a backfill *)
(* by keyset steps over nobody (NoneSkipped).  Of the weekly one, for any  *)
(* users, catalog and passes: that no payload is paid for twice            *)
(* (PaidOnce), that a pass takes nobody's recommendations away             *)
(* (ShownStands), and that what it lets stand can be shown whole           *)
(* (SkipKeepsWhole).  None of them rests on fairness.                      *)
(***************************************************************************)
EXTENDS Nightly, Recommendations, FiniteSetTheorems, TLAPS

-----------------------------------------------------------------------------
(* The nightly jobs                                                        *)

(* The rows keep their columns and their TMDB ids, which no two rows share. *)
RowsWhole ==
    /\ DOMAIN rows = Shows
    /\ \A s \in Shows : DOMAIN rows[s] = Columns
    /\ \A s, t \in Shows : rows[s].tmdb = rows[t].tmdb => s = t \/ rows[s].tmdb = Null
Dates ==
    /\ day \in Nat /\ rolled \in Nat /\ rolled <= day
    /\ DOMAIN night = {"at", "today", "entries"}
    /\ night.at # "idle" => night.today \in Nat /\ rolled <= night.today /\ night.today <= day
Upstream ==
    /\ scenario \in Scenarios /\ tmdb \in scenario.holdings
    /\ file.ids \subseteq Series
NightlyInv == RowsWhole /\ Dates /\ Upstream /\ LastAiredFits

\* A rewrite of the rows that leaves columns, ids and the two dates of each alone.
Quiet(r) ==
    /\ DOMAIN r = Shows
    /\ \A s \in Shows : /\ DOMAIN r[s] = Columns /\ r[s].tmdb = rows[s].tmdb
                        /\ r[s].dates = rows[s].dates /\ r[s].lastAired = rows[s].lastAired

LEMMA RefreshIsQuiet ==
    ASSUME RowsWhole, NEW entries PROVE Quiet(RefreshPopularity(rows, entries))
BY DEF RowsWhole, Quiet, RefreshPopularity, Columns

LEMMA ReconcileIsQuiet ==
    ASSUME RowsWhole, NEW feed PROVE Quiet(ReconcileTombstones(rows, feed))
BY DEF RowsWhole, Quiet, ReconcileTombstones, Columns

LEMMA RecomputeRolls ==
    ASSUME NEW r, DOMAIN r = Shows, \A s \in Shows : DOMAIN r[s] = Columns,
           NEW today, NEW scope
    PROVE  LET done == RecomputeLastAired(r, today, scope)
           IN /\ DOMAIN done = Shows
              /\ \A s \in Shows :
                    /\ DOMAIN done[s] = Columns /\ done[s].tmdb = r[s].tmdb
                    /\ done[s].deleted = r[s].deleted /\ done[s].dates = r[s].dates
                    /\ done[s].lastAired = IF s \in scope THEN LatestBy(r[s].dates, today)
                                           ELSE r[s].lastAired
BY DEF RecomputeLastAired, Columns

LEMMA ExportWithin ==
    ASSUME NEW c \in Scenarios, NEW h \in c.holdings
    PROVE  Export(h).ids \subseteq Series
<1>1. \A g \in c.holdings : g.listed \subseteq Series
  BY NightlyAssumption, Zenon
<1>2. h.listed \subseteq Series
  BY <1>1, Zenon
<1> QED BY <1>2 DEF Export

LEMMA InitInv == Init => NightlyInv
<1> SUFFICES ASSUME Init PROVE NightlyInv
  OBVIOUS
<1>1. Upstream /\ Dates
  <2>1. Upstream
    BY ExportWithin DEF Init, Upstream
  <2>2. Dates
    BY DEF Init, Dates, Idle
  <2> QED BY <2>1, <2>2
<1>2. /\ DOMAIN scenario.rows = Shows
      /\ \A s \in Shows : DOMAIN scenario.rows[s] = Columns
      /\ \A s, t \in Shows : scenario.rows[s].tmdb = scenario.rows[t].tmdb =>
                               s = t \/ scenario.rows[s].tmdb = Null
  <2>1. scenario \in Scenarios
    BY <1>1 DEF Upstream
  <2> QED BY <2>1, NightlyAssumption, Zenon
<1>3. rows = RecomputeLastAired(scenario.rows, 0, Shows)
  BY DEF Init
<1>4. RowsWhole
  BY <1>1, <1>2, <1>3, RecomputeRolls DEF RowsWhole, Upstream
<1>5. LastAiredFits
  <2>1. \A s \in Shows : rows[s].lastAired = LatestBy(rows[s].dates, 0)
    BY <1>2, <1>3, RecomputeRolls
  <2>2. day = 0 /\ rolled = 0
    BY DEF Init
  <2> QED BY <2>1, <2>2 DEF LastAiredFits
<1> QED BY <1>1, <1>4, <1>5 DEF NightlyInv

\* Steps that leave the rows' dates alone, whatever else they do to them.
LEMMA QuietStep ==
    ASSUME NightlyInv, Quiet(rows'), day' \in Nat, day <= day', rolled' = rolled
    PROVE  RowsWhole' /\ LastAiredFits'
<1>1. RowsWhole'
  BY DEF NightlyInv, RowsWhole, Quiet
<1>2. \A d \in rolled .. day : d \in rolled' .. day'
  BY DEF NightlyInv, Dates
<1>3. LastAiredFits'
  BY <1>2 DEF NightlyInv, LastAiredFits, Quiet
<1> QED BY <1>1, <1>3

LEMMA NextInv == NightlyInv /\ [Next]_vars => NightlyInv'
<1> SUFFICES ASSUME NightlyInv, [Next]_vars PROVE NightlyInv'
  OBVIOUS
<1> USE DEF NightlyInv
<1>0. RowsWhole => Quiet(rows)
  BY DEF RowsWhole, Quiet
<1>1. ASSUME NEW h \in scenario.holdings, Edit(h) PROVE NightlyInv'
  <2>1. /\ tmdb' = h /\ scenario' = scenario /\ file' = file /\ rows' = rows
        /\ day' = day /\ rolled' = rolled /\ night' = night
    BY <1>1 DEF Edit
  <2>2. Dates' /\ Upstream'
    BY <2>1 DEF Dates, Upstream
  <2> QED BY <1>0, <2>1, <2>2, QuietStep DEF Dates
<1>2. CASE Publish
  <2>1. /\ file' = Export(tmdb) /\ scenario' = scenario /\ tmdb' = tmdb /\ rows' = rows
        /\ day' = day /\ rolled' = rolled /\ night' = night
    BY <1>2 DEF Publish
  <2>2. Dates' /\ Upstream'
    BY <2>1, ExportWithin DEF Dates, Upstream
  <2> QED BY <1>0, <2>1, <2>2, QuietStep DEF Dates
<1>3. CASE Midnight
  <2>1. day' = day + 1 /\ rolled' = rolled /\ rows' = rows /\ night' = night
    BY <1>3 DEF Midnight
  <2>2. Dates'
    BY <2>1 DEF Dates
  <2>3. Upstream'
    BY <1>3 DEF Midnight, Upstream
  <2> QED BY <1>0, <2>1, <2>2, <2>3, QuietStep DEF Dates
<1>4. CASE RunCatalogUpdate
  BY <1>0, <1>4, QuietStep DEF RunCatalogUpdate, Dates, Upstream, Idle
<1>5. CASE Aborts \/ NightDies
  BY <1>0, <1>5, QuietStep DEF Aborts, NightDies, Dates, Upstream, Idle
<1>6. CASE Mirrored \/ DownloadFails \/ PassFails
  <2>1. /\ UNCHANGED <<scenario, tmdb, file, rows, day, rolled>>
        /\ night.at # "idle"
        /\ \/ DOMAIN night' = DOMAIN night /\ night'.today = night.today
           \/ night' = Idle
    BY <1>6 DEF Mirrored, DownloadFails, PassFails, Dates
  <2>2. Dates' /\ Upstream'
    BY <2>1 DEF Dates, Upstream, Idle
  <2> QED BY <1>0, <2>1, <2>2, QuietStep DEF Dates
<1>7. ASSUME NEW ids, FetchSeriesExport(ids) PROVE NightlyInv'
  BY <1>0, <1>7, QuietStep DEF FetchSeriesExport, Dates, Upstream
<1>8. CASE Popularity
  <2>1. Quiet(rows')
    BY <1>8, RefreshIsQuiet DEF Popularity, Rewrite
  <2>2. Dates' /\ Upstream' /\ day' = day /\ rolled' = rolled
    BY <1>8 DEF Popularity, Dates, Upstream
  <2> QED BY <2>1, <2>2, QuietStep DEF Dates
<1>9. CASE Tombstone
  <2>1. Quiet(rows')
    BY <1>9, ReconcileIsQuiet DEF Tombstone
  <2>2. Dates' /\ Upstream' /\ day' = day /\ rolled' = rolled
    BY <1>9 DEF Tombstone, Dates, Upstream
  <2> QED BY <2>1, <2>2, QuietStep DEF Dates
<1>10. CASE RollForwardLastAired
  <2>1. /\ rows' = RecomputeLastAired(rows, night.today, Shows)
        /\ rolled' = night.today /\ day' = day
    BY <1>10 DEF RollForwardLastAired
  <2>2. Dates' /\ Upstream' /\ night.today \in rolled' .. day'
    BY <1>10 DEF RollForwardLastAired, Dates, Upstream, Idle
  <2>3. RowsWhole'
    BY <2>1, RecomputeRolls DEF RowsWhole
  <2>4. \A s \in Shows : rows'[s].lastAired = LatestBy(rows'[s].dates, night.today)
    BY <2>1, RecomputeRolls DEF RowsWhole
  <2> QED BY <2>2, <2>3, <2>4 DEF LastAiredFits
<1>11. ASSUME NEW s \in Shows, MirrorSeries(s) PROVE NightlyInv'
  <2> DEFINE landed == [rows EXCEPT ![s] = [@ EXCEPT !.synced = TRUE, !.stamped = TRUE,
                            !.popularity = tmdb.score[rows[s].tmdb], !.dates = tmdb.airs[rows[s].tmdb]]]
  <2>1. rows' = RecomputeLastAired(landed, day, {s})
    BY <1>11 DEF MirrorSeries, Rewrite
  <2>2. /\ DOMAIN landed = Shows
        /\ \A t \in Shows : /\ DOMAIN landed[t] = Columns /\ landed[t].tmdb = rows[t].tmdb
                            /\ t # s => landed[t] = rows[t]
    BY DEF RowsWhole, Columns
  <2>3. Dates' /\ Upstream' /\ day' = day /\ rolled' = rolled
    BY <1>11 DEF MirrorSeries, Dates, Upstream
  <2> HIDE DEF landed
  <2>4. /\ DOMAIN rows' = Shows
        /\ \A t \in Shows :
              /\ DOMAIN rows'[t] = Columns /\ rows'[t].tmdb = rows[t].tmdb
              /\ t # s => rows'[t].dates = rows[t].dates /\ rows'[t].lastAired = rows[t].lastAired
              /\ rows'[s].lastAired = LatestBy(rows'[s].dates, day)
    BY <2>1, <2>2, RecomputeRolls
  <2>5. RowsWhole'
    BY <2>4 DEF RowsWhole
  <2>6. LastAiredFits'
    BY <2>3, <2>4 DEF LastAiredFits, Dates
  <2> QED BY <2>3, <2>5, <2>6
<1>12. ASSUME NEW limit, Backfill(limit) PROVE NightlyInv'
  BY <1>0, <1>12, QuietStep DEF Backfill, Dates, Upstream
<1>13. CASE NextPage \/ BackfillEnds \/ BackfillDies
  BY <1>0, <1>13, QuietStep DEF NextPage, BackfillEnds, BackfillDies, Dates, Upstream
<1>14. ASSUME NEW id, GoneUpstream(id) \/ BackfillFails(id) PROVE NightlyInv'
  BY <1>0, <1>14, QuietStep DEF GoneUpstream, BackfillFails, Dates, Upstream
<1>15. ASSUME NEW id, BackfillShow(id) PROVE NightlyInv'
  <2>1. Quiet(rows')
    BY <1>15 DEF BackfillShow, RowsWhole, Quiet, Columns
  <2>2. Dates' /\ Upstream' /\ day' = day /\ rolled' = rolled
    BY <1>15 DEF BackfillShow, Dates, Upstream
  <2> QED BY <2>1, <2>2, QuietStep DEF Dates
<1>16. CASE UNCHANGED vars
  BY <1>0, <1>16, QuietStep DEF vars, Dates, Upstream
<1> QED
  BY <1>1, <1>2, <1>3, <1>4, <1>5, <1>6, <1>7, <1>8, <1>9, <1>10, <1>11, <1>12, <1>13,
     <1>14, <1>15, <1>16 DEF Next, NightStep, FillStep

LEMMA InvHolds == Spec => []NightlyInv
BY InitInv, NextInv, PTL DEF Spec

\* last_aired is the latest air date by some day that is not before the last
\* roll-forward and not after today (catalog/last_aired.py).
THEOREM LastAiredAlwaysFits == Spec => []LastAiredFits
<1>1. NightlyInv => LastAiredFits
  BY DEF NightlyInv
<1> QED BY <1>1, InvHolds, PTL

----------------------------------------------------------------------------
(* What the floors leave open. *)

LEMMA Scaled ==
    ASSUME NEW k \in Nat, NEW a \in Int, NEW b \in Int, a <= b
    PROVE  k * a <= k * b
<1>1. b - a \in Nat
  OBVIOUS
<1>2. k * (b - a) \in Nat
  BY <1>1
<1>3. k * (b - a) = k * b - k * a
  OBVIOUS
<1> QED BY <1>2, <1>3

LEMMA LiveIsFinite ==
    ASSUME DOMAIN rows = Shows
    PROVE  IsFiniteSet(Live(rows)) /\ Cardinality(Live(rows)) \in Nat
BY NightlyAssumption, FS_Subset, FS_CardinalityType DEF Live

\* Shows of the mirror with a TMDB id are no more than the ids they have.
LEMMA AtMostOneShowAnId ==
    ASSUME RowsWhole, NEW some \in SUBSET Shows, NEW ids, IsFiniteSet(ids),
           \A s \in some : rows[s].tmdb # Null /\ rows[s].tmdb \in ids
    PROVE  Cardinality(some) <= Cardinality(ids)
<1> DEFINE f == [s \in some |-> rows[s].tmdb]
<1>1. f \in [some -> ids]
  OBVIOUS
<1>2. \A s, t \in some : f[s] = f[t] => s = t
  BY DEF RowsWhole
<1>3. f \in Injection(some, ids)
  BY <1>1, <1>2 DEF Injection, IsInjective
<1> QED BY <1>3, FS_Injection

LEMMA FloorHolds ==
    ASSUME NEW size \in Nat, NEW mirrored \in Nat, ~FeedIsImplausible(size, mirrored)
    PROVE  /\ Larger(mirrored, MeasuredExport) \in Nat
           /\ RelativeNum * Larger(mirrored, MeasuredExport) <= RelativeDen * size
<1>1. RelativeNum \in Nat /\ RelativeDen \in Nat /\ MeasuredExport \in Nat
  BY FloorAssumption
<1>2. Larger(mirrored, MeasuredExport) \in Nat
  BY <1>1 DEF Larger
<1>3. ~(RelativeDen * size < RelativeNum * Larger(mirrored, MeasuredExport))
  BY DEF FeedIsImplausible
<1>4. RelativeDen * size \in Nat /\ RelativeNum * Larger(mirrored, MeasuredExport) \in Nat
  BY <1>1, <1>2
<1> QED BY <1>2, <1>3, <1>4

\* A reconciliation against part of a list, and what it takes of that list.
LEMMA TombstoneBound ==
    ASSUME RowsWhole, NEW listed, IsFiniteSet(listed), NEW feed \in SUBSET listed,
           NEW wrong, wrong # {},
           wrong = {s \in Live(rows) : ReconcileTombstones(rows, feed)[s].deleted
                                       /\ rows[s].tmdb \in listed}
    PROVE  RelativeDen * Cardinality(wrong) <=
               RelativeDen * Cardinality(listed)
               - RelativeNum * Larger(Cardinality(Live(rows)), MeasuredExport)
<1> DEFINE live == Cardinality(Live(rows))
<1>1. wrong \subseteq Live(rows) /\ Live(rows) \subseteq Shows /\ live \in Nat
  BY LiveIsFinite DEF Live, RowsWhole
<1>2. IsFiniteSet(feed) /\ Cardinality(feed) \in Nat /\ Cardinality(listed) \in Nat
  BY FS_Subset, FS_CardinalityType
<1>3. ~FeedIsImplausible(Cardinality(feed), live)
  <2>1. SUFFICES ASSUME FeedIsImplausible(Cardinality(feed), live) PROVE FALSE
    OBVIOUS
  <2>2. ReconcileTombstones(rows, feed) = rows
    BY <2>1 DEF ReconcileTombstones
  <2> QED BY <2>2 DEF Live
<1>4. \A s \in wrong : rows[s].tmdb # Null /\ rows[s].tmdb \in listed \ feed
  <2>1. ReconcileTombstones(rows, feed) =
            [s \in Shows |-> IF rows[s].tmdb = Null THEN rows[s]
                             ELSE [rows[s] EXCEPT !.deleted = rows[s].tmdb \notin feed]]
    BY <1>3 DEF ReconcileTombstones, RowsWhole
  <2>2. ASSUME NEW s \in Shows, rows[s].tmdb # Null
        PROVE  ReconcileTombstones(rows, feed)[s].deleted = (rows[s].tmdb \notin feed)
    <3>1. ReconcileTombstones(rows, feed)[s] =
              [rows[s] EXCEPT !.deleted = rows[s].tmdb \notin feed]
      BY <2>1, <2>2, Zenon
    <3>2. "deleted" \in DOMAIN rows[s]
      BY DEF Columns, RowsWhole
    <3> QED BY <3>1, <3>2, Zenon
  <2>3. \A s \in wrong : s \in Shows /\ rows[s].tmdb # Null /\ rows[s].tmdb \in listed
    BY <1>1 DEF Live, RowsWhole
  <2>4. \A s \in wrong : ReconcileTombstones(rows, feed)[s].deleted
    OBVIOUS
  <2> QED BY <2>2, <2>3, <2>4, Zenon
<1>5. /\ IsFiniteSet(listed \ feed)
      /\ Cardinality(listed \ feed) = Cardinality(listed) - Cardinality(feed)
  <2>1. listed \cap feed = feed
    OBVIOUS
  <2> QED BY <2>1, FS_Difference
<1>6. Cardinality(wrong) <= Cardinality(listed) - Cardinality(feed)
  BY <1>1, <1>4, <1>5, AtMostOneShowAnId
<1>7. Cardinality(wrong) \in Nat
  BY <1>1, LiveIsFinite, FS_Subset, FS_CardinalityType DEF RowsWhole
<1>8. RelativeDen \in Nat /\ RelativeNum \in Nat
  BY FloorAssumption
<1>9. RelativeDen * Cardinality(wrong) <= RelativeDen * (Cardinality(listed) - Cardinality(feed))
  BY <1>2, <1>6, <1>7, <1>8, Scaled
<1>10. RelativeDen * (Cardinality(listed) - Cardinality(feed))
        = RelativeDen * Cardinality(listed) - RelativeDen * Cardinality(feed)
  BY <1>2, <1>8
<1>11. /\ Larger(live, MeasuredExport) \in Nat
       /\ RelativeNum * Larger(live, MeasuredExport) <= RelativeDen * Cardinality(feed)
  BY <1>1, <1>2, <1>3, FloorHolds
<1>12. /\ RelativeDen * Cardinality(wrong) \in Int /\ RelativeDen * Cardinality(listed) \in Int
       /\ RelativeDen * Cardinality(feed) \in Int
       /\ RelativeNum * Larger(live, MeasuredExport) \in Int
  BY <1>2, <1>7, <1>8, <1>11
<1> QED BY <1>9, <1>10, <1>11, <1>12

\* Tombstones are not counted as mirrored: whatever feed was accepted, one that is
\* no smaller is accepted by the mirror it left behind (tombstone.py, live).
THEOREM AcceptedAgain ==
    ASSUME RowsWhole, NEW feed, IsFiniteSet(feed), NEW next, IsFiniteSet(next),
           Cardinality(feed) <= Cardinality(next),
           ~FeedIsImplausible(Cardinality(feed), Cardinality(Live(rows)))
    PROVE  ~FeedIsImplausible(Cardinality(next),
                              Cardinality(Live(ReconcileTombstones(rows, feed))))
<1> DEFINE done == ReconcileTombstones(rows, feed)
           left == Live(done)
<1>1. done = [s \in Shows |-> IF rows[s].tmdb = Null THEN rows[s]
                  ELSE [rows[s] EXCEPT !.deleted = rows[s].tmdb \notin feed]]
  BY DEF ReconcileTombstones, RowsWhole
<1>2. left \subseteq Shows /\ \A s \in left : rows[s].tmdb # Null /\ rows[s].tmdb \in feed
  BY <1>1 DEF Live, RowsWhole, Columns
<1> HIDE DEF done, left
<1>3. Cardinality(left) <= Cardinality(feed) /\ Cardinality(left) \in Nat
  BY <1>2, AtMostOneShowAnId, NightlyAssumption, FS_Subset, FS_CardinalityType
<1>4. Cardinality(feed) \in Nat /\ Cardinality(next) \in Nat /\ Cardinality(Live(rows)) \in Nat
  BY FS_CardinalityType, LiveIsFinite DEF RowsWhole
<1>5. /\ RelativeNum \in Nat /\ RelativeDen \in Nat /\ MeasuredExport \in Nat
      /\ RelativeNum <= RelativeDen /\ MinFeedAbsolute \in Nat
  BY FloorAssumption
<1> DEFINE floor == Larger(Cardinality(left), MeasuredExport)
<1>6. RelativeNum * floor <= RelativeDen * Cardinality(feed)
  <2>1. CASE floor = MeasuredExport
    <3>1. MeasuredExport <= Larger(Cardinality(Live(rows)), MeasuredExport)
      BY <1>4, <1>5 DEF Larger
    <3>2. /\ Larger(Cardinality(Live(rows)), MeasuredExport) \in Nat
          /\ RelativeNum * Larger(Cardinality(Live(rows)), MeasuredExport)
             <= RelativeDen * Cardinality(feed)
      BY <1>4, FloorHolds
    <3>3. RelativeNum * MeasuredExport
             <= RelativeNum * Larger(Cardinality(Live(rows)), MeasuredExport)
      BY <1>5, <3>1, <3>2, Scaled
    <3>4. /\ RelativeNum * MeasuredExport \in Int /\ RelativeDen * Cardinality(feed) \in Int
          /\ RelativeNum * Larger(Cardinality(Live(rows)), MeasuredExport) \in Int
      BY <1>4, <1>5, <3>2
    <3> QED BY <2>1, <3>2, <3>3, <3>4
  <2>2. CASE floor = Cardinality(left)
    <3>1. RelativeNum * Cardinality(left) <= RelativeNum * Cardinality(feed)
      BY <1>3, <1>4, <1>5, Scaled
    <3>2. Cardinality(feed) * RelativeNum <= Cardinality(feed) * RelativeDen
      BY <1>4, <1>5, Scaled
    <3>3. /\ Cardinality(feed) * RelativeNum = RelativeNum * Cardinality(feed)
          /\ Cardinality(feed) * RelativeDen = RelativeDen * Cardinality(feed)
      BY <1>4, <1>5
    <3>4. /\ RelativeNum * Cardinality(left) \in Int /\ RelativeNum * Cardinality(feed) \in Int
          /\ RelativeDen * Cardinality(feed) \in Int
      BY <1>3, <1>4, <1>5
    <3> QED BY <2>2, <3>1, <3>2, <3>3, <3>4
  <2> QED BY <2>1, <2>2 DEF Larger
<1>7. RelativeDen * Cardinality(feed) <= RelativeDen * Cardinality(next)
  BY <1>4, <1>5, Scaled
<1>8. ~(Cardinality(next) < MinFeedAbsolute)
  BY <1>4, <1>5 DEF FeedIsImplausible
<1>9. floor \in Nat
  BY <1>3, <1>5 DEF Larger
<1>10. /\ RelativeNum * floor \in Int /\ RelativeDen * Cardinality(feed) \in Int
       /\ RelativeDen * Cardinality(next) \in Int
  BY <1>4, <1>5, <1>9
<1>11. ~(RelativeDen * Cardinality(next) < RelativeNum * floor)
  BY <1>6, <1>7, <1>10
<1> QED BY <1>8, <1>11 DEF FeedIsImplausible, left, done

\* No step but the reconciliation tombstones a show.
LEMMA OthersSpare ==
    ASSUME NightlyInv, [Next]_vars, ~Tombstone, NEW s \in Shows
    PROVE  rows'[s].deleted = rows[s].deleted
<1> SUFFICES ASSUME rows' # rows PROVE rows'[s].deleted = rows[s].deleted
  OBVIOUS
<1>0. s \in Shows /\ RowsWhole /\ DOMAIN rows[s] = Columns
  BY DEF NightlyInv, RowsWhole
<1>1. CASE Popularity
  BY <1>0, <1>1 DEF Popularity, Rewrite, RefreshPopularity, RowsWhole, Columns
<1>2. CASE RollForwardLastAired
  BY <1>0, <1>2, RecomputeRolls DEF RollForwardLastAired, RowsWhole
<1>3. ASSUME NEW t \in Shows, MirrorSeries(t) PROVE rows'[s].deleted = rows[s].deleted
  <2> DEFINE landed == [rows EXCEPT ![t] = [@ EXCEPT !.synced = TRUE, !.stamped = TRUE,
                            !.popularity = tmdb.score[rows[t].tmdb], !.dates = tmdb.airs[rows[t].tmdb]]]
  <2>1. rows' = RecomputeLastAired(landed, day, {t})
    BY <1>3 DEF MirrorSeries, Rewrite
  <2>2. /\ DOMAIN landed = Shows /\ \A u \in Shows : DOMAIN landed[u] = Columns
        /\ landed[s].deleted = rows[s].deleted
    BY <1>0 DEF RowsWhole, Columns
  <2> HIDE DEF landed
  <2> QED BY <1>0, <2>1, <2>2, RecomputeRolls
<1>4. ASSUME NEW id, BackfillShow(id) PROVE rows'[s].deleted = rows[s].deleted
  BY <1>0, <1>4 DEF BackfillShow, RowsWhole, Columns
<1>5. \/ Popularity \/ RollForwardLastAired \/ \E t \in Shows : MirrorSeries(t)
      \/ \E id \in Series : BackfillShow(id)
  BY DEF Next, NightStep, FillStep, vars, Edit, Publish, Midnight, RunCatalogUpdate, Mirrored,
         FetchSeriesExport, Aborts, DownloadFails, PassFails, NightDies, Backfill, NextPage,
         BackfillEnds, GoneUpstream, BackfillFails, BackfillDies
<1> QED BY <1>1, <1>2, <1>3, <1>4, <1>5

\* A show without a TMDB id keeps whatever tombstone it has or has not: the
\* reconciliation leaves it alone (reconcile_tombstones, tmdb_id.is_not(None)).
LEMMA LocalSpared ==
    ASSUME NightlyInv, [Next]_vars, NEW s \in Shows, rows'[s].deleted, ~rows[s].deleted
    PROVE  rows[s].tmdb # Null
<1>1. Tombstone
  BY OthersSpare
<1>2. rows' = ReconcileTombstones(rows, IdsOf(night.entries)) /\ DOMAIN rows = Shows
  BY <1>1 DEF Tombstone, NightlyInv, RowsWhole
<1>3. SUFFICES ASSUME rows[s].tmdb = Null PROVE rows'[s] = rows[s]
  OBVIOUS
<1> QED BY <1>2, <1>3 DEF ReconcileTombstones

\* However short an export is, it tombstones at most the share of the published
\* list that the floors leave open, and never a show that is not TMDB's
\* (tombstone.py, feed_is_implausible).
THEOREM PurgesAreBounded == Spec => PurgeBounded
<1>1. NightlyInv /\ [Next]_vars =>
        (file' = file /\ WronglyPurged # {} /\ IdsOf(night.entries) \subseteq file.ids
         => RelativeDen * Cardinality(WronglyPurged) <= PurgeRoom)
  <2>1. SUFFICES ASSUME NightlyInv, [Next]_vars, WronglyPurged # {},
                        IdsOf(night.entries) \subseteq file.ids
                 PROVE  RelativeDen * Cardinality(WronglyPurged) <= PurgeRoom
    OBVIOUS
  <2>2. Tombstone
    BY <2>1, OthersSpare DEF WronglyPurged, Live, NightlyInv, RowsWhole
  <2>3. rows' = ReconcileTombstones(rows, IdsOf(night.entries))
    BY <2>2 DEF Tombstone
  <2>4. IsFiniteSet(file.ids)
    BY <2>1, NightlyAssumption, FS_Subset DEF NightlyInv, Upstream
  <2>5. WronglyPurged = {s \in Live(rows) :
            ReconcileTombstones(rows, IdsOf(night.entries))[s].deleted /\ rows[s].tmdb \in file.ids}
    BY <2>3 DEF WronglyPurged
  <2> QED BY <2>1, <2>4, <2>5, TombstoneBound DEF NightlyInv, PurgeRoom
<1>2. NightlyInv /\ [Next]_vars =>
        \A s \in Shows : rows'[s].deleted /\ ~rows[s].deleted => rows[s].tmdb # Null
  BY LocalSpared
<1> QED BY <1>1, <1>2, InvHolds, PTL DEF Spec, PurgeBounded

-----------------------------------------------------------------------------
(* What a backfill leaves out                                              *)

Keys == [popularity : Int, id : Shows]
Distinct(keys) == \A j, k \in keys : j.id = k.id => j = k

FillTyped ==
    /\ \A s \in Shows : Scored(rows[s].popularity)
    /\ \A id \in Series : Scored(file.score[id])
    /\ \A i \in DOMAIN night.entries : Scored(night.entries[i].popularity)
    /\ DOMAIN fill = DOMAIN Resting /\ fill.considered \in Nat /\ fill.limit \in Limits
    /\ fill.cursor = Null \/ fill.cursor \in Keys
    /\ fill.page \subseteq Keys /\ IsFiniteSet(fill.page) /\ Distinct(fill.page)

\* A show that is owed and lacks its stamp is on the page, or it comes after all
\* that was read, by its key as it is now.
Owing(s) == OnPage(s) \/ Ahead(Key(rows, s))
FillInv == FillTyped /\ \A s \in fill.owed \cap Needs(rows) : Owing(s)

\* The order of a work list is one, and the cursor goes by it.
LEMMA EarlierOrders ==
    ASSUME NEW a \in Keys, NEW b \in Keys
    PROVE  /\ ~Earlier(a, a)
           /\ \A c \in Keys : Earlier(a, b) /\ Earlier(b, c) => Earlier(a, c)
           /\ a.id = b.id \/ Earlier(a, b) \/ Earlier(b, a)
           /\ Past(a, b) <=> Earlier(a, b)
<1>1. /\ a.popularity \in Int /\ b.popularity \in Int /\ a.id \in Int /\ b.id \in Int
      /\ \A c \in Keys : c.popularity \in Int /\ c.id \in Int
  BY NightlyAssumption DEF Keys
<1>2. CASE scenario.order = "id"
  BY <1>1, <1>2 DEF Earlier, Past
<1>3. CASE scenario.order # "id"
  BY <1>1, <1>3 DEF Earlier, Past
<1> QED BY <1>2, <1>3

\* Of finitely many keys one comes first: it has the least before it.
LEMMA FirstIs ==
    ASSUME NEW page \in SUBSET Keys, IsFiniteSet(page), Distinct(page), page # {}
    PROVE  /\ First(page) \in page
           /\ \A k \in page : k = First(page) \/ Earlier(First(page), k)
<1> DEFINE R == StrictSubsetOrdering(page)
           befores == {Before(page, k) : k \in page}
<1>1. IsWellFoundedOn(R, FiniteSubsetsOf(page))
  BY FS_StrictSubsetOrderingWellFounded
<1>2. befores \subseteq FiniteSubsetsOf(page) /\ befores # {}
  <2>1. \A k \in page : Before(page, k) \in SUBSET page
    BY DEF Before
  <2>2. \A k \in page : IsFiniteSet(Before(page, k))
    BY <2>1, FS_Subset
  <2> QED BY <2>1, <2>2 DEF FiniteSubsetsOf
<1>3. PICK k \in page : \A j \in page : ~(<<Before(page, j), Before(page, k)>> \in R)
  <2> HIDE DEF R
  <2>1. PICK b \in befores : \A c \in befores : ~(<<c, b>> \in R)
    <3> HIDE DEF befores
    <3> QED BY <1>1, <1>2, WFMin
  <2> QED BY <2>1
<1>4. Before(page, k) = {}
  <2>1. SUFFICES ASSUME NEW j \in Before(page, k) PROVE FALSE
    OBVIOUS
  <2>2. j \in page /\ Earlier(j, k)
    BY DEF Before
  <2>3. Before(page, j) \subseteq Before(page, k) /\ j \notin Before(page, j)
    BY <2>2, EarlierOrders DEF Before
  <2>4. Before(page, j) \subseteq page /\ Before(page, k) \subseteq page
    BY DEF Before
  <2>5. <<Before(page, j), Before(page, k)>> \in R
    BY <2>1, <2>3, <2>4 DEF StrictSubsetOrdering
  <2> QED BY <1>3, <2>2, <2>5
<1>5. First(page) \in page /\ Before(page, First(page)) = {}
  BY <1>4 DEF First
<1>6. ASSUME NEW j \in page PROVE j = First(page) \/ Earlier(First(page), j)
  <2>1. ~Earlier(j, First(page))
    BY <1>5 DEF Before
  <2> QED BY <1>5, <2>1, EarlierOrders DEF Distinct
<1> QED BY <1>5, <1>6

LEMMA KeyIs ==
    ASSUME FillTyped, NEW s \in Shows
    PROVE  Key(rows, s) \in Keys /\ Key(rows, s).id = s
BY DEF FillTyped, Scored, Key, Keys

LEMMA WaitingIs ==
    ASSUME FillTyped, RowsWhole
    PROVE  Waiting \subseteq Keys /\ IsFiniteSet(Waiting) /\ Distinct(Waiting)
<1> DEFINE all == {Key(rows, s) : s \in Needs(rows)}
           f == [s \in Needs(rows) |-> Key(rows, s)]
<1>1. Needs(rows) \subseteq Shows /\ IsFiniteSet(Needs(rows))
  <2>1. Needs(rows) \subseteq Shows
    BY DEF Needs, RowsWhole
  <2> QED BY <2>1, NightlyAssumption, FS_Subset
<1>2. all \subseteq Keys /\ Distinct(all)
  BY <1>1, KeyIs DEF Distinct
<1>3. f \in Surjection(Needs(rows), all)
  BY DEF Surjection
<1>4. IsFiniteSet(all)
  <2> HIDE DEF f, all
  <2> QED BY <1>1, <1>3, FS_Surjection
<1>5. Waiting \subseteq all
  BY DEF Waiting
<1>6. IsFiniteSet(Waiting)
  <2> HIDE DEF all
  <2> QED BY <1>4, <1>5, FS_Subset
<1> QED BY <1>2, <1>5, <1>6 DEF Distinct

\* A page has nothing before it that waits, and something unless all is done.
LEMMA PageIs ==
    ASSUME FillTyped, RowsWhole, NEW take \in Int
    PROVE  /\ \A k \in Candidates(take), j \in Waiting \ Candidates(take) : Earlier(k, j)
           /\ 0 < take /\ Waiting # {} => Candidates(take) # {}
<1>1. Waiting \subseteq Keys /\ IsFiniteSet(Waiting) /\ Distinct(Waiting)
  BY WaitingIs
<1>2. \A k \in Waiting : IsFiniteSet(Before(Waiting, k)) /\ Cardinality(Before(Waiting, k)) \in Nat
  BY <1>1, FS_Subset, FS_CardinalityType DEF Before
<1>3. ASSUME NEW k \in Candidates(take), NEW j \in Waiting \ Candidates(take)
      PROVE  Earlier(k, j)
  <2>1. SUFFICES ASSUME ~Earlier(k, j) PROVE FALSE
    OBVIOUS
  <2>2. k \in Waiting /\ j \in Waiting /\ k # j
    BY DEF Candidates
  <2>3. Earlier(j, k)
    BY <1>1, <2>1, <2>2, EarlierOrders DEF Distinct
  <2>4. Before(Waiting, j) \subseteq Before(Waiting, k)
    BY <1>1, <2>2, <2>3, EarlierOrders DEF Before
  <2>5. Cardinality(Before(Waiting, j)) <= Cardinality(Before(Waiting, k))
    BY <1>2, <2>2, <2>4, FS_Subset
  <2> QED BY <1>2, <2>2, <2>5 DEF Candidates
<1>4. ASSUME 0 < take, Waiting # {} PROVE Candidates(take) # {}
  <2>1. First(Waiting) \in Waiting
    BY <1>1, <1>4, FirstIs
  <2>2. \A k \in Waiting : k = First(Waiting) \/ Earlier(First(Waiting), k)
    BY <1>1, <1>4, FirstIs
  <2>3. Before(Waiting, First(Waiting)) = {}
    BY <1>1, <2>1, <2>2, EarlierOrders DEF Before
  <2>4. Cardinality(Before(Waiting, First(Waiting))) = 0
    BY <2>3, FS_EmptySet
  <2> QED BY <1>4, <2>1, <2>4 DEF Candidates
<1> QED BY <1>3, <1>4

LEMMA UpstreamScored ==
    ASSUME Upstream, NEW id \in Series
    PROVE  Scored(tmdb.score[id])
<1>1. \A h \in scenario.holdings, t \in Series : Scored(h.score[t])
  BY NightlyAssumption, Zenon DEF Upstream
<1> QED BY <1>1, Zenon DEF Upstream

\* No step makes a show need its stamp, and only two give it another score.
LEMMA RowsFacts ==
    ASSUME NightlyInv, FillTyped, [Next]_vars
    PROVE  /\ Needs(rows)' \subseteq Needs(rows)
           /\ \A s \in Shows : Scored(rows'[s].popularity)
           /\ \/ \A s \in Shows : rows'[s].popularity = rows[s].popularity
              \/ Popularity \/ \E s \in Shows : MirrorSeries(s)
<1>0. RowsWhole /\ Upstream /\ \A s \in Shows : Scored(rows[s].popularity)
  BY DEF NightlyInv, FillTyped
<1>1. CASE rows' = rows
  BY <1>0, <1>1 DEF Needs
<1>2. CASE Popularity
  <2>1. rows' = RefreshPopularity(rows, night.entries)
    BY <1>2 DEF Popularity, Rewrite
  <2>2. CASE FeedIsImplausible(Cardinality(DOMAIN night.entries), Cardinality(Live(rows)))
    BY <1>0, <1>2, <2>1, <2>2 DEF RefreshPopularity, Needs
  <2>3. CASE ~FeedIsImplausible(Cardinality(DOMAIN night.entries), Cardinality(Live(rows)))
    <3> DEFINE Scores(s) == {e \in {night.entries[i] : i \in DOMAIN night.entries} :
                                 e.id = rows[s].tmdb /\ e.popularity # Null}
               Score(s) == (CHOOSE e \in Scores(s) : TRUE).popularity
    <3>1. rows' = [s \in Shows |-> IF rows[s].tmdb = Null \/ Scores(s) = {} THEN rows[s]
                                   ELSE [rows[s] EXCEPT !.popularity = Score(s)]]
      BY <1>0, <2>1, <2>3 DEF RefreshPopularity, RowsWhole
    <3>2. \A s \in Shows : Scores(s) # {} => Scored(Score(s))
      BY DEF FillTyped
    <3> HIDE DEF Scores, Score
    <3>3. DOMAIN rows' = Shows
      BY <3>1
    <3>4. ASSUME NEW s \in Shows
          PROVE  /\ rows'[s].tmdb = rows[s].tmdb /\ rows'[s].synced = rows[s].synced
                 /\ rows'[s].stamped = rows[s].stamped /\ Scored(rows'[s].popularity)
      <4>1. CASE rows[s].tmdb = Null \/ Scores(s) = {}
        BY <1>0, <3>1, <4>1
      <4>2. CASE ~(rows[s].tmdb = Null \/ Scores(s) = {})
        <5>1. rows'[s] = [rows[s] EXCEPT !.popularity = Score(s)]
          BY <3>1, <4>2
        <5>2. rows'[s].popularity = Score(s)
          BY <1>0, <5>1 DEF RowsWhole, Columns
        <5> QED BY <3>2, <4>2, <5>1, <5>2
      <4> QED BY <4>1, <4>2
    <3>5. Needs(rows)' \subseteq Needs(rows)
      BY <1>0, <3>3, <3>4 DEF Needs, RowsWhole
    <3> QED BY <1>2, <3>4, <3>5
  <2> QED BY <2>2, <2>3
<1>3. CASE Tombstone
  <2>1. rows' = ReconcileTombstones(rows, IdsOf(night.entries))
    BY <1>3 DEF Tombstone
  <2>2. /\ DOMAIN rows' = Shows
        /\ \A s \in Shows : /\ rows'[s].tmdb = rows[s].tmdb /\ rows'[s].synced = rows[s].synced
                            /\ rows'[s].stamped = rows[s].stamped
                            /\ rows'[s].popularity = rows[s].popularity
    BY <1>0, <2>1 DEF ReconcileTombstones, RowsWhole
  <2> QED BY <1>0, <2>2 DEF Needs, RowsWhole
<1>4. CASE RollForwardLastAired
  <2>1. rows' = RecomputeLastAired(rows, night.today, Shows)
    BY <1>4 DEF RollForwardLastAired
  <2>2. /\ DOMAIN rows' = Shows
        /\ \A s \in Shows : rows'[s] = [rows[s] EXCEPT !.lastAired = LatestBy(rows[s].dates, night.today)]
    BY <1>0, <2>1 DEF RecomputeLastAired, RowsWhole
  <2>3. \A s \in Shows : /\ rows'[s].tmdb = rows[s].tmdb /\ rows'[s].synced = rows[s].synced
                         /\ rows'[s].stamped = rows[s].stamped
                         /\ rows'[s].popularity = rows[s].popularity
    BY <1>0, <2>2 DEF RowsWhole, Columns
  <2> QED BY <1>0, <2>2, <2>3 DEF Needs, RowsWhole
<1>5. ASSUME NEW t \in Shows, MirrorSeries(t)
      PROVE  Needs(rows)' \subseteq Needs(rows) /\ \A s \in Shows : Scored(rows'[s].popularity)
  <2> DEFINE landed == [rows EXCEPT ![t] = [@ EXCEPT !.synced = TRUE, !.stamped = TRUE,
                            !.popularity = tmdb.score[rows[t].tmdb], !.dates = tmdb.airs[rows[t].tmdb]]]
  <2>1. rows' = RecomputeLastAired(landed, day, {t}) /\ rows[t].tmdb \in tmdb.listed
    BY <1>5 DEF MirrorSeries, Rewrite
  <2>2. tmdb.listed \subseteq Series
    BY <1>0, ExportWithin DEF Upstream, Export
  <2>3. Scored(tmdb.score[rows[t].tmdb])
    BY <1>0, <2>1, <2>2, UpstreamScored
  <2>4. /\ DOMAIN landed = Shows /\ landed[t].stamped /\ landed[t].popularity = tmdb.score[rows[t].tmdb]
        /\ DOMAIN landed[t] = Columns /\ \A s \in Shows \ {t} : landed[s] = rows[s]
    BY <1>0 DEF RowsWhole, Columns
  <2> HIDE DEF landed
  <2>5. /\ DOMAIN rows' = Shows
        /\ rows'[t] = [landed[t] EXCEPT !.lastAired = LatestBy(landed[t].dates, day)]
        /\ \A s \in Shows \ {t} : rows'[s] = rows[s]
    BY <2>1, <2>4 DEF RecomputeLastAired
  <2>6. rows'[t].stamped = landed[t].stamped /\ rows'[t].popularity = landed[t].popularity
    BY <2>4, <2>5 DEF Columns
  <2> QED BY <1>0, <2>3, <2>4, <2>5, <2>6 DEF Needs, RowsWhole
<1>6. ASSUME NEW id \in Series, BackfillShow(id)
      PROVE  /\ Needs(rows)' \subseteq Needs(rows)
             /\ \A s \in Shows : rows'[s].popularity = rows[s].popularity
  BY <1>0, <1>6 DEF BackfillShow, Needs, RowsWhole, Columns
<1>7. \/ rows' = rows \/ Popularity \/ Tombstone \/ RollForwardLastAired
      \/ \E t \in Shows : MirrorSeries(t)
      \/ \E id \in Series : BackfillShow(id)
  BY DEF Next, NightStep, FillStep, vars, Edit, Publish, Midnight, RunCatalogUpdate, Mirrored,
         FetchSeriesExport, Aborts, DownloadFails, PassFails, NightDies, Backfill, NextPage,
         BackfillEnds, GoneUpstream, BackfillFails, BackfillDies
<1> QED BY <1>0, <1>1, <1>2, <1>3, <1>4, <1>5, <1>6, <1>7

\* The export and what was read of it have scores of TMDB's.
LEMMA EntriesScored ==
    ASSUME NightlyInv, FillTyped, [Next]_vars
    PROVE  /\ \A id \in Series : Scored(file'.score[id])
           /\ \A i \in DOMAIN night'.entries : Scored(night'.entries[i].popularity)
<1>0. /\ Upstream /\ DOMAIN night = {"at", "today", "entries"}
      /\ \A id \in Series : Scored(file.score[id])
      /\ \A i \in DOMAIN night.entries : Scored(night.entries[i].popularity)
  BY DEF NightlyInv, Dates, FillTyped
<1>1. CASE file' = file
  <2>1. CASE night'.entries = night.entries \/ night'.entries = <<>>
    <3>1. DOMAIN <<>> = {}
      OBVIOUS
    <3> QED BY <1>0, <1>1, <2>1, <3>1
  <2>2. ASSUME NEW ids \in SUBSET file.ids, FetchSeriesExport(ids)
        PROVE  \A i \in DOMAIN night'.entries : Scored(night'.entries[i].popularity)
    <3>1. night'.entries = ParseSeriesExport(Lines(ids))
      BY <1>0, <2>2 DEF FetchSeriesExport
    <3>2. DOMAIN night'.entries \subseteq ids
      BY <3>1 DEF ParseSeriesExport, Lines
    <3>3. \A i \in DOMAIN night'.entries :
              night'.entries[i].popularity = PopularityOf([id |-> i, popularity |-> file.score[i]])
      BY <3>1 DEF ParseSeriesExport, Lines
    <3> QED BY <1>0, <3>2, <3>3 DEF PopularityOf, Scored, Upstream
  <2>3. Idle.entries = <<>>
    BY DEF Idle
  <2>4. ASSUME PassFails PROVE night'.entries = night.entries \/ night'.entries = <<>>
    BY <1>0, <2>3, <2>4 DEF PassFails
  <2>5. ASSUME RunCatalogUpdate \/ Aborts \/ NightDies \/ DownloadFails \/ Mirrored
        PROVE  night'.entries = night.entries \/ night'.entries = <<>>
    <3>1. CASE RunCatalogUpdate
      BY <3>1 DEF RunCatalogUpdate, Idle
    <3>2. CASE Aborts \/ NightDies
      BY <2>3, <3>2 DEF Aborts, NightDies
    <3>3. CASE DownloadFails \/ Mirrored
      BY <1>0, <3>3 DEF DownloadFails, Mirrored
    <3> QED BY <2>5, <3>1, <3>2, <3>3
  <2>6. ASSUME Popularity \/ Tombstone \/ RollForwardLastAired
        PROVE  night'.entries = night.entries \/ night'.entries = <<>>
    BY <1>0, <2>3, <2>6 DEF Popularity, Tombstone, RollForwardLastAired
  <2>7. \/ night' = night \/ PassFails
        \/ RunCatalogUpdate \/ Aborts \/ NightDies \/ DownloadFails \/ Mirrored
        \/ Popularity \/ Tombstone \/ RollForwardLastAired
        \/ \E ids \in SUBSET file.ids : FetchSeriesExport(ids)
    BY DEF Next, NightStep, FillStep, vars, Edit, Publish, Midnight, MirrorSeries, Backfill,
           NextPage, BackfillEnds, BackfillShow, GoneUpstream, BackfillFails, BackfillDies
  <2> QED BY <1>0, <1>1, <2>1, <2>2, <2>4, <2>5, <2>6, <2>7
<1>2. CASE Publish
  BY <1>0, <1>2, UpstreamScored DEF Publish, Export
<1>3. file' = file \/ Publish
  BY DEF Next, NightStep, FillStep, vars, Edit, Midnight, RunCatalogUpdate, Mirrored, MirrorSeries,
         Popularity, Tombstone, RollForwardLastAired, FetchSeriesExport, Aborts, DownloadFails,
         PassFails, NightDies, Backfill, NextPage, BackfillEnds, BackfillShow, GoneUpstream,
         BackfillFails, BackfillDies
<1> QED BY <1>1, <1>2, <1>3

\* What is owed and did not rise past what was read, stays on the page or after it.
LEMMA StandsStill ==
    ASSUME FillInv, FillTyped', Needs(rows)' \subseteq Needs(rows), RowsWhole,
           scenario' = scenario, fill'.page = fill.page, fill'.cursor = fill.cursor,
           fill'.owed \subseteq fill.owed, fill'.owed \cap RosePast(rows') = {}
    PROVE  FillInv'
<1>1. SUFFICES ASSUME NEW s \in fill'.owed \cap Needs(rows)' PROVE Owing(s)'
  BY DEF FillInv
<1>2. Owing(s) /\ s \in Shows /\ s \notin RosePast(rows')
  BY <1>1 DEF FillInv, Needs, RowsWhole
<1>3. OnPage(s) \/ Ahead(Key(rows', s))
  BY <1>2 DEF Owing, RosePast
<1>4. CASE OnPage(s)
  BY <1>4 DEF Owing, OnPage
<1>5. CASE Ahead(Key(rows', s))
  BY <1>5 DEF Owing, Ahead, Past, Earlier, Key
<1> QED BY <1>3, <1>4, <1>5

\* The show that is considered leaves the page, and the rest comes after it.
Considers ==
    /\ fill'.page = fill.page \ {First(fill.page)} /\ fill'.cursor = First(fill.page)
    /\ fill'.owed = fill.owed \ {First(fill.page).id}

LEMMA ConsidersKeeps ==
    ASSUME FillInv, FillTyped', RowsWhole, Needs(rows)' \subseteq Needs(rows), scenario' = scenario,
           \A s \in Shows : rows'[s].popularity = rows[s].popularity,
           fill.page # {}, Considers
    PROVE  FillInv'
<1>1. SUFFICES ASSUME NEW s \in fill'.owed \cap Needs(rows)' PROVE Owing(s)'
  BY DEF FillInv
<1>2. FillTyped /\ Owing(s) /\ s \in Shows /\ s # First(fill.page).id
  BY <1>1 DEF FillInv, Needs, RowsWhole, Considers
<1>3. Key(rows, s)' = Key(rows, s) /\ Key(rows, s) \in Keys
  BY <1>2, KeyIs DEF Key
<1>4. First(fill.page) \in fill.page /\ fill.page \subseteq Keys
  BY <1>2, FirstIs DEF FillTyped
<1>5. CASE \E k \in fill.page : k.id = s
  BY <1>2, <1>5 DEF Owing, OnPage, Considers
<1>6. CASE \A k \in fill.page : Earlier(k, Key(rows, s))
  <2>1. Past(First(fill.page), Key(rows, s))
    BY <1>3, <1>4, <1>6, EarlierOrders
  <2> QED BY <1>3, <1>6, <2>1 DEF Owing, OnPage, Ahead, Considers, Past, Earlier
<1> QED BY <1>2, <1>5, <1>6 DEF Owing, OnPage, Ahead

LEMMA TakeIs ==
    ASSUME FillTyped
    PROVE  Take \in Int /\ (fill.limit = Null => 0 < Take)
BY NightlyAssumption DEF FillTyped, Take

\* A page takes the first of what waits, and so all else comes after it.
LEMMA NextPageKeeps ==
    ASSUME FillInv, FillTyped', RowsWhole, NextPage
    PROVE  FillInv'
<1>1. SUFFICES ASSUME NEW s \in fill'.owed \cap Needs(rows)' PROVE Owing(s)'
  BY DEF FillInv
<1>2. /\ FillTyped /\ fill.page = {} /\ UNCHANGED <<rows, scenario>>
      /\ fill'.page = Candidates(Take) /\ fill'.cursor = fill.cursor /\ fill'.owed = fill.owed
  BY DEF FillInv, FillTyped, NextPage, Resting
<1>3. s \in fill.owed \cap Needs(rows) /\ s \in Shows
  BY <1>1, <1>2 DEF Needs, RowsWhole
<1>4. Owing(s)
  BY <1>3 DEF FillInv
<1>5. fill.cursor = Null \/ Past(fill.cursor, Key(rows, s))
  BY <1>2, <1>4 DEF Owing, OnPage, Ahead
<1>6. Key(rows, s) \in Waiting /\ Key(rows, s).id = s
  BY <1>2, <1>3, <1>5, KeyIs DEF Waiting
<1>7. CASE Key(rows, s) \in Candidates(Take)
  BY <1>2, <1>6, <1>7 DEF Owing, OnPage
<1>8. CASE Key(rows, s) \notin Candidates(Take)
  <2>1. \A k \in Candidates(Take) : Earlier(k, Key(rows, s))
    BY <1>2, <1>6, <1>8, TakeIs, PageIs
  <2>2. Key(rows, s)' = Key(rows, s)
    BY <1>2 DEF Key
  <2> QED BY <1>2, <1>5, <2>1, <2>2 DEF Owing, OnPage, Ahead, Past, Earlier
<1> QED BY <1>7, <1>8

\* What a step may do to the backfill.
LEMMA FillMoves ==
    ASSUME [Next]_vars
    PROVE  \/ fill' = fill \/ fill' = Resting \/ NextPage
           \/ \E limit \in Limits : Backfill(limit)
           \/ \E id \in Series : BackfillShow(id) \/ GoneUpstream(id) \/ BackfillFails(id)
           \/ Popularity \/ \E s \in Shows : MirrorSeries(s)
BY DEF Next, NightStep, FillStep, vars, Edit, Publish, Midnight, RunCatalogUpdate, Mirrored,
       FetchSeriesExport, Tombstone, RollForwardLastAired, Aborts, DownloadFails, PassFails,
       NightDies, BackfillEnds, BackfillDies

LEMMA RewriteMoves ==
    ASSUME FillTyped, Popularity \/ \E s \in Shows : MirrorSeries(s)
    PROVE  /\ DOMAIN fill' = DOMAIN fill /\ scenario' = scenario
           /\ fill'.page = fill.page /\ fill'.cursor = fill.cursor
           /\ fill'.considered = fill.considered /\ fill'.limit = fill.limit
           /\ fill'.owed \subseteq fill.owed
           /\ fill'.owed \cap RosePast(rows') = {}
<1>1. /\ scenario' = scenario
      /\ fill' = [fill EXCEPT !.owed = @ \ RosePast(rows')]
  BY DEF Popularity, MirrorSeries, Rewrite
<1>2. DOMAIN fill = {"at", "page", "cursor", "considered", "consecutive", "limit", "owed"}
  BY DEF FillTyped, Resting
<1> QED BY <1>1, <1>2

LEMMA ShowMoves ==
    ASSUME FillTyped,
           \E id \in Series : BackfillShow(id) \/ GoneUpstream(id) \/ BackfillFails(id)
    PROVE  /\ scenario' = scenario /\ fill.page # {}
           /\ \/ fill' = Resting
              \/ /\ DOMAIN fill' = DOMAIN fill /\ Considers
                 /\ fill'.considered = fill.considered + 1 /\ fill'.limit = fill.limit
<1>1. DOMAIN fill = {"at", "page", "cursor", "considered", "consecutive", "limit", "owed"}
  BY DEF FillTyped, Resting
<1> DEFINE next == First(fill.page)
           moved == [fill EXCEPT !.page = @ \ {next}, !.cursor = next,
                                 !.considered = @ + 1, !.owed = @ \ {next.id}]
<1>2. /\ scenario' = scenario /\ fill.page # {}
      /\ \/ fill' = moved \/ fill' = Resting
         \/ fill' = [moved EXCEPT !.consecutive = 0]
         \/ fill' = [moved EXCEPT !.consecutive = @ + 1]
  BY DEF BackfillShow, GoneUpstream, BackfillFails, AtShow, OneMore, Considered
<1>3. /\ DOMAIN moved = DOMAIN fill /\ moved.page = fill.page \ {next} /\ moved.cursor = next
      /\ moved.considered = fill.considered + 1 /\ moved.owed = fill.owed \ {next.id}
      /\ moved.limit = fill.limit
  BY <1>1
<1> HIDE DEF moved
<1>4. CASE fill' = Resting
  BY <1>2, <1>4
<1>5. CASE \/ fill' = moved \/ fill' = [moved EXCEPT !.consecutive = 0]
           \/ fill' = [moved EXCEPT !.consecutive = @ + 1]
  <2>1. /\ DOMAIN fill' = DOMAIN moved /\ fill'.page = moved.page /\ fill'.cursor = moved.cursor
        /\ fill'.considered = moved.considered /\ fill'.owed = moved.owed
        /\ fill'.limit = moved.limit
    BY <1>1, <1>3, <1>5
  <2> QED BY <1>2, <1>3, <2>1 DEF Considers
<1> QED BY <1>2, <1>4, <1>5

LEMMA RestingTyped ==
    /\ Resting.page = {} /\ Resting.cursor = Null /\ Resting.considered = 0
    /\ Resting.limit = Null /\ Resting.owed = {}
BY DEF Resting

LEMMA FillTypes ==
    ASSUME NightlyInv, FillInv, [Next]_vars
    PROVE  FillTyped'
<1>0. FillTyped /\ RowsWhole
  BY DEF NightlyInv, FillInv
<1>1. /\ \A s \in Shows : Scored(rows'[s].popularity)
      /\ \A id \in Series : Scored(file'.score[id])
      /\ \A i \in DOMAIN night'.entries : Scored(night'.entries[i].popularity)
  BY <1>0, RowsFacts, EntriesScored
<1>2. SUFFICES /\ DOMAIN fill' = DOMAIN Resting /\ fill'.considered \in Nat /\ fill'.limit \in Limits
               /\ fill'.cursor = Null \/ fill'.cursor \in Keys
               /\ fill'.page \subseteq Keys /\ IsFiniteSet(fill'.page) /\ Distinct(fill'.page)
  BY <1>1 DEF FillTyped, Scored, Keys, Distinct
<1>3. IsFiniteSet({}) /\ Distinct({}) /\ Null \in Limits
  BY FS_EmptySet, NightlyAssumption DEF Distinct
<1>4. CASE fill' = fill \/ Popularity \/ \E s \in Shows : MirrorSeries(s)
  BY <1>0, <1>4, RewriteMoves DEF FillTyped
<1>5. CASE fill' = Resting
  BY <1>3, <1>5, RestingTyped
<1>6. ASSUME NEW limit \in Limits, Backfill(limit)
      PROVE  /\ DOMAIN fill' = DOMAIN Resting /\ fill'.considered = 0 /\ fill'.limit = limit
             /\ fill'.cursor = Null /\ fill'.page = {}
  BY <1>6 DEF Backfill, Resting
<1>7. CASE NextPage
  <2>1. fill' = [fill EXCEPT !.page = Candidates(Take)]
    BY <1>7 DEF NextPage
  <2>2. /\ DOMAIN fill' = DOMAIN fill /\ fill'.page = Candidates(Take) /\ fill'.cursor = fill.cursor
        /\ fill'.considered = fill.considered /\ fill'.limit = fill.limit
    BY <1>0, <2>1 DEF FillTyped, Resting
  <2>3. Candidates(Take) \subseteq Waiting
    BY DEF Candidates
  <2>4. Candidates(Take) \subseteq Keys /\ IsFiniteSet(Candidates(Take)) /\ Distinct(Candidates(Take))
    BY <1>0, <2>3, WaitingIs, FS_Subset DEF Distinct
  <2> QED BY <1>0, <2>2, <2>4 DEF FillTyped
<1>8. CASE \E id \in Series : BackfillShow(id) \/ GoneUpstream(id) \/ BackfillFails(id)
  <2>1. CASE fill' # Resting
    <3>1. /\ DOMAIN fill' = DOMAIN fill /\ Considers /\ fill.page # {}
          /\ fill'.considered = fill.considered + 1 /\ fill'.limit = fill.limit
      BY <1>0, <1>8, <2>1, ShowMoves
    <3>2. First(fill.page) \in Keys
      BY <1>0, <3>1, FirstIs DEF FillTyped
    <3>3. fill'.page \subseteq fill.page /\ IsFiniteSet(fill'.page)
      BY <1>0, <3>1, FS_Subset DEF Considers, FillTyped
    <3> QED BY <1>0, <3>1, <3>2, <3>3 DEF FillTyped, Considers, Distinct
  <2> QED BY <1>5, <2>1
<1> QED BY <1>3, <1>4, <1>5, <1>6, <1>7, <1>8, FillMoves

LEMMA FillKeeps ==
    ASSUME NightlyInv, FillInv, [Next]_vars
    PROVE  FillInv'
<1>0. FillTyped /\ RowsWhole /\ FillTyped' /\ Needs(rows)' \subseteq Needs(rows)
  BY FillTypes, RowsFacts DEF NightlyInv, FillInv
<1>1. CASE Popularity \/ \E s \in Shows : MirrorSeries(s)
  BY <1>0, <1>1, RewriteMoves, StandsStill
<1>2. CASE ~(Popularity \/ \E s \in Shows : MirrorSeries(s))
  <2>1. \A s \in Shows : rows'[s].popularity = rows[s].popularity
    BY <1>0, <1>2, RowsFacts
  <2>2. scenario' = scenario
    BY DEF Next, NightStep, FillStep, vars, Edit, Publish, Midnight, RunCatalogUpdate, Mirrored,
           MirrorSeries, Popularity, Tombstone, RollForwardLastAired, FetchSeriesExport, Aborts,
           DownloadFails, PassFails, NightDies, Backfill, NextPage, BackfillEnds, BackfillShow,
           GoneUpstream, BackfillFails, BackfillDies
  <2>3. CASE fill' = fill
    <3>1. \A s \in Shows : Key(rows', s) = Key(rows, s)
      BY <2>1 DEF Key
    <3>2. RosePast(rows') = {}
      BY <3>1 DEF RosePast
    <3> QED BY <1>0, <2>2, <2>3, <3>2, StandsStill
  <2>4. CASE fill' = Resting
    BY <1>0, <2>4, RestingTyped DEF FillInv
  <2>5. CASE NextPage
    BY <1>0, <2>5, NextPageKeeps
  <2>6. ASSUME NEW limit \in Limits, Backfill(limit) PROVE FillInv'
    <3>1. fill'.page = {} /\ fill'.cursor = Null
      BY <2>6 DEF Backfill, Resting
    <3> QED BY <1>0, <3>1 DEF FillInv, Owing, OnPage, Ahead
  <2>7. CASE \E id \in Series : BackfillShow(id) \/ GoneUpstream(id) \/ BackfillFails(id)
    BY <1>0, <2>1, <2>2, <2>4, <2>7, ShowMoves, ConsidersKeeps
  <2> QED BY <1>2, <2>3, <2>4, <2>5, <2>6, <2>7, FillMoves
<1> QED BY <1>1, <1>2

LEMMA FillBegins == Init => FillInv
<1> SUFFICES ASSUME Init PROVE FillInv
  OBVIOUS
<1>1. scenario \in Scenarios /\ tmdb \in scenario.holdings /\ file = Export(tmdb)
      /\ rows = RecomputeLastAired(scenario.rows, 0, Shows) /\ night = Idle /\ fill = Resting
  BY DEF Init
<1>2. /\ DOMAIN scenario.rows = Shows
      /\ \A s \in Shows : DOMAIN scenario.rows[s] = Columns /\ Scored(scenario.rows[s].popularity)
      /\ \A h \in scenario.holdings, id \in Series : Scored(h.score[id])
  BY <1>1, NightlyAssumption, Zenon
<1>3. \A s \in Shows : rows[s] = [scenario.rows[s] EXCEPT !.lastAired =
                                      LatestBy(scenario.rows[s].dates, 0)]
  BY <1>1, <1>2 DEF RecomputeLastAired
<1>4. \A s \in Shows : Scored(rows[s].popularity)
  BY <1>2, <1>3 DEF Columns
<1>5. \A id \in Series : Scored(file.score[id])
  BY <1>1, <1>2 DEF Export
<1>6. DOMAIN night.entries = {}
  BY <1>1 DEF Idle
<1>7. Null \in Limits /\ IsFiniteSet({})
  BY NightlyAssumption, FS_EmptySet
<1> QED BY <1>1, <1>4, <1>5, <1>6, <1>7, RestingTyped DEF FillInv, FillTyped, Distinct

\* At the end of a backfill without a limit nothing that was owed lacks its stamp:
\* it would have to come after the cursor, and nothing does any more.
LEMMA NothingLeft ==
    ASSUME FillInv, RowsWhole, Spent, fill.limit = Null
    PROVE  fill.owed \cap Needs(rows) = {}
<1>1. FillTyped /\ fill.page = {} /\ Take \in Int /\ 0 < Take
  BY TakeIs DEF FillInv, Spent
<1>2. Candidates(Take) = {}
  BY <1>1 DEF Spent
<1>3. Waiting = {}
  BY <1>1, <1>2, PageIs
<1> SUFFICES ASSUME NEW s \in fill.owed \cap Needs(rows) PROVE FALSE
  OBVIOUS
<1>4. fill.cursor = Null \/ Past(fill.cursor, Key(rows, s))
  BY <1>1 DEF FillInv, Owing, OnPage, Ahead
<1> QED BY <1>3, <1>4 DEF Waiting

\* A backfill without a limit that comes to its end has considered every show that
\* lacked its stamp when it began, but those that were stamped meanwhile and, by
\* popularity, those that rose past what it had read (recommendations_backfill.py,
\* _CANDIDATES; the other two go by id).
THEOREM NobodySkipped == Spec => NoneSkipped
<1>1. Spec => [](NightlyInv /\ FillInv)
  <2>1. Init => NightlyInv /\ FillInv
    BY InitInv, FillBegins
  <2>2. NightlyInv /\ FillInv /\ [Next]_vars => (NightlyInv /\ FillInv)'
    BY NextInv, FillKeeps
  <2> QED BY <2>1, <2>2, PTL DEF Spec
<1>2. NightlyInv /\ FillInv /\ [Next]_vars =>
        [fill.at = "run" /\ Spent /\ fill'.at = "idle" /\ fill.limit = Null /\ spent' = spent
         => fill.owed \cap Needs(rows) = {}]_vars
  BY NothingLeft DEF NightlyInv
<1> QED BY <1>1, <1>2, PTL DEF Spec, NoneSkipped

-----------------------------------------------------------------------------
(* The weekly recommendations                                              *)

\* Times and counts whatever their bounds.
AnyRow == [user : Readers, at : Nat, status : Statuses,
           hash : [tiers : SUBSET Catalog, exclude : SUBSET Catalog],
           shows : SUBSET Catalog]
AnyWork == [at : {"idle", "next", "taste", "gate", "ask", "again", "record"},
            todo : SUBSET Readers, user : Readers \cup {None}, began : Nat,
            tiers : SUBSET Catalog, exclude : SUBSET Catalog,
            kept : SUBSET (SUBSET Catalog), failures : Nat]
WeeklyTyped ==
    /\ accounts \subseteq Readers
    /\ record \in [Readers -> SUBSET Catalog] /\ dismissed \in [Readers -> SUBSET Catalog]
    /\ sets \subseteq AnyRow
    /\ work \in [Passes -> AnyWork] /\ clock \in Nat
    /\ \A p \in Passes : work[p].at \notin {"idle", "next"} => work[p].user \in Readers

InTurn(p) == work[p].at \in {"taste", "gate", "ask", "again"}
Succeeded(u) == {s \in sets : s.user = u /\ s.status = "succeeded"}

\* A transaction writes one set, under a time of its own.
OwnTimes ==
    /\ \A s \in sets : s.at <= clock
    /\ \A s, t \in sets : s.at = t.at => s = t
    /\ \A p \in Passes : InTurn(p) => /\ work[p].began <= clock
                                      /\ \A s \in sets : s.at # work[p].began
    /\ \A p, q \in Passes :
         InTurn(p) /\ InTurn(q) /\ work[p].began = work[q].began => p = q

\* Somebody's sets have a newest.
Topped ==
    \A u \in Readers : Succeeded(u) # {} =>
        \E s \in Succeeded(u) : \A t \in Succeeded(u) : t.at <= s.at

\* What is written, or kept for later, names nothing the payload excludes.
Cleared ==
    /\ \A s \in sets : s.shows \cap s.hash.exclude = {}
    /\ \A p \in Passes : work[p].at = "again" =>
         \A first \in work[p].kept : first \cap work[p].exclude = {}

\* While no lock is lost one pass works at a time, and nothing is written since
\* its turn began; so what it found changed, and asks about, still is.
Alone ==
    lost \/ \A p \in Passes :
        /\ work[p].at # "idle" => lock = p
        /\ InTurn(p) => \A s \in sets : s.at < work[p].began
        /\ work[p].at \in {"ask", "again"} => Changed(work[p])

WeeklyInv == WeeklyTyped /\ OwnTimes /\ Topped /\ Cleared /\ Alone /\ PaidOnce

LEMMA NewestIs ==
    ASSUME NEW R, \A t \in R : t.at \in Nat, NEW s \in R,
           \A t \in R : t.at <= s.at /\ (t.at = s.at => t = s)
    PROVE  Newest(R) = s
<1> DEFINE P(x) == \A t \in R : t.at <= x.at
<1>1. \E x \in R : P(x)
  OBVIOUS
<1>2. Newest(R) = CHOOSE x \in R : P(x)
  BY DEF Newest
<1>3. Newest(R) \in R /\ P(Newest(R))
  BY <1>1, <1>2
<1>4. Newest(R).at = s.at
  BY <1>3
<1> QED
  BY <1>3, <1>4

LEMMA CurrentOf ==
    ASSUME WeeklyTyped, OwnTimes, Topped, NEW u \in Readers
    PROVE  /\ Succeeded(u) = {} => Current(u) = NoRow
           /\ Succeeded(u) # {} => /\ Current(u) \in Succeeded(u)
                                   /\ Current(u) # NoRow
                                   /\ \A t \in Succeeded(u) : t.at <= Current(u).at
           /\ \A s \in Succeeded(u) :
                (\A t \in Succeeded(u) : t.at <= s.at) => Current(u) = s
<1>1. Current(u) = Newest(Succeeded(u))
  BY DEF Current, Succeeded
<1>2. Succeeded(u) \subseteq sets /\ \A s \in Succeeded(u) : s.at \in Nat
  BY DEF Succeeded, WeeklyTyped, AnyRow
<1>3. ASSUME NEW s \in Succeeded(u), \A t \in Succeeded(u) : t.at <= s.at
      PROVE  Current(u) = s
  BY <1>1, <1>2, <1>3, NewestIs DEF OwnTimes
<1>4. \A s \in Succeeded(u) : s # NoRow
  BY RecommendationsAssumption DEF Succeeded, NoRow, RecommendationsAssumption
<1>5. CASE Succeeded(u) # {}
  <2>1. PICK s \in Succeeded(u) : \A t \in Succeeded(u) : t.at <= s.at
    BY <1>5 DEF Topped
  <2> QED
    BY <1>3, <1>4, <1>5, <2>1
<1> QED
  BY <1>1, <1>3, <1>5 DEF Newest

LEMMA SameCurrent ==
    ASSUME NEW u, Succeeded(u)' = Succeeded(u)
    PROVE  Current(u)' = Current(u)
BY DEF Current, Succeeded

-----------------------------------------------------------------------------
\* Pass p goes on with w, and no set is written.
Goes(p, w) ==
    /\ work' = [work EXCEPT ![p] = w]
    /\ UNCHANGED <<accounts, record, dismissed, sets, lost>>
    /\ w \in AnyWork /\ w.at \notin {"idle", "next"} => w.user \in Readers
    /\ clock' \in Nat /\ clock <= clock'
    /\ w.at \in {"taste", "gate", "ask", "again"} =>
         \/ InTurn(p) /\ w.began = work[p].began
         \/ w.began = clock + 1 /\ clock' = clock + 1
    /\ w.at = "again" => \A first \in w.kept : first \cap w.exclude = {}
    /\ lost \/ /\ \A q \in Passes \ {p} : work[q].at # "idle" => lock' = q
               /\ w.at # "idle" => lock' = p
               /\ w.at \in {"ask", "again"} => Changed(w)

LEMMA GoesKeeps ==
    ASSUME WeeklyInv, NEW p \in Passes, NEW w \in AnyWork, Goes(p, w)
    PROVE  WeeklyInv'
<1> DEFINE turn == {"taste", "gate", "ask", "again"}
<1>1. work'[p] = w /\ \A q \in Passes \ {p} : work'[q] = work[q]
  BY DEF Goes, WeeklyInv, WeeklyTyped
<1>2. sets' = sets /\ (lost' <=> lost) /\ \A u : Succeeded(u)' = Succeeded(u)
  BY DEF Goes, Succeeded
<1>3. WeeklyTyped'
  <2>1. work' \in [Passes -> AnyWork]
    BY DEF Goes, WeeklyInv, WeeklyTyped
  <2>2. \A q \in Passes : work'[q].at \notin {"idle", "next"} => work'[q].user \in Readers
    BY <1>1 DEF Goes, WeeklyInv, WeeklyTyped
  <2> QED
    BY <2>1, <2>2 DEF Goes, WeeklyInv, WeeklyTyped
<1>4. OwnTimes'
  <2>1. \A s \in sets : s.at \in Nat /\ s.at <= clock
    BY DEF WeeklyInv, WeeklyTyped, OwnTimes, AnyRow
  <2>2. \A q \in Passes : InTurn(q) => work[q].began \in Nat /\ work[q].began <= clock
    BY DEF WeeklyInv, WeeklyTyped, OwnTimes, AnyWork
  <2>3. clock \in Nat /\ clock' \in Nat /\ clock <= clock'
    BY DEF Goes, WeeklyInv, WeeklyTyped
  <2>4. ASSUME NEW q \in Passes, InTurn(q)'
        PROVE  /\ work'[q].began <= clock'
               /\ \A s \in sets' : s.at # work'[q].began
               /\ \A r \in Passes : InTurn(r)' /\ work'[r].began = work'[q].began => q = r
    <3>1. CASE q # p
      <4>1. InTurn(q) /\ work'[q] = work[q]
        BY <1>1, <2>4, <3>1 DEF InTurn
      <4>2. ASSUME NEW r \in Passes, InTurn(r)', work'[r].began = work'[q].began
            PROVE  q = r
        <5>1. CASE r # p
          BY <1>1, <4>1, <4>2, <5>1 DEF InTurn, WeeklyInv, OwnTimes
        <5>2. CASE r = p
          <6>1. w.at \in turn /\ w.began = work[q].began
            BY <1>1, <4>1, <4>2, <5>2 DEF InTurn
          <6>2. CASE InTurn(p) /\ w.began = work[p].began
            BY <4>1, <5>2, <6>1, <6>2 DEF WeeklyInv, OwnTimes
          <6>3. CASE w.began = clock + 1
            <7>1. work[q].began \in Nat /\ work[q].began <= clock
              BY <2>2, <4>1
            <7> QED
              BY <2>3, <6>1, <6>3, <7>1
          <6> QED
            BY <6>1, <6>2, <6>3 DEF Goes
        <5> QED
          BY <5>1, <5>2
      <4>3. \A s \in sets : s.at # work[q].began
        BY <4>1 DEF WeeklyInv, OwnTimes
      <4> QED
        BY <1>2, <2>2, <2>3, <4>1, <4>2, <4>3
    <3>2. CASE q = p
      <4>1. w.at \in turn /\ work'[q] = w
        BY <1>1, <2>4, <3>2 DEF InTurn
      <4>2. CASE InTurn(p) /\ w.began = work[p].began
        <5>1. /\ w.began <= clock /\ w.began \in Nat /\ \A s \in sets : s.at # w.began
              /\ \A r \in Passes : InTurn(r) /\ work[r].began = w.began => p = r
          BY <2>2, <4>2 DEF WeeklyInv, OwnTimes
        <5>2. \A r \in Passes : InTurn(r)' /\ work'[r].began = w.began => p = r
          BY <1>1, <5>1 DEF InTurn
        <5> QED
          BY <1>2, <2>3, <3>2, <4>1, <5>1, <5>2
      <4>3. CASE w.began = clock + 1 /\ clock' = clock + 1
        <5>1. \A s \in sets : s.at # w.began
          BY <2>1, <2>3, <4>3
        <5>2. ASSUME NEW r \in Passes \ {p}, InTurn(r)' PROVE work'[r].began # w.began
          <6>1. InTurn(r) /\ work'[r] = work[r]
            BY <1>1, <5>2 DEF InTurn
          <6> QED
            BY <2>2, <2>3, <4>3, <6>1
        <5> QED
          BY <1>2, <2>3, <3>2, <4>1, <4>3, <5>1, <5>2
      <4> QED
        BY <4>1, <4>2, <4>3 DEF Goes
    <3> QED
      BY <3>1, <3>2
  <2>5. /\ \A s \in sets' : s.at <= clock'
        /\ \A s, t \in sets' : s.at = t.at => s = t
    <3>1. \A s \in sets' : s.at <= clock'
      BY <1>2, <2>1, <2>3
    <3> QED
      BY <1>2, <3>1 DEF WeeklyInv, OwnTimes
  <2> QED
    BY <2>4, <2>5 DEF OwnTimes
<1>5. Topped'
  BY <1>2 DEF WeeklyInv, Topped
<1>6. Cleared'
  BY <1>1, <1>2 DEF WeeklyInv, Cleared, Goes
<1>7. Alone'
  <2> SUFFICES ASSUME ~lost PROVE Alone'
    BY <1>2 DEF Alone
  <2>1. ASSUME NEW q \in Passes
        PROVE  /\ work'[q].at # "idle" => lock' = q
               /\ InTurn(q)' => \A s \in sets' : s.at < work'[q].began
               /\ work'[q].at \in {"ask", "again"} => Changed(work[q])'
    <3>1. CASE q # p
      <4>1. work'[q] = work[q]
        BY <1>1, <3>1
      <4>2. Current(work[q].user)' = Current(work[q].user)'
        OBVIOUS
      <4>3. Changed(work[q])' <=> Changed(work[q])
        BY <1>2, <4>1 DEF Changed, Current, Succeeded
      <4> QED
        BY <1>2, <3>1, <4>1, <4>3 DEF Goes, WeeklyInv, Alone, InTurn
    <3>2. CASE q = p
      <4>1. work'[q] = w
        BY <1>1, <3>2
      <4>2. Changed(work[q])' <=> Changed(w)
        BY <1>2, <4>1 DEF Changed, Current, Succeeded
      <4>3. w.at \in turn => \A s \in sets : s.at < w.began
        <5>1. CASE InTurn(p) /\ w.began = work[p].began
          BY <5>1 DEF WeeklyInv, Alone
        <5>2. CASE w.began = clock + 1
          BY <5>2 DEF WeeklyInv, WeeklyTyped, OwnTimes, AnyRow
        <5> QED
          BY <5>1, <5>2 DEF Goes
      <4> QED
        BY <1>2, <3>2, <4>1, <4>2, <4>3 DEF Goes, InTurn
    <3> QED
      BY <3>1, <3>2
  <2> QED
    BY <2>1 DEF Alone
<1>8. PaidOnce'
  BY <1>2 DEF WeeklyInv, PaidOnce
<1> QED
  BY <1>3, <1>4, <1>5, <1>6, <1>7, <1>8 DEF WeeklyInv

\* Pass p writes the row n, and goes on to the next user with w.
Writes(p, w, n) ==
    /\ work' = [work EXCEPT ![p] = w] /\ w.at = "next" /\ work[p].at # "idle"
    /\ sets' = sets \cup {n}
    /\ UNCHANGED <<accounts, record, dismissed, lock, lost>>
    /\ clock' \in Nat /\ clock <= clock' /\ n.at <= clock'
    /\ \A s \in sets : s.at # n.at
    /\ \A q \in Passes \ {p} : InTurn(q) => work[q].began # n.at
    /\ n.shows \cap n.hash.exclude = {}
    /\ n.status = "succeeded" =>
         lost \/ /\ \A s \in sets : s.at < n.at
                 /\ Current(n.user) = NoRow \/ Current(n.user).hash # n.hash

LEMMA RowsThen ==
    ASSUME NEW n, sets' = sets \cup {n}, NEW u
    PROVE  Succeeded(u)' = Succeeded(u) \cup {s \in {n} : s.user = u /\ s.status = "succeeded"}
BY DEF Succeeded

\* The payload of the newest set is not written again.
LEMMA NotTwice ==
    ASSUME WeeklyInv, NEW n \in AnyRow, n.status = "succeeded",
           \A s \in sets : s.at < n.at,
           Current(n.user) = NoRow \/ Current(n.user).hash # n.hash,
           NEW s \in Succeeded(n.user),
           \A r \in Succeeded(n.user) : ~(s.at < r.at /\ r.at < n.at)
    PROVE  s.hash # n.hash
<1>1. n.user \in Readers /\ Succeeded(n.user) \subseteq sets
  BY DEF AnyRow, Succeeded
<1>2. \A r \in Succeeded(n.user) : r.at \in Nat
  BY <1>1 DEF WeeklyInv, WeeklyTyped, AnyRow
<1>3. \A r \in Succeeded(n.user) : r.at <= s.at
  BY <1>1, <1>2
<1>4. Current(n.user) = s /\ Current(n.user) # NoRow
  BY <1>1, <1>3, CurrentOf DEF WeeklyInv
<1> QED
  BY <1>4

LEMMA WritesKeeps ==
    ASSUME WeeklyInv, NEW p \in Passes, NEW w \in AnyWork, NEW n \in AnyRow, Writes(p, w, n)
    PROVE  WeeklyInv'
<1>1. /\ work'[p] = w /\ \A q \in Passes \ {p} : work'[q] = work[q]
      /\ sets' = sets \cup {n} /\ (lost' <=> lost) /\ lock' = lock
      /\ w.at = "next"
  BY DEF Writes, WeeklyInv, WeeklyTyped
<1>2. /\ clock \in Nat /\ clock' \in Nat /\ clock <= clock' /\ n.at <= clock' /\ n.at \in Nat
      /\ n.user \in Readers
  BY DEF Writes, WeeklyInv, WeeklyTyped, AnyRow
<1>3. \A s \in sets : s.at \in Nat /\ s.at <= clock /\ s.at # n.at
  BY DEF Writes, WeeklyInv, WeeklyTyped, OwnTimes, AnyRow
<1>4. WeeklyTyped'
  <2>1. work' \in [Passes -> AnyWork] /\ sets' \subseteq AnyRow
    BY <1>1 DEF Writes, WeeklyInv, WeeklyTyped
  <2>2. \A q \in Passes : work'[q].at \notin {"idle", "next"} => work'[q].user \in Readers
    BY <1>1 DEF WeeklyInv, WeeklyTyped
  <2> QED
    BY <2>1, <2>2, <1>2 DEF Writes, WeeklyInv, WeeklyTyped
<1>5. \A q \in Passes : InTurn(q)' => q # p /\ InTurn(q) /\ work'[q] = work[q]
  BY <1>1 DEF InTurn
<1>6. OwnTimes'
  <2>1. \A s \in sets' : s.at <= clock'
    BY <1>1, <1>2, <1>3
  <2>2. \A s, t \in sets' : s.at = t.at => s = t
    BY <1>1, <1>3 DEF WeeklyInv, OwnTimes
  <2>3. ASSUME NEW q \in Passes, InTurn(q)'
        PROVE  work'[q].began <= clock' /\ \A s \in sets' : s.at # work'[q].began
    <3>1. q # p /\ InTurn(q) /\ work'[q] = work[q]
      BY <1>5, <2>3
    <3>2. /\ work[q].began \in Nat /\ work[q].began <= clock
          /\ \A s \in sets : s.at # work[q].began
      BY <3>1 DEF WeeklyInv, OwnTimes, WeeklyTyped, AnyWork
    <3>3. work[q].began # n.at
      BY <3>1 DEF Writes
    <3> QED
      BY <1>1, <1>2, <3>1, <3>2, <3>3
  <2>4. \A q, r \in Passes :
          InTurn(q)' /\ InTurn(r)' /\ work'[q].began = work'[r].began => q = r
    BY <1>5 DEF WeeklyInv, OwnTimes
  <2> QED
    BY <2>1, <2>2, <2>3, <2>4 DEF OwnTimes
<1>7. Topped'
  <2> SUFFICES ASSUME NEW u \in Readers, Succeeded(u)' # {}
               PROVE  \E s \in Succeeded(u)' : \A t \in Succeeded(u)' : t.at <= s.at
    BY DEF Topped
  <2> DEFINE new == {s \in {n} : s.user = u /\ s.status = "succeeded"}
  <2>1. Succeeded(u)' = Succeeded(u) \cup new
    BY <1>1, RowsThen
  <2>2. \A s \in Succeeded(u) : s.at \in Nat
    BY <1>3 DEF Succeeded
  <2>3. CASE new = {}
    BY <2>1, <2>3 DEF WeeklyInv, Topped
  <2>4. CASE new = {n} /\ Succeeded(u) = {}
    BY <1>2, <2>1, <2>4
  <2>5. CASE new = {n} /\ Succeeded(u) # {}
    <3>1. PICK s \in Succeeded(u) : \A t \in Succeeded(u) : t.at <= s.at
      BY <2>5 DEF WeeklyInv, Topped
    <3>2. s.at \in Nat
      BY <2>2
    <3>3. CASE n.at <= s.at
      BY <2>1, <2>5, <3>1, <3>3
    <3>4. CASE s.at <= n.at
      <4>1. \A t \in Succeeded(u) : t.at <= n.at
        BY <1>2, <2>2, <3>1, <3>2, <3>4
      <4> QED
        BY <1>2, <2>1, <2>5, <4>1
    <3> QED
      BY <1>2, <3>2, <3>3, <3>4
  <2>6. new = {} \/ new = {n}
    OBVIOUS
  <2> QED
    BY <2>3, <2>4, <2>5, <2>6
<1>8. Cleared'
  <2>1. \A s \in sets' : s.shows \cap s.hash.exclude = {}
    BY <1>1 DEF Writes, WeeklyInv, Cleared
  <2>2. \A q \in Passes : work'[q].at = "again" => work'[q] = work[q]
    BY <1>1
  <2> QED
    BY <2>1, <2>2 DEF WeeklyInv, Cleared
<1>9. Alone'
  <2> SUFFICES ASSUME ~lost PROVE Alone'
    BY <1>1 DEF Alone
  <2>1. lock = p
    BY DEF Writes, WeeklyInv, Alone
  <2>2. p # None /\ \A q \in Passes \ {p} : work'[q].at = "idle"
    BY <1>1, <2>1, RecommendationsAssumption DEF WeeklyInv, Alone, RecommendationsAssumption
  <2> QED
    BY <1>1, <2>1, <2>2 DEF Alone, InTurn
<1>10. PaidOnce'
  <2> SUFFICES ASSUME ~lost, NEW s \in sets', NEW t \in sets',
                      s.status = "succeeded", t.status = "succeeded",
                      s.user = t.user, s.at < t.at,
                      \A r \in sets' : r.user = s.user /\ r.status = "succeeded"
                                         => ~(s.at < r.at /\ r.at < t.at)
               PROVE  s.hash # t.hash
    BY <1>1 DEF PaidOnce
  <2>1. CASE s \in sets /\ t \in sets
    BY <1>1, <2>1 DEF WeeklyInv, PaidOnce
  <2>2. CASE t = n /\ s \in sets
    <3>1. /\ \A r \in sets : r.at < n.at
          /\ Current(n.user) = NoRow \/ Current(n.user).hash # n.hash
      BY <2>2 DEF Writes
    <3>2. /\ s \in Succeeded(n.user)
          /\ \A r \in Succeeded(n.user) : ~(s.at < r.at /\ r.at < n.at)
      BY <1>1, <2>2 DEF Succeeded
    <3>3. n.status = "succeeded"
      BY <2>2
    <3> QED
      BY <2>2, <3>1, <3>2, <3>3, NotTwice
  <2>3. CASE s = n
    <3>1. \A r \in sets : r.at < n.at
      BY <2>3 DEF Writes
    <3> QED
      BY <1>1, <1>2, <1>3, <2>3, <3>1
  <2> QED
    BY <1>1, <2>1, <2>2, <2>3
<1> QED
  BY <1>4, <1>6, <1>7, <1>8, <1>9, <1>10 DEF WeeklyInv

-----------------------------------------------------------------------------
\* A user does something, and no set is written.
LEMMA ActKeeps ==
    ASSUME WeeklyInv, NEW u \in Readers, UNCHANGED <<work, lock, lost, clock>>,
           accounts' \subseteq accounts,
           record' \in [Readers -> SUBSET Catalog], dismissed' \in [Readers -> SUBSET Catalog],
           sets' = sets \/ sets' = {s \in sets : s.user # u}
    PROVE  WeeklyInv'
<1>1. sets' \subseteq sets /\ (lost' <=> lost) /\ work' = work /\ lock' = lock
  OBVIOUS
<1>2. \A v \in Readers : Succeeded(v)' = Succeeded(v) \/ Succeeded(v)' = {}
  BY DEF Succeeded
<1>3. WeeklyTyped'
  BY <1>1 DEF WeeklyInv, WeeklyTyped
<1>4. OwnTimes'
  BY <1>1 DEF WeeklyInv, OwnTimes, InTurn
<1>5. Topped'
  BY <1>2 DEF WeeklyInv, Topped
<1>6. Cleared'
  BY <1>1 DEF WeeklyInv, Cleared
<1>7. Alone'
  <2>1. ASSUME NEW q \in Passes, work[q].at \in {"ask", "again"}, Changed(work[q])
        PROVE  Changed(work[q])'
    <3>1. work[q].user \in Readers
      BY <2>1 DEF WeeklyInv, WeeklyTyped
    <3>2. CASE Succeeded(work[q].user)' = Succeeded(work[q].user)
      BY <1>1, <2>1, <3>2 DEF Changed, Current, Succeeded
    <3>3. CASE Succeeded(work[q].user)' = {}
      BY <1>1, <3>3 DEF Changed, Current, Succeeded, Newest
    <3> QED
      BY <1>2, <3>1, <3>2, <3>3
  <2> QED
    BY <1>1, <2>1 DEF WeeklyInv, Alone, InTurn
<1>8. PaidOnce'
  <2> SUFFICES ASSUME ~lost, NEW s \in sets', NEW t \in sets',
                      s.status = "succeeded", t.status = "succeeded",
                      s.user = t.user, s.at < t.at,
                      \A r \in sets' : r.user = s.user /\ r.status = "succeeded"
                                         => ~(s.at < r.at /\ r.at < t.at)
               PROVE  s.hash # t.hash
    BY <1>1 DEF PaidOnce
  <2>1. \A r \in sets : r.user = s.user => r \in sets'
    OBVIOUS
  <2> QED
    BY <1>1, <2>1 DEF WeeklyInv, PaidOnce
<1> QED
  BY <1>3, <1>4, <1>5, <1>6, <1>7, <1>8 DEF WeeklyInv

LEMMA NextWork ==
    ASSUME NEW t \in SUBSET Readers, NEW f \in Nat
    PROVE  /\ [NoWork EXCEPT !.at = "next", !.todo = t, !.failures = f] \in AnyWork
           /\ [NoWork EXCEPT !.at = "next", !.todo = t, !.failures = f].at = "next"
           /\ [NoWork EXCEPT !.at = "next", !.todo = t] \in AnyWork
           /\ [NoWork EXCEPT !.at = "next", !.todo = t].at = "next"
           /\ NoWork \in AnyWork /\ NoWork.at = "idle"
BY DEF NoWork, AnyWork

LEMMA TakeLockKeeps ==
    ASSUME WeeklyInv, NEW p \in Passes, NEW list \in SUBSET Readers, TakeLock(p, list)
    PROVE  WeeklyInv'
<1> DEFINE w == [NoWork EXCEPT !.at = "next", !.todo = list]
<1>1. w \in AnyWork /\ w.at = "next"
  BY NextWork
<1> HIDE DEF w
<1>2. work' = [work EXCEPT ![p] = w] /\ lock' = p /\ lock = None
  BY DEF TakeLock, Begun, w
<1>3. UNCHANGED <<accounts, record, dismissed, sets, clock, lost>>
  BY DEF TakeLock, Begun, data
<1>4. \A q \in Passes : q # None
  BY RecommendationsAssumption DEF RecommendationsAssumption
<1>5. clock \in Nat
  BY DEF WeeklyInv, WeeklyTyped
<1>6. lost \/ \A q \in Passes \ {p} : work[q].at # "idle" => lock' = q
  BY <1>2, <1>4 DEF WeeklyInv, Alone
<1>7. Goes(p, w)
  BY <1>1, <1>2, <1>3, <1>5, <1>6 DEF Goes
<1> QED
  BY <1>1, <1>7, GoesKeeps

\* The rest of a turn, but for what it writes.
LEMMA CompileTasteKeeps ==
    ASSUME WeeklyInv, NEW p \in Passes, CompileTaste(p)
    PROVE  WeeklyInv'
<1> DEFINE c == clock + 1
<1>1. PICK u \in work[p].todo :
        work' = [work EXCEPT ![p].at = "taste", ![p].todo = @ \ {u}, ![p].user = u,
                             ![p].began = c, ![p].tiers = record[u]]
  BY DEF CompileTaste
<1> DEFINE t == work[p].todo \ {u}
           w == [work[p] EXCEPT !.at = "taste", !.todo = t, !.user = u,
                                !.began = c, !.tiers = record[u]]
<1>2. /\ work[p].at = "next" /\ clock' = c /\ clock \in Nat /\ work[p] \in AnyWork
      /\ record \in [Readers -> SUBSET Catalog] /\ clock <= c /\ c = clock + 1 /\ c \in Nat
  BY DEF CompileTaste, WeeklyInv, WeeklyTyped
<1>3. u \in Readers /\ record[u] \in SUBSET Catalog /\ t \in SUBSET Readers
  BY <1>1, <1>2 DEF AnyWork
<1>5. work' = [work EXCEPT ![p] = w]
  BY <1>1 DEF WeeklyInv, WeeklyTyped
<1> HIDE DEF c, t
<1>4. w \in AnyWork /\ w.at = "taste" /\ w.user = u /\ w.began = c
  BY <1>2, <1>3 DEF AnyWork
<1> HIDE DEF w
<1>6. UNCHANGED <<accounts, record, dismissed, sets, lock, lost>>
  BY DEF CompileTaste, data
<1>7. lost \/ (lock = p /\ \A q \in Passes \ {p} : work[q].at # "idle" => lock = q)
  BY <1>2 DEF WeeklyInv, Alone
<1>8. Goes(p, w)
  BY <1>2, <1>3, <1>4, <1>5, <1>6, <1>7 DEF Goes
<1> QED
  BY <1>4, <1>8, GoesKeeps

\* A pass in a turn goes on with it as w, or to the next.
Turns(p, w) ==
    /\ work[p].at # "idle" /\ w.at # "idle"
    /\ work' = [work EXCEPT ![p] = w]
    /\ UNCHANGED <<accounts, record, dismissed, sets, lock, lost>>
    /\ clock' \in Nat /\ clock <= clock'
    /\ w.at # "next" => w.user = work[p].user /\ work[p].at # "next"
    /\ w.at \in {"taste", "gate", "ask", "again"} => InTurn(p) /\ w.began = work[p].began
    /\ w.at = "again" => \A first \in w.kept : first \cap w.exclude = {}
    /\ w.at \in {"ask", "again"} => lost \/ Changed(w)

LEMMA TurnGoes ==
    ASSUME WeeklyInv, NEW p \in Passes, NEW w \in AnyWork, Turns(p, w)
    PROVE  WeeklyInv'
<1>1. lost \/ (lock = p /\ \A q \in Passes \ {p} : work[q].at # "idle" => lock = q)
  BY DEF WeeklyInv, Alone, Turns
<1>2. w.at \notin {"idle", "next"} => w.user \in Readers
  BY DEF WeeklyInv, WeeklyTyped, Turns
<1>3. Goes(p, w)
  BY <1>1, <1>2 DEF Goes, Turns
<1> QED
  BY <1>3, GoesKeeps

LEMMA ExclusionKeeps ==
    ASSUME WeeklyInv, NEW p \in Passes, CompileExclusion(p)
    PROVE  WeeklyInv'
<1> DEFINE w == [work[p] EXCEPT !.at = "gate", !.exclude = NeverToRecommend(work[p].user)]
<1>1. /\ work[p].at = "taste" /\ clock \in Nat /\ work[p] \in AnyWork
      /\ work[p].user \in Readers
      /\ record \in [Readers -> SUBSET Catalog] /\ dismissed \in [Readers -> SUBSET Catalog]
  BY DEF CompileExclusion, WeeklyInv, WeeklyTyped
<1>2. NeverToRecommend(work[p].user) \in SUBSET Catalog
  BY <1>1 DEF NeverToRecommend
<1>3. /\ w \in AnyWork /\ w.at = "gate" /\ w.user = work[p].user /\ w.began = work[p].began
  BY <1>1, <1>2 DEF AnyWork
<1>4. work' = [work EXCEPT ![p] = w]
  BY DEF CompileExclusion, WeeklyInv, WeeklyTyped
<1> HIDE DEF w
<1>5. UNCHANGED <<accounts, record, dismissed, sets, lock, lost, clock>>
  BY DEF CompileExclusion, data
<1>6. Turns(p, w)
  BY <1>1, <1>3, <1>4, <1>5 DEF Turns, InTurn
<1> QED
  BY <1>3, <1>6, TurnGoes

LEMMA SkipGoes ==
    ASSUME WeeklyInv, NEW p \in Passes, Skip(p)
    PROVE  WeeklyInv'
<1> DEFINE w == [NoWork EXCEPT !.at = "next", !.todo = work[p].todo, !.failures = 0]
<1>1. work[p].at = "gate" /\ clock \in Nat /\ work[p].todo \in SUBSET Readers
  BY DEF Skip, WeeklyInv, WeeklyTyped, AnyWork
<1>2. w \in AnyWork /\ w.at = "next"
  BY <1>1, NextWork
<1> HIDE DEF w
<1>3. work' = [work EXCEPT ![p] = w]
  BY DEF Skip, NextTurn, w
<1>4. UNCHANGED <<accounts, record, dismissed, sets, lock, lost, clock>>
  BY DEF Skip, data
<1>5. Turns(p, w)
  BY <1>1, <1>2, <1>3, <1>4 DEF Turns
<1> QED
  BY <1>2, <1>5, TurnGoes

LEMMA CallKeeps ==
    ASSUME WeeklyInv, NEW p \in Passes, Call(p)
    PROVE  WeeklyInv'
<1> DEFINE w == [work[p] EXCEPT !.at = "ask"]
<1>1. work[p].at = "gate" /\ Changed(work[p]) /\ clock \in Nat /\ work[p] \in AnyWork
  BY DEF Call, WeeklyInv, WeeklyTyped
<1>2. /\ w \in AnyWork /\ w.at = "ask" /\ w.user = work[p].user /\ w.began = work[p].began
      /\ w.tiers = work[p].tiers /\ w.exclude = work[p].exclude
  BY <1>1 DEF AnyWork
<1>3. work' = [work EXCEPT ![p] = w]
  BY DEF Call, WeeklyInv, WeeklyTyped
<1> HIDE DEF w
<1>4. UNCHANGED <<accounts, record, dismissed, sets, lock, lost, clock>>
  BY DEF Call, data
<1>5. Changed(w)
  BY <1>1, <1>2 DEF Changed, HashOf
<1>6. Turns(p, w)
  BY <1>1, <1>2, <1>3, <1>4, <1>5 DEF Turns, InTurn
<1> QED
  BY <1>2, <1>6, TurnGoes

LEMMA UnbelievableKeeps ==
    ASSUME WeeklyInv, NEW p \in Passes, Unbelievable(p)
    PROVE  WeeklyInv'
<1>1. PICK kept \in SUBSET (SUBSET Catalog) :
        AskAgain(p, kept) /\ \A first \in kept : first \cap work[p].exclude = {}
  <2>1. CASE AskAgain(p, {})
    BY <2>1
  <2>2. CASE \E answer \in Answers : AskAgain(p, {Admitted(answer, work[p].exclude)})
    <3>1. PICK answer \in Answers : AskAgain(p, {Admitted(answer, work[p].exclude)})
      BY <2>2
    <3>2. /\ Admitted(answer, work[p].exclude) \in SUBSET Catalog
          /\ Admitted(answer, work[p].exclude) \cap work[p].exclude = {}
      BY DEF Admitted, Answers
    <3> QED
      BY <3>1, <3>2
  <2> QED
    BY <2>1, <2>2 DEF Unbelievable
<1> DEFINE w == [work[p] EXCEPT !.at = "again", !.kept = kept]
<1>2. work[p].at = "ask" /\ clock \in Nat /\ work[p] \in AnyWork
  BY DEF Unbelievable, WeeklyInv, WeeklyTyped
<1>3. lost \/ Changed(work[p])
  BY <1>2 DEF WeeklyInv, Alone
<1>4. /\ w \in AnyWork /\ w.at = "again" /\ w.user = work[p].user /\ w.began = work[p].began
      /\ w.tiers = work[p].tiers /\ w.exclude = work[p].exclude /\ w.kept = kept
  BY <1>2 DEF AnyWork
<1>5. work' = [work EXCEPT ![p] = w]
  BY <1>1 DEF AskAgain, WeeklyInv, WeeklyTyped
<1> HIDE DEF w
<1>6. UNCHANGED <<accounts, record, dismissed, sets, lock, lost, clock>>
  BY <1>1 DEF AskAgain, data
<1>7. lost \/ Changed(w)
  BY <1>3, <1>4 DEF Changed, HashOf
<1>8. Turns(p, w)
  BY <1>1, <1>2, <1>4, <1>5, <1>6, <1>7 DEF Turns, InTurn
<1> QED
  BY <1>4, <1>8, TurnGoes

LEMMA FailKeeps ==
    ASSUME WeeklyInv, NEW p \in Passes, Fail(p)
    PROVE  WeeklyInv'
<1> DEFINE f == work[p].failures + 1
           w == [work[p] EXCEPT !.at = "record", !.failures = f]
<1>1. work[p].at \in {"taste", "gate", "ask", "again"} /\ clock \in Nat /\ work[p] \in AnyWork
  BY DEF Fail, WeeklyInv, WeeklyTyped
<1>0. f \in Nat /\ work' = [work EXCEPT ![p].at = "record", ![p].failures = f]
  BY <1>1 DEF Fail, AnyWork
<1> HIDE DEF f
<1>2. w \in AnyWork /\ w.at = "record" /\ w.user = work[p].user
  BY <1>0, <1>1 DEF AnyWork
<1>3. work' = [work EXCEPT ![p] = w]
  BY <1>0 DEF WeeklyInv, WeeklyTyped
<1> HIDE DEF w
<1>4. UNCHANGED <<accounts, record, dismissed, sets, lock, lost, clock>>
  BY DEF Fail, data
<1>5. Turns(p, w)
  BY <1>1, <1>2, <1>3, <1>4 DEF Turns
<1> QED
  BY <1>2, <1>5, TurnGoes

\* The pass ends, by itself or not, and so does its hold of the lock.
LEMMA EndKeeps ==
    ASSUME WeeklyInv, NEW p \in Passes, work[p].at # "idle", work' = [work EXCEPT ![p] = NoWork],
           lock' = IF lock = p THEN None ELSE lock,
           UNCHANGED <<data, sets, starts, clock, lost>>
    PROVE  WeeklyInv'
<1>1. NoWork \in AnyWork /\ NoWork.at = "idle"
  BY NextWork
<1>2. clock \in Nat
  BY DEF WeeklyInv, WeeklyTyped
<1>3. lost \/ (lock = p /\ \A q \in Passes \ {p} : work[q].at = "idle")
  BY DEF WeeklyInv, Alone
<1>4. Goes(p, NoWork)
  BY <1>1, <1>2, <1>3 DEF Goes, data
<1> QED
  BY <1>1, <1>4, GoesKeeps

LEMMA LoseLockKeeps ==
    ASSUME WeeklyInv, NEW p \in Passes, LoseLock(p)
    PROVE  WeeklyInv'
<1>1. /\ lost' /\ work' = work /\ sets' = sets /\ clock' = clock
      /\ UNCHANGED <<accounts, record, dismissed>>
  BY DEF LoseLock, data
<1>2. WeeklyTyped' /\ OwnTimes' /\ Cleared'
  BY <1>1 DEF WeeklyInv, WeeklyTyped, OwnTimes, Cleared, InTurn
<1>3. Topped'
  BY <1>1 DEF WeeklyInv, Topped, Succeeded
<1>4. Alone' /\ PaidOnce'
  BY <1>1 DEF Alone, PaidOnce
<1> QED
  BY <1>2, <1>3, <1>4 DEF WeeklyInv

-----------------------------------------------------------------------------
\* What a turn writes: the row of its payload, at the time it began.
RowOf(p, status, shows) ==
    [user |-> work[p].user, at |-> work[p].began, status |-> status,
     hash |-> HashOf(work[p]), shows |-> shows]

LEMMA RowOfIs ==
    ASSUME WeeklyTyped, NEW p \in Passes, work[p].user \in Readers, NEW status \in Statuses,
           NEW shows \in SUBSET Catalog
    PROVE  /\ RowOf(p, status, shows) \in AnyRow
           /\ RowOf(p, status, shows).user = work[p].user
           /\ RowOf(p, status, shows).at = work[p].began
           /\ RowOf(p, status, shows).status = status
           /\ RowOf(p, status, shows).hash = HashOf(work[p])
           /\ RowOf(p, status, shows).shows = shows
<1>1. work[p] \in AnyWork
  BY DEF WeeklyTyped
<1>2. HashOf(work[p]) \in [tiers : SUBSET Catalog, exclude : SUBSET Catalog]
  BY <1>1 DEF HashOf, Hash, AnyWork
<1> QED
  BY <1>1, <1>2 DEF RowOf, AnyRow, AnyWork

LEMMA WrittenKeeps ==
    ASSUME WeeklyInv, NEW p \in Passes, InTurn(p), NEW status \in Statuses,
           NEW shows \in SUBSET Catalog, Written(p, status, shows),
           shows \cap work[p].exclude = {},
           status = "succeeded" => work[p].at \in {"ask", "again"}
    PROVE  WeeklyInv'
<1> DEFINE w == [NoWork EXCEPT !.at = "next", !.todo = work[p].todo, !.failures = 0]
           n == RowOf(p, status, shows)
<1>1. /\ work[p].at \notin {"idle", "next"} /\ clock \in Nat
      /\ work[p].todo \in SUBSET Readers /\ work[p].user \in Readers
      /\ \A s \in sets : s.at \in Nat
  BY DEF InTurn, WeeklyInv, WeeklyTyped, AnyWork, AnyRow
<1>2. w \in AnyWork /\ w.at = "next"
  BY <1>1, NextWork
<1>3. /\ n \in AnyRow /\ n.user = work[p].user /\ n.at = work[p].began /\ n.status = status
      /\ n.hash = HashOf(work[p]) /\ n.shows = shows
  BY <1>1, RowOfIs DEF WeeklyInv
<1>4. work' = [work EXCEPT ![p] = w] /\ sets' = sets \cup {n}
  BY DEF Written, NextTurn, RowOf
<1> HIDE DEF w, n
<1>5. UNCHANGED <<accounts, record, dismissed, lock, lost, clock>>
  BY DEF Written, data
<1>6. n.shows \cap n.hash.exclude = {}
  BY <1>3 DEF HashOf, Hash
<1>7. /\ n.at <= clock /\ \A s \in sets : s.at # n.at
      /\ \A q \in Passes \ {p} : InTurn(q) => work[q].began # n.at
  BY <1>3 DEF WeeklyInv, OwnTimes
<1>8. n.status = "succeeded" =>
         lost \/ /\ \A s \in sets : s.at < n.at
                 /\ Current(n.user) = NoRow \/ Current(n.user).hash # n.hash
  <2>1. n.status = "succeeded" => lost \/ (Changed(work[p]) /\ \A s \in sets : s.at < n.at)
    BY <1>3 DEF WeeklyInv, Alone
  <2> QED
    BY <1>3, <2>1 DEF Changed
<1>9. Writes(p, w, n)
  BY <1>1, <1>2, <1>4, <1>5, <1>6, <1>7, <1>8 DEF Writes
<1> QED
  BY <1>2, <1>3, <1>9, WritesKeeps

LEMMA WriteKeeps ==
    ASSUME WeeklyInv, NEW p \in Passes, work[p].at \in {"ask", "again"},
           NEW shows \in SUBSET Catalog, Write(p, shows), shows \cap work[p].exclude = {}
    PROVE  WeeklyInv'
<1> DEFINE status == IF shows = {} THEN "no_matches" ELSE "succeeded"
<1>1. Written(p, status, shows)
  BY DEF Write
<1>2. status \in Statuses
  BY DEF Statuses
<1> HIDE DEF status
<1> QED
  BY <1>1, <1>2, WrittenKeeps DEF InTurn

\* Every write of a turn is one of what the payload lets through.
LEMMA WriteOf ==
    ASSUME WeeklyInv, NEW p \in Passes, FirstAnswer(p) \/ SecondAnswer(p) \/ NoSecond(p)
    PROVE  /\ work[p].at \in {"ask", "again"}
           /\ \E shows \in SUBSET Catalog :
                Write(p, shows) /\ shows \cap work[p].exclude = {}
<1>1. \A answer \in Answers : /\ Admitted(answer, work[p].exclude) \in SUBSET Catalog
                              /\ Admitted(answer, work[p].exclude) \cap work[p].exclude = {}
  BY DEF Admitted, Answers
<1>2. work[p].at = "again" => \A first \in work[p].kept :
        first \in SUBSET Catalog /\ first \cap work[p].exclude = {}
  BY DEF WeeklyInv, WeeklyTyped, AnyWork, Cleared
<1>3. CASE FirstAnswer(p)
  BY <1>1, <1>3 DEF FirstAnswer
<1>4. CASE SecondAnswer(p)
  <2>1. work[p].at = "again"
    BY <1>4 DEF SecondAnswer
  <2>2. PICK answer \in Answers :
          LET second == Admitted(answer, work[p].exclude)
              better == {first \in work[p].kept : Cardinality(first) >= Cardinality(second)}
          IN Write(p, IF better = {} THEN second ELSE CHOOSE first \in better : TRUE)
    BY <1>4 DEF SecondAnswer
  <2> DEFINE second == Admitted(answer, work[p].exclude)
             better == {first \in work[p].kept : Cardinality(first) >= Cardinality(second)}
             shows == IF better = {} THEN second ELSE CHOOSE first \in better : TRUE
  <2>3. Write(p, shows)
    BY <2>2
  <2>4. better \subseteq work[p].kept
    OBVIOUS
  <2>5. second \in SUBSET Catalog /\ second \cap work[p].exclude = {}
    BY <1>1
  <2> HIDE DEF second, better
  <2>6. shows = second \/ shows \in work[p].kept
    BY <2>4
  <2> HIDE DEF shows
  <2> QED
    BY <1>2, <2>1, <2>3, <2>5, <2>6
<1>5. CASE NoSecond(p)
  BY <1>2, <1>5 DEF NoSecond
<1> QED
  BY <1>3, <1>4, <1>5

LEMMA AnswerKeeps ==
    ASSUME WeeklyInv, NEW p \in Passes, FirstAnswer(p) \/ SecondAnswer(p) \/ NoSecond(p)
    PROVE  WeeklyInv'
BY WriteOf, WriteKeeps

LEMMA TooLittleKeeps ==
    ASSUME WeeklyInv, NEW p \in Passes, TooLittle(p)
    PROVE  WeeklyInv'
<1>1. work[p].at = "gate" /\ Written(p, "insufficient_history", {})
  BY DEF TooLittle
<1> QED
  BY <1>1, WrittenKeeps DEF InTurn, Statuses

LEMMA RecordKeeps ==
    ASSUME WeeklyInv, NEW p \in Passes, Record(p)
    PROVE  WeeklyInv'
<1> DEFINE f == IF work[p].failures = Limit THEN 0 ELSE work[p].failures
           t == IF work[p].failures = Limit THEN {} ELSE work[p].todo
           w == [NoWork EXCEPT !.at = "next", !.todo = t, !.failures = f]
           v == work[p].user
           n == [user |-> v, at |-> clock + 1, status |-> "failed",
                 hash |-> Hash(record[v], NeverToRecommend(v)), shows |-> {}]
<1>1. /\ work[p].at = "record" /\ clock \in Nat /\ clock' = clock + 1 /\ v \in Readers
      /\ work[p] \in AnyWork
      /\ record \in [Readers -> SUBSET Catalog] /\ dismissed \in [Readers -> SUBSET Catalog]
  BY DEF Record, WeeklyInv, WeeklyTyped
<1>2. f \in Nat /\ t \in SUBSET Readers
  BY <1>1 DEF AnyWork
<1>3. work' = [work EXCEPT ![p] = [NoWork EXCEPT !.at = "next", !.failures = f, !.todo = t]]
  BY DEF Record
<1>4. work' = [work EXCEPT ![p] = w]
  BY <1>3 DEF NoWork
<1> HIDE DEF f, t
<1>5. w \in AnyWork /\ w.at = "next"
  BY <1>2, NextWork
<1> HIDE DEF w
<1>6. UNCHANGED <<accounts, record, dismissed, lock, lost>>
  BY DEF Record, data
<1>7. CASE sets' = sets
  <2>1. Turns(p, w)
    BY <1>1, <1>4, <1>5, <1>6, <1>7 DEF Turns
  <2> QED
    BY <1>5, <2>1, TurnGoes
<1>8. CASE sets' = sets \cup {n}
  <2>1. Hash(record[v], NeverToRecommend(v)) \in [tiers : SUBSET Catalog, exclude : SUBSET Catalog]
    BY <1>1 DEF Hash, NeverToRecommend
  <2>2. n \in AnyRow /\ n.at = clock + 1 /\ n.shows = {} /\ n.status = "failed"
    BY <1>1, <2>1 DEF AnyRow, Statuses
  <2> HIDE DEF n
  <2>3. /\ \A s \in sets : s.at # n.at
        /\ \A q \in Passes \ {p} : InTurn(q) => work[q].began # n.at
    BY <1>1, <2>2 DEF WeeklyInv, WeeklyTyped, OwnTimes, AnyRow, AnyWork
  <2>4. Writes(p, w, n)
    BY <1>1, <1>4, <1>5, <1>6, <1>8, <2>2, <2>3 DEF Writes
  <2> QED
    BY <1>5, <2>2, <2>4, WritesKeeps
<1> QED
  BY <1>7, <1>8 DEF Record

-----------------------------------------------------------------------------
LEMMA InitHolds ==
    ASSUME WeeklyInit
    PROVE  WeeklyInv
<1>1. NoWork \in AnyWork /\ NoWork.at = "idle"
  BY NextWork
<1>2. work = [p \in Passes |-> NoWork] /\ sets = {} /\ clock = 0
  BY DEF WeeklyInit
<1>3. WeeklyTyped
  BY <1>1, <1>2 DEF WeeklyInit, WeeklyTyped
<1>4. OwnTimes /\ Cleared /\ Alone
  BY <1>1, <1>2 DEF OwnTimes, Cleared, Alone, InTurn
<1>5. Topped /\ PaidOnce
  BY <1>2 DEF Topped, Succeeded, PaidOnce
<1> QED
  BY <1>3, <1>4, <1>5 DEF WeeklyInv

LEMMA UserKeeps ==
    ASSUME WeeklyInv, NEW u \in Readers,
           DeleteAccount(u) \/ \E s \in Catalog : ChangeRecord(u, s) \/ Dismiss(u, s)
    PROVE  WeeklyInv'
<1>1. record \in [Readers -> SUBSET Catalog] /\ dismissed \in [Readers -> SUBSET Catalog]
  BY DEF WeeklyInv, WeeklyTyped
<1>2. CASE DeleteAccount(u)
  BY <1>1, <1>2, ActKeeps DEF DeleteAccount
<1>3. ASSUME NEW s \in Catalog, ChangeRecord(u, s) PROVE WeeklyInv'
  <2>1. record' \in [Readers -> SUBSET Catalog]
    BY <1>1, <1>3 DEF ChangeRecord
  <2> QED
    BY <1>1, <1>3, <2>1, ActKeeps DEF ChangeRecord
<1>4. ASSUME NEW s \in Catalog, Dismiss(u, s) PROVE WeeklyInv'
  <2>1. dismissed' \in [Readers -> SUBSET Catalog]
    BY <1>1, <1>4 DEF Dismiss
  <2> QED
    BY <1>1, <1>4, <2>1, ActKeeps DEF Dismiss
<1> QED
  BY <1>2, <1>3, <1>4

LEMMA NextKeeps ==
    ASSUME WeeklyInv, [WeeklyNext]_weeklyVars
    PROVE  WeeklyInv'
<1>1. CASE UNCHANGED weeklyVars
  <2>1. /\ UNCHANGED <<accounts, record, dismissed, sets, lock, work, clock>>
        /\ lost' <=> lost
    BY <1>1 DEF weeklyVars, data
  <2>2. WeeklyTyped' /\ OwnTimes'
    BY <2>1 DEF WeeklyInv, WeeklyTyped, OwnTimes, InTurn
  <2>3. Topped' /\ Cleared'
    BY <2>1 DEF WeeklyInv, Topped, Cleared, Succeeded
  <2>4. \A q \in Passes : Changed(work[q])' <=> Changed(work[q])
    BY <2>1 DEF Changed, Current
  <2>5. Alone'
    BY <2>1, <2>4 DEF WeeklyInv, Alone, InTurn
  <2>6. PaidOnce'
    BY <2>1 DEF WeeklyInv, PaidOnce
  <2> QED
    BY <2>2, <2>3, <2>5, <2>6 DEF WeeklyInv
<1>2. ASSUME NEW p \in Passes,
             NEW list \in {accounts} \cup {{u} : u \in accounts}, TakeLock(p, list)
      PROVE  WeeklyInv'
  <2>1. list \in SUBSET Readers
    BY DEF WeeklyInv, WeeklyTyped
  <2> QED
    BY <1>2, <2>1, TakeLockKeeps
<1>3. ASSUME NEW p \in Passes, Step(p)
      PROVE  WeeklyInv'
  <2>1. CASE EndPass(p)
    BY <2>1, EndKeeps DEF EndPass
  <2>2. CASE Record(p)
    BY <2>2, RecordKeeps
  <2> QED
    BY <1>3, <2>1, <2>2, CompileTasteKeeps, ExclusionKeeps, SkipGoes, CallKeeps,
       UnbelievableKeeps, FailKeeps, AnswerKeeps, TooLittleKeeps DEF Step
<1>4. ASSUME NEW p \in Passes, Crash(p)
      PROVE  WeeklyInv'
  BY <1>4, EndKeeps DEF Crash
<1> QED
  BY <1>1, <1>2, <1>3, <1>4, LoseLockKeeps, UserKeeps DEF WeeklyNext

\* A step of a pass is a step of its work alone.
LEMMA OthersWork ==
    ASSUME NEW p \in Passes, Step(p), work \in [Passes -> AnyWork]
    PROVE  \A q \in Passes \ {p} : work'[q] = work[q]
<1>1. ASSUME NEW status, NEW shows, Written(p, status, shows)
      PROVE  \A q \in Passes \ {p} : work'[q] = work[q]
  BY <1>1 DEF Written, NextTurn
<1>2. CASE TooLittle(p) \/ FirstAnswer(p) \/ SecondAnswer(p) \/ NoSecond(p)
  BY <1>1, <1>2 DEF TooLittle, FirstAnswer, SecondAnswer, NoSecond, Write
<1>3. CASE CompileTaste(p) \/ CompileExclusion(p) \/ Skip(p) \/ Call(p)
  BY <1>3 DEF CompileTaste, CompileExclusion, Skip, NextTurn, Call
<1>4. CASE Unbelievable(p) \/ Fail(p) \/ Record(p) \/ EndPass(p)
  BY <1>4 DEF Unbelievable, AskAgain, Fail, Record, EndPass
<1> QED
  BY <1>2, <1>3, <1>4 DEF Step

\* A turn that ends at the gate, and writes nothing, is skipped.
LEMMA EndsAtGate ==
    ASSUME WeeklyInv, NEW p \in Passes, [WeeklyNext]_weeklyVars,
           work[p].at = "gate", work'[p].at = "next", sets' = sets
    PROVE  Skip(p)
<1>1. work \in [Passes -> AnyWork]
  BY DEF WeeklyInv, WeeklyTyped
<1>2. ASSUME NEW q \in Passes, NEW list, TakeLock(q, list)
      PROVE  FALSE
  <2>1. work[q].at = "idle" /\ \A r \in Passes \ {q} : work'[r] = work[r]
    BY <1>1, <1>2 DEF TakeLock, Begun
  <2> QED
    BY <2>1
<1>3. ASSUME NEW q \in Passes, Crash(q) \/ LoseLock(q)
      PROVE  FALSE
  <2>1. work'[p] = work[p] \/ work'[p] = NoWork
    BY <1>1, <1>3 DEF Crash, LoseLock
  <2> QED
    BY <2>1 DEF NoWork
<1>4. ASSUME NEW u \in Readers,
             DeleteAccount(u) \/ \E s \in Catalog : ChangeRecord(u, s) \/ Dismiss(u, s)
      PROVE  FALSE
  BY <1>4 DEF DeleteAccount, ChangeRecord, Dismiss
<1>5. ASSUME UNCHANGED weeklyVars PROVE FALSE
  BY <1>5 DEF weeklyVars
<1>6. PICK q \in Passes : Step(q)
  BY <1>2, <1>3, <1>4, <1>5 DEF WeeklyNext
<1>7. q = p
  BY <1>1, <1>6, OthersWork
<1>8. ~TooLittle(p)
  <2>1. SUFFICES ASSUME TooLittle(p) PROVE FALSE
    OBVIOUS
  <2>2. sets' = sets \cup {RowOf(p, "insufficient_history", {})}
    BY <2>1 DEF TooLittle, Written, RowOf
  <2>3. RowOf(p, "insufficient_history", {}).at = work[p].began
    BY DEF RowOf
  <2> QED
    BY <2>2, <2>3 DEF WeeklyInv, OwnTimes, InTurn
<1>9. /\ ~CompileTaste(p) /\ ~CompileExclusion(p) /\ ~FirstAnswer(p) /\ ~Unbelievable(p)
      /\ ~SecondAnswer(p) /\ ~NoSecond(p) /\ ~Record(p) /\ ~EndPass(p)
  BY DEF CompileTaste, CompileExclusion, FirstAnswer, Unbelievable, SecondAnswer,
         NoSecond, Record, EndPass
<1>10. ~Call(p) /\ ~Fail(p)
  <2>1. work[p] \in AnyWork
    BY <1>1
  <2>2. Call(p) => work'[p].at = "ask"
    BY <1>1, <2>1 DEF Call, AnyWork
  <2>3. Fail(p) => work'[p].at = "record"
    BY <1>1, <2>1 DEF Fail, AnyWork
  <2> QED
    BY <2>2, <2>3
<1> QED
  BY <1>6, <1>7, <1>8, <1>9, <1>10 DEF Step

LEMMA SkipWhole ==
    ASSUME WeeklyInv, NEW p \in Passes, Skip(p)
    PROVE  Current(work[p].user).shows \cap work[p].exclude \subseteq work[p].tiers
<1>1. /\ Current(work[p].user) # NoRow /\ Current(work[p].user).hash = HashOf(work[p])
      /\ work[p].user \in Readers
  BY DEF Skip, Changed, WeeklyInv, WeeklyTyped
<1>2. Current(work[p].user) \in sets
  BY <1>1, CurrentOf DEF WeeklyInv, Succeeded
<1>3. Current(work[p].user).shows \cap Current(work[p].user).hash.exclude = {}
  BY <1>2 DEF WeeklyInv, Cleared
<1>4. HashOf(work[p]).exclude = work[p].exclude \ work[p].tiers
  BY DEF HashOf, Hash
<1> QED
  BY <1>1, <1>3, <1>4

-----------------------------------------------------------------------------
\* A set more that succeeded is the newest, or the newest stays.
LEMMA NewestThen ==
    ASSUME WeeklyTyped, OwnTimes, Topped, NEW u \in Readers,
           NEW n, n.at \in Nat, \A s \in sets : s.at # n.at,
           Succeeded(u)' = Succeeded(u) \cup {n}
    PROVE  Current(u)' = n \/ Current(u)' = Current(u)
<1>1. Current(u)' = Newest(Succeeded(u)')
  BY DEF Current, Succeeded
<1>2. /\ \A s \in Succeeded(u) : s.at \in Nat /\ s.at # n.at
      /\ \A s, t \in Succeeded(u) : s.at = t.at => s = t
  BY DEF Succeeded, WeeklyTyped, OwnTimes, AnyRow
<1> DEFINE R == Succeeded(u) \cup {n}
<1>3. /\ \A t \in R : t.at \in Nat
      /\ \A s, t \in R : s.at = t.at => s = t
  BY <1>2
<1>4. Current(u)' = Newest(R)
  BY <1>1
<1>5. ASSUME NEW s \in R, \A t \in R : t.at <= s.at
      PROVE  Current(u)' = s
  <2> HIDE DEF R
  <2>1. Newest(R) = s
    BY <1>3, <1>5, NewestIs
  <2> QED
    BY <1>4, <2>1
<1>6. CASE \A t \in Succeeded(u) : t.at <= n.at
  <2>1. \A t \in R : t.at <= n.at
    BY <1>6
  <2> QED
    BY <1>5, <2>1
<1>7. CASE ~ \A t \in Succeeded(u) : t.at <= n.at
  <2>1. PICK r \in Succeeded(u) : r.at > n.at
    BY <1>2, <1>7
  <2>2. PICK s \in Succeeded(u) : \A t \in Succeeded(u) : t.at <= s.at
    BY <2>1 DEF Topped
  <2>3. \A t \in R : t.at <= s.at
    BY <1>2, <2>1, <2>2
  <2>4. Current(u)' = s
    BY <1>5, <2>2, <2>3
  <2>5. Current(u) = s
    BY <2>2, CurrentOf
  <2> QED
    BY <2>4, <2>5
<1> QED
  BY <1>6, <1>7

\* What becomes of the set u sees, when a row is written.
LEMMA RowShown ==
    ASSUME WeeklyInv, NEW u \in Readers, NEW n \in AnyRow, \A s \in sets : s.at # n.at,
           sets' = sets \cup {n}
    PROVE  \/ Current(u)' = Current(u)
           \/ n.user = u /\ n.status = "succeeded" /\ Current(u)' = n
<1> DEFINE new == {s \in {n} : s.user = u /\ s.status = "succeeded"}
<1>1. Succeeded(u)' = Succeeded(u) \cup new
  BY RowsThen
<1>2. CASE new = {}
  <2>1. Succeeded(u)' = Succeeded(u)
    BY <1>1, <1>2
  <2> QED
    BY <2>1, SameCurrent
<1>3. CASE new = {n}
  <2>1. n.at \in Nat /\ n.user = u /\ n.status = "succeeded"
    BY <1>3 DEF AnyRow
  <2> QED
    BY <1>1, <1>3, <2>1, NewestThen DEF WeeklyInv
<1> QED
  BY <1>2, <1>3

\* What the property says of one user.
StandsFor(u) ==
    Shown(u) # {} /\ Shown(u)' = {} /\ UNCHANGED <<record[u], dismissed[u]>>
        => \E p \in Passes : /\ work[p].user = u /\ work[p].at \in {"ask", "again"}
                             /\ NeverToRecommend(u) # work[p].exclude

LEMMA SameStands ==
    ASSUME NEW u, Current(u)' = Current(u)
    PROVE  StandsFor(u)
BY DEF StandsFor, Shown, NeverToRecommend

LEMMA WrittenStands ==
    ASSUME WeeklyInv, NEW p \in Passes, work[p].user \in Readers, InTurn(p),
           NEW status \in Statuses, NEW shows \in SUBSET Catalog,
           Written(p, status, shows), shows \cap work[p].exclude = {},
           status = "succeeded" => work[p].at \in {"ask", "again"} /\ shows # {},
           NEW u \in Readers
    PROVE  StandsFor(u)
<1> DEFINE n == RowOf(p, status, shows)
<1>1. /\ n \in AnyRow /\ n.user = work[p].user /\ n.at = work[p].began /\ n.status = status
      /\ n.shows = shows
  BY RowOfIs DEF WeeklyInv
<1>2. sets' = sets \cup {n}
  BY DEF Written, RowOf
<1> HIDE DEF n
<1>3. \A s \in sets : s.at # n.at
  BY <1>1 DEF WeeklyInv, OwnTimes
<1>4. \/ Current(u)' = Current(u)
      \/ n.user = u /\ n.status = "succeeded" /\ Current(u)' = n
  BY <1>1, <1>2, <1>3, RowShown
<1>5. CASE n.user = u /\ n.status = "succeeded" /\ Current(u)' = n
  <2>1. /\ work[p].user = u /\ work[p].at \in {"ask", "again"}
        /\ shows # {} /\ shows \cap work[p].exclude = {}
    BY <1>1, <1>5
  <2>2. Shown(u)' = shows \ NeverToRecommend(u)'
    BY <1>1, <1>5 DEF Shown
  <2>3. UNCHANGED <<record[u], dismissed[u]>> => NeverToRecommend(u)' = NeverToRecommend(u)
    BY DEF NeverToRecommend
  <2> QED
    BY <2>1, <2>2, <2>3 DEF StandsFor
<1> QED
  BY <1>4, <1>5, SameStands

LEMMA RecordStands ==
    ASSUME WeeklyInv, NEW p \in Passes, Record(p), sets' # sets, NEW u \in Readers
    PROVE  StandsFor(u)
<1> DEFINE v == work[p].user
           n == [user |-> v, at |-> clock + 1, status |-> "failed",
                 hash |-> Hash(record[v], NeverToRecommend(v)), shows |-> {}]
<1>1. sets' = sets \cup {n}
  BY DEF Record
<1>2. n.status # "succeeded"
  OBVIOUS
<1> HIDE DEF n
<1>3. Succeeded(u)' = Succeeded(u) \cup {s \in {n} : s.user = u /\ s.status = "succeeded"}
  BY <1>1, RowsThen
<1>4. Succeeded(u)' = Succeeded(u)
  BY <1>2, <1>3
<1> QED
  BY <1>4, SameCurrent, SameStands

LEMMA NextStands ==
    ASSUME WeeklyInv, [WeeklyNext]_weeklyVars, sets # sets', NEW u \in accounts'
    PROVE  StandsFor(u)
<1>1. CASE UNCHANGED weeklyVars
  BY <1>1 DEF weeklyVars
<1>2. ASSUME NEW p \in Passes, NEW list, TakeLock(p, list)
      PROVE  FALSE
  BY <1>2 DEF TakeLock, Begun
<1>3. ASSUME NEW p \in Passes, Crash(p) \/ LoseLock(p)
      PROVE  FALSE
  BY <1>3 DEF Crash, LoseLock
<1>4. ASSUME NEW p \in Passes, Step(p)
      PROVE  StandsFor(u)
  <2>1. UNCHANGED accounts /\ u \in Readers
    <3>1. UNCHANGED accounts
      BY <1>4 DEF Step, CompileTaste, CompileExclusion, Skip, Call, Unbelievable, AskAgain,
                  Fail, Record, EndPass, TooLittle, FirstAnswer, SecondAnswer, NoSecond,
                  Write, Written, data
    <3> QED
      BY <3>1 DEF WeeklyInv, WeeklyTyped
  <2>2. CASE Record(p)
    BY <2>1, <2>2, RecordStands
  <2>3. CASE TooLittle(p)
    <3>1. work[p].at = "gate" /\ Written(p, "insufficient_history", {})
      BY <2>3 DEF TooLittle
    <3>2. work[p].user \in Readers /\ InTurn(p)
      BY <3>1 DEF InTurn, WeeklyInv, WeeklyTyped
    <3> QED
      BY <2>1, <3>1, <3>2, WrittenStands DEF Statuses
  <2>4. CASE FirstAnswer(p) \/ SecondAnswer(p) \/ NoSecond(p)
    <3>1. work[p].at \in {"ask", "again"}
      BY <2>4, WriteOf
    <3>2. PICK shows \in SUBSET Catalog : Write(p, shows) /\ shows \cap work[p].exclude = {}
      BY <2>4, WriteOf
    <3> DEFINE status == IF shows = {} THEN "no_matches" ELSE "succeeded"
    <3>3. Written(p, status, shows)
      BY <3>2 DEF Write
    <3>4. status \in Statuses /\ (status = "succeeded" => shows # {})
      BY DEF Statuses
    <3> HIDE DEF status
    <3>5. work[p].user \in Readers /\ InTurn(p)
      BY <3>1 DEF InTurn, WeeklyInv, WeeklyTyped
    <3> QED
      BY <2>1, <3>1, <3>2, <3>3, <3>4, <3>5, WrittenStands
  <2>5. CASE \/ CompileTaste(p) \/ CompileExclusion(p) \/ Skip(p) \/ Call(p)
             \/ Unbelievable(p) \/ Fail(p) \/ EndPass(p)
    BY <2>5 DEF CompileTaste, CompileExclusion, Skip, Call, Unbelievable, AskAgain,
                Fail, EndPass
  <2> QED
    BY <1>4, <2>2, <2>3, <2>4, <2>5 DEF Step
<1>5. ASSUME NEW v \in Readers, DeleteAccount(v)
      PROVE  StandsFor(u)
  <2>1. u # v /\ sets' = {s \in sets : s.user # v}
    BY <1>5 DEF DeleteAccount
  <2>2. Succeeded(u)' = Succeeded(u)
    BY <2>1 DEF Succeeded
  <2> QED
    BY <2>2, SameCurrent, SameStands
<1>6. ASSUME NEW v \in Readers, NEW s \in Catalog, ChangeRecord(v, s) \/ Dismiss(v, s)
      PROVE  FALSE
  BY <1>6 DEF ChangeRecord, Dismiss
<1> QED
  BY <1>1, <1>2, <1>3, <1>4, <1>5, <1>6 DEF WeeklyNext

-----------------------------------------------------------------------------
\* Whatever passes, readers and users do, and whatever pass loses its lock: rows
\* and payloads are what they say, each row has a time of its own, and a pass
\* that holds the lock works alone.
THEOREM PassesSound == WeeklySpec => []WeeklyInv
<1>1. WeeklyInit => WeeklyInv
  BY InitHolds
<1>2. WeeklyInv /\ [WeeklyNext]_weeklyVars => WeeklyInv'
  BY NextKeeps
<1> QED
  BY <1>1, <1>2, PTL DEF WeeklySpec

\* Unless a pass lost its lock and went on, no payload is paid for twice: two
\* sets of a user that succeeded one after the other have different payloads
\* (the gate of generate_for_user, under the advisory lock).
THEOREM PaidOnceOnly == WeeklySpec => []PaidOnce
<1>1. WeeklyInv => PaidOnce
  BY DEF WeeklyInv
<1> QED
  BY <1>1, PassesSound, PTL

\* A pass that writes a set, or fails at it, never empties what a user is shown
\* (list_current_recommendations): only their own change of record or
\* dismissals while the model was asked does.
THEOREM ShownStandsStill == WeeklySpec => ShownStands
<1>1. WeeklyInv /\ [WeeklyNext]_weeklyVars =>
        [ sets # sets' => \A u \in accounts' :
          Shown(u) # {} /\ Shown(u)' = {} /\ UNCHANGED <<record[u], dismissed[u]>>
            => \E p \in Passes : /\ work[p].user = u /\ work[p].at \in {"ask", "again"}
                                 /\ NeverToRecommend(u) # work[p].exclude ]_weeklyVars
  BY NextStands DEF StandsFor
<1> QED
  BY <1>1, PassesSound, PTL DEF WeeklySpec, ShownStands

\* A set that the gate lets stand for another week holds nothing its payload
\* excludes, but what became a tier's between that payload's two readings.
THEOREM SkipsKeepWhole == WeeklySpec => SkipKeepsWhole
<1>1. WeeklyInv /\ [WeeklyNext]_weeklyVars =>
        [ \A p \in Passes :
          work[p].at = "gate" /\ work'[p].at = "next" /\ sets' = sets
            => Current(work[p].user).shows \cap work[p].exclude \subseteq work[p].tiers ]_weeklyVars
  BY EndsAtGate, SkipWhole
<1> QED
  BY <1>1, PassesSound, PTL DEF WeeklySpec, SkipKeepsWhole

=============================================================================
