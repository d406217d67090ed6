------------------------------ MODULE MCNightly ------------------------------
(* Three series and a show that was authored by hand: a backfill by id, one by *)
(* popularity, and nights without a backfill across a midnight.                *)
EXTENDS Nightly

B == INSTANCE Backfills WITH Absent <- Null

MCSeries == {"a", "b", "c"}
Row(id, synced, stamped, score, dates) ==
    [tmdb |-> id, deleted |-> FALSE, popularity |-> score, dates |-> dates,
     lastAired |-> Null, synced |-> synced, stamped |-> stamped]
Authored == Row(Null, FALSE, FALSE, Null, {})
Holds(listed, a, b, c, airs) ==
    [listed |-> listed, score |-> [a |-> a, b |-> b, c |-> c],
     airs |-> [s \in MCSeries |-> airs]]
Unfilled == <<Row("a", TRUE, FALSE, 1, {}), Row("b", TRUE, FALSE, 1, {}), Row("c", TRUE, FALSE, Null, {}), Authored>>
\* Two unscored shows, one of them past the first page.
Ranked == <<Row("a", TRUE, FALSE, 1, {}), Row("b", TRUE, FALSE, Null, {}), Row("c", TRUE, FALSE, Null, {}), Authored>>
\* Two of three series go; or their scores rise, and one goes.
ById == {Holds(MCSeries, 1, 1, Null, {}), Holds({"c"}, 1, 1, Null, {})}
ByPopularity == {Holds(MCSeries, 1, Null, Null, {}), Holds({"a", "b"}, 1, 2, 2, {})}
\* A mirror two thirds of which are tombstoned.
Tombstoned(row) == [row EXCEPT !.deleted = TRUE]
Dated == <<Tombstoned(Row("a", TRUE, TRUE, 1, {0})), Tombstoned(Row("b", FALSE, FALSE, Null, {})),
           Row("c", TRUE, TRUE, 1, {1}), Authored>>
Airing == {Holds(MCSeries, 1, 1, 1, {0, 1}), Holds({"a"}, 1, 1, 1, {1}), Holds({"c"}, 1, 1, 1, {})}
Scenario(order, rows0, holdings, midnights, faults) ==
    [order |-> order, rows |-> rows0, holdings |-> holdings, midnights |-> midnights,
     edits |-> 1, faults |-> faults]
MCScenarios ==
    {Scenario("id", Unfilled, ById, 0, 1), Scenario("popularity", Ranked, ByPopularity, 0, 0),
     Scenario(Null, Dated, Airing, 1, 1)}
MCShows == 1 .. 4

----------------------------------------------------------------------------
(* What the passes promise over bounded inputs. *)

\* Never more rows than entries, one row per rank and per show, and a page that
\* resolves to nothing leaves what was there (tmdb/trending.py).
Pages == UNION {[1 .. n -> {"a", "b", "c", Unreadable}] : n \in 0 .. 4}
ASSUME TrendingStands ==
    \A page \in Pages :
        LET run == RunTrendingSnapshot({[rank |-> 1, show |-> 4, at |-> 0]}, <<Unfilled[1], Unfilled[2]>>, page, 8)
        IN /\ run.stored # {} /\ \A q, r \in run.stored : q = r \/ (q.rank # r.rank /\ q.show # r.show)
           /\ run.status = "failed" => run.stored = {[rank |-> 1, show |-> 4, at |-> 0]}
           /\ \A r \in run.stored : run.status = "succeeded" =>
                 /\ Unfilled[r.show].tmdb = page[r.rank]
                 /\ \A i \in 1 .. r.rank - 1 : page[i] # page[r.rank]

\* A payload that is stored and served again tells of nothing, on any day; and one
\* step back and forth tells of both (tmdb/change_events.py).
Shown(status, dates) == [status |-> status, premieres |-> dates]
Snapshots == {Shown(st, d) : st \in {"Ended", "Returning", Null}, d \in [{0, 1} -> {Null, 1, 2, 3}]}
ASSUME EventsSettle ==
    \A old, new \in Snapshots : \A today \in 1 .. 3 :
        /\ DetectTransitions(new, new, today) = {}
        /\ \A t \in DetectTransitions(old, new, today) :
              /\ t.season # 0 /\ Cardinality({u \in DetectTransitions(old, new, today) : u.season = t.season}) = 1
              /\ t.kind \in {"premiere_set", "premiere_moved"} =>
                    new.premieres[t.season] > today
                    \/ (old.premieres[t.season] # Null /\ old.premieres[t.season] > today)

\* What is compared is the row that is written: with a number twice, the payload's
\* date on the lowest id is no event at the next delta.
ASSUME LowestRowSpeaks ==
    \A d1, d2 \in {Null, 1, 2} :
        LET seasons == {[id |-> 1, number |-> 1, tmdbAirDate |-> d1, airDate |-> Null],
                        [id |-> 2, number |-> 1, tmdbAirDate |-> Null, airDate |-> d2]}
            snap == SnapshotTrackedShow([status |-> Null], seasons, TRUE)
        IN /\ snap.premieres = <<d1>>
           /\ RecordTransitions(7, seasons, DetectTransitions(snap, Shown(Null, <<3>>), 0)) =
                 IF d1 = 3 THEN {} ELSE {[kind |-> IF d1 = Null THEN "premiere_set" ELSE "premiere_moved",
                                          show |-> 7, season |-> 1]}

\* The newest of three days is read, and a hole in an older one never is.
ASSUME NewestExport ==
    \A published \in [0 .. 2 -> {<<"none">>, <<"error">>, <<"lines">>}] :
        DownloadExport(published, 2) =
            IF published[2] # <<"none">> THEN published[2]
            ELSE IF published[1] # <<"none">> THEN published[1]
            ELSE IF published[0] # <<"none">> THEN published[0] ELSE <<"error">>

----------------------------------------------------------------------------
(* Backfills against a pass taken one show at a time. *)
Stamp(w) == [kind |-> "stamped", without |-> w, rows |-> 1, dropped |-> 2, written |-> 1]
Outcomes == {B!Gone, B!Failed, Stamp(TRUE), Stamp(FALSE)}
RECURSIVE Loop(_, _, _, _)
Loop(outcomes, i, row, threshold) ==
    IF i > Len(outcomes) THEN [at |-> i - 1, aborted |-> FALSE]
    ELSE CASE outcomes[i].kind = "gone" -> Loop(outcomes, i + 1, row, threshold)
           [] outcomes[i].kind = "stamped" -> Loop(outcomes, i + 1, 0, threshold)
           [] OTHER -> IF row + 1 >= threshold THEN [at |-> i, aborted |-> TRUE]
                       ELSE Loop(outcomes, i + 1, row + 1, threshold)
ASSUME PassMatchesLoop ==
    \A n \in 0 .. 5 : \A outcomes \in [1 .. n -> Outcomes] : \A threshold \in 1 .. 3 :
        LET whole == Loop(outcomes, 1, 0, threshold)
            taken == B!Considered(outcomes, Null, threshold)
        IN /\ Len(taken) = whole.at
           /\ (B!ExitCode(outcomes, threshold) = 1) = whole.aborted
           /\ LET r == B!BackfillCredits(taken) IN r.considered = r.stamped + r.failed
           /\ B!BackfillSeasonCredits(taken).written = B!BackfillRecommendations(taken).rows

\* Every mirrored show is stamped or remains, and the list is a prefix of what it caps.
ShowRows == [id : {1, 2}, tmdb : {1}, synced : BOOLEAN, credits : BOOLEAN, regulars : {TRUE}, related : {FALSE}]
ASSUME ReportsAddUp ==
    \A shows \in {p \in SUBSET ShowRows : \A a, b \in p : a.id = b.id => a = b} :
        /\ LET t == B!CreditsTotals({s \in shows : s.synced}, {1}, {})
           IN t.mirrored = t.stamped + t.remaining
        /\ \A touched \in SUBSET [show : {1, 2}, user : {"u", "v"}] : \A limit \in 1 .. 2 :
             LET w == B!UserTouchedWithoutCredits(shows, {}, touched, limit)
                 v == B!UserTouchedWithoutRecommendations(shows, {}, touched, <<Null, Null>>, limit)
             IN w = v /\ (w.total <= limit => Len(w.shows) = w.total)
=============================================================================
