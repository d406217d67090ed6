------------------------------ MODULE Backfills ------------------------------
(***************************************************************************)
(* The three backfills over a mirror that was filled before it had credits *)
(* (tmdb/credits_backfill.py), season regulars                             *)
(* (season_credits_backfill.py) and recommendations                        *)
(* (recommendations_backfill.py): what puts a show on a work list, what    *)
(* one show's response comes to, what a pass reports of the outcomes it    *)
(* had, and what `report` reads from the stored rows afterwards.  The loop *)
(* as a process among the others is Nightly.                               *)
(***************************************************************************)
EXTENDS Integers, Sequences, SequencesExt, FiniteSetsExt

CONSTANT Absent    \* a namespace the response does not carry

----------------------------------------------------------------------------
(* A show: [id, tmdb, synced, credits, regulars, related], the last four    *)
(* whether a stamp is set; tmdb is Absent for a row authored locally.       *)

Mirrored(s) == s.synced
NeedsCredits(s) == s.tmdb # Absent /\ s.synced /\ ~s.credits
NeedsSeasonCredits(s) == s.tmdb # Absent /\ s.synced /\ ~s.regulars
NeedsRecommendations(s) == s.tmdb # Absent /\ s.synced /\ ~s.related

\* An outcome: [kind, and the numbers the pass adds up].  A namespace that was
\* asked for and is missing describes the response, so it stamps nothing; one
\* that is empty describes the show.
Gone == [kind |-> "gone"]
Failed == [kind |-> "failed", seasons |-> 0]
BackfillShowCredits(response) ==
    CASE response.gone -> Gone
      [] ~response.gone /\ response.credits = Absent -> Failed
      [] OTHER -> [kind |-> "stamped", without |-> response.credits = {}]
\* seasons: what each season of the show came back with.
BackfillShowSeasonCredits(response) ==
    LET lacking == {n \in DOMAIN response.seasons : response.seasons[n] = Absent}
    IN CASE response.gone -> Gone
         [] ~response.gone /\ lacking # {} -> [Failed EXCEPT !.seasons = Cardinality(lacking)]
         [] OTHER -> [kind |-> "stamped", written |-> Cardinality(DOMAIN response.seasons)]
\* A target that is not mirrored is dropped; a show all of whose targets are
\* dropped was offered some.
BackfillShowRecommendations(response, mirror) ==
    CASE response.gone -> Gone
      [] ~response.gone /\ response.related = Absent -> Failed
      [] OTHER -> [kind |-> "stamped", rows |-> Cardinality(response.related \cap mirror),
                   dropped |-> Cardinality(response.related \ mirror),
                   without |-> response.related = {}]

----------------------------------------------------------------------------
(* A pass over its candidates in order, one transaction each: the outcomes  *)
(* it had before it ended or aborted, and what it returns.                  *)

Of(outcomes, kind) == {i \in DOMAIN outcomes : outcomes[i].kind = kind}
\* Failures since the last show that was stamped; a show that is gone is neither.
FailuresInARow(outcomes, i) ==
    {j \in Of(outcomes, "failed") : j <= i /\ Of(outcomes, "stamped") \cap j .. i = {}}
AbortsAt(outcomes, threshold) ==
    {i \in Of(outcomes, "failed") : Cardinality(FailuresInARow(outcomes, i)) >= threshold}
\* What the loop considers of what it would find.
Considered(outcomes, limit, threshold) ==
    LET stops == AbortsAt(outcomes, threshold)
        ends == {Len(outcomes)} \cup stops \cup (IF limit = Absent THEN {} ELSE {limit})
    IN SubSeq(outcomes, 1, Min(ends))

Total(outcomes, Count(_)) == FoldSet(LAMBDA i, sum : sum + Count(outcomes[i]), 0, Of(outcomes, "stamped"))
One(b) == IF b THEN 1 ELSE 0
PassResult(outcomes) ==
    [considered |-> Len(outcomes), stamped |-> Cardinality(Of(outcomes, "stamped")),
     failed |-> Cardinality(Of(outcomes, "failed") \cup Of(outcomes, "gone")),
     gone |-> Cardinality(Of(outcomes, "gone"))]
\* Each pass over the outcomes it considered; one that aborts returns nothing.
BackfillCredits(outcomes) ==
    PassResult(outcomes) @@ [without |-> Total(outcomes, LAMBDA o : One(o.without))]
BackfillSeasonCredits(outcomes) ==
    PassResult(outcomes) @@
    [written |-> Total(outcomes, LAMBDA o : o.written),
     lacking |-> FoldSet(LAMBDA i, sum : sum + outcomes[i].seasons, 0, Of(outcomes, "failed"))]
BackfillRecommendations(outcomes) ==
    PassResult(outcomes) @@
    [without |-> Total(outcomes, LAMBDA o : One(o.without)),
     rows |-> Total(outcomes, LAMBDA o : o.rows), dropped |-> Total(outcomes, LAMBDA o : o.dropped)]

\* The exit code: shows that failed are warned of, and only a pass that aborted fails.
ExitCode(outcomes, threshold) == One(AbortsAt(outcomes, threshold) # {})

----------------------------------------------------------------------------
(* The reports, read from the stored rows.  cast, crew: sets of show ids;   *)
(* regulars: of [show, season]; edges: of [source, target].                 *)

Totals(shows, Stamped(_), Needs(_), Bare(_)) ==
    [mirrored |-> Cardinality({s \in shows : Mirrored(s)}),
     stamped |-> Cardinality({s \in shows : Stamped(s)}),
     remaining |-> Cardinality({s \in shows : Needs(s)}),
     bare |-> Cardinality({s \in shows : Stamped(s) /\ Bare(s)})]
CreditsTotals(shows, cast, crew) ==
    Totals(shows, LAMBDA s : s.credits, NeedsCredits, LAMBDA s : s.id \notin cast \cup crew)
SeasonCreditsTotals(shows, cast, regulars) ==
    Totals(shows, LAMBDA s : s.regulars, NeedsSeasonCredits,
           LAMBDA s : s.id \in cast /\ s.id \notin {r.show : r \in regulars})
RecommendationsTotals(shows, edges) ==
    Totals(shows, LAMBDA s : s.related, NeedsRecommendations,
           LAMBDA s : s.id \notin {e.source : e \in edges})
RowTotals(edges) ==
    [rows |-> Cardinality(edges), sources |-> Cardinality({e.source : e \in edges}),
     targets |-> Cardinality({e.target : e \in edges})]
StaleTargets(edges, deleted) == Cardinality({e \in edges : e.target \in deleted})

\* On somebody's list, or with an episode somebody watched.
UserTouched(tracks, watches, home) ==
    tracks \cup {[show |-> home[w.episode], user |-> w.user] : w \in watches}
Reach(touched, s) == Cardinality({t.user : t \in {u \in touched : u.show = s}})
\* Worst first, and capped; the total is not.
Worst(touched, bare, limit) ==
    LET listed == {t.show : t \in touched} \cap bare
        order == SetToSortSeq(listed, LAMBDA a, b :
                     \/ Reach(touched, a) > Reach(touched, b)
                     \/ Reach(touched, a) = Reach(touched, b) /\ a < b)
    IN [total |-> Cardinality(listed), shows |-> SubSeq(order, 1, Min({limit, Len(order)}))]
UserTouchedWithoutCredits(shows, cast, touched, limit) ==
    Worst(touched, {s.id : s \in shows} \ cast, limit)
\* By readers, then popularity with the unscored last, then id.
UserTouchedWithoutRecommendations(shows, edges, touched, score, limit) ==
    LET bare == {s.id : s \in shows} \ {e.source : e \in edges}
        listed == {t.show : t \in touched} \cap bare
        Rank(s) == IF score[s] = Absent THEN -1 ELSE score[s]
        order == SetToSortSeq(listed, LAMBDA a, b :
                     \/ Reach(touched, a) > Reach(touched, b)
                     \/ Reach(touched, a) = Reach(touched, b) /\ Rank(a) > Rank(b)
                     \/ Reach(touched, a) = Reach(touched, b) /\ Rank(a) = Rank(b) /\ a < b)
    IN [total |-> Cardinality(listed), shows |-> SubSeq(order, 1, Min({limit, Len(order)}))]
=============================================================================
