--------------------------- MODULE HistoryMigration ---------------------------
(***************************************************************************)
(* The passes that carried the history of the first catalog onto TMDB's    *)
(* ids, before episodes were repointed (EpisodeRepoint) and orphans        *)
(* retired (OrphanRetire): a show is matched by exact ids or by title and  *)
(* year (tmdb/enrichment.py), a person settles what is left                *)
(* (human_queue.py), copied seasons give way to ingested ones              *)
(* (season_dedupe.py), copied episodes get their ids (episode_map.py), and *)
(* a count per reader and show proves that nothing was lost                *)
(* (reconciliation_service.py).                                            *)
(*                                                                         *)
(* Each statement that writes is an operator from rows to rows, given what *)
(* its program read earlier, so that any two passes, or a pass and a       *)
(* verdict, can be put in any order.  shows, seasons and episodes are      *)
(* functions from surrogate ids.                                           *)
(***************************************************************************)
EXTENDS Integers, Sequences, FiniteSets, SequencesExt, FiniteSetsExt

CONSTANT Null

----------------------------------------------------------------------------
(* Matching shows.  A show: [tmdb, method, tvdb, imdb, title, year]; title   *)
(* is folded as Postgres folds it, Null when blank.                          *)

ExactTiers == <<"tvdb_id", "imdb_id">>
Upstream(show, tier) == IF tier = "tvdb_id" THEN show.tvdb ELSE show.imdb
RowHolds(rows, id) == \E r \in DOMAIN rows : rows[r].tmdb = id

\* A result: [id, title, year], any of them Null.  The one result, of the same
\* title, within a year of the premiere.
PremiereYearDrift == 1
MatchByTitleYear(show, answer) ==
    IF \/ show.year = Null \/ show.title = Null
       \/ answer.total # 1 \/ Len(answer.results) # 1 THEN Null
    ELSE LET result == answer.results[1]
         IN IF /\ result.id # Null /\ result.title = show.title /\ result.year # Null
               /\ result.year - show.year \in -PremiereYearDrift .. PremiereYearDrift
            THEN result.id ELSE Null

\* find[tier]: the series that answer to the show's id of that tier.  An exact id
\* that several series claim ends the search for the show.
Match(show, find, answer) ==
    LET asked == {t \in {1, 2} : Upstream(show, ExactTiers[t]) # Null}
        heard == {t \in asked : find[ExactTiers[t]] # {}}
        byTitle == MatchByTitleYear(show, answer)
    IN IF heard # {}
       THEN LET tier == ExactTiers[Min(heard)]
            IN IF Cardinality(find[tier]) > 1 THEN Null
               ELSE [method |-> tier, tmdb |-> CHOOSE id \in find[tier] : TRUE]
       ELSE IF byTitle = Null THEN Null ELSE [method |-> "title_year", tmdb |-> byTitle]

Unsettled(show) == show.tmdb = Null /\ show.method # "human"
EnrichmentPage(shows, after, take) ==
    LET order == SetToSortSeq({s \in DOMAIN shows : Unsettled(shows[s]) /\ s > after}, <)
    IN SubSeq(order, 1, Min({take, Len(order)}))

\* The guards are the write's own: what the page said may be long ago.
Attach(shows, s, match) ==
    IF Unsettled(shows[s]) /\ ~RowHolds(shows, match.tmdb)
    THEN [shows EXCEPT ![s].tmdb = match.tmdb, ![s].method = match.method]
    ELSE shows
MatchOutcome(shows, s, match) ==
    CASE match = Null -> "unmatched"
      [] match # Null /\ Attach(shows, s, match) = shows -> "collision"
      [] OTHER -> match.method

\* By id, and whoever claims an id first keeps it, whatever its tier.
RECURSIVE EnrichShowIds(_, _, _)
EnrichShowIds(shows, page, matches) ==
    IF page = <<>> THEN shows
    ELSE LET match == matches[Head(page)]
         IN EnrichShowIds(IF match = Null THEN shows ELSE Attach(shows, Head(page), match),
                          Tail(page), matches)

----------------------------------------------------------------------------
(* The queue, and a person's verdicts.                                       *)

\* Every way a reader can have touched a show: its own rows, its episodes' rows
\* and the events about either.
TouchedShows(touches, episodes) ==
    {t.show : t \in {u \in touches : u.show # Null}}
    \cup {episodes[t.episode].show : t \in {u \in touches : u.show = Null /\ u.episode \in DOMAIN episodes}}

BuildQueue(shows, touched) ==
    {s \in touched \cap DOMAIN shows :
        (shows[s].tmdb = Null \/ shows[s].method = "title_year") /\ shows[s].method # "human"}
UnmirroredTouched(shows, touched) == touched \ DOMAIN shows
\* By watches, then id; a lookup that fails degrades its row and no more.
QueueReport(queue, watches, found) ==
    LET order == SetToSortSeq(queue, LAMBDA a, b :
                     watches[a] > watches[b] \/ (watches[a] = watches[b] /\ a < b))
    IN [i \in DOMAIN order |-> [show |-> order[i], candidates |-> found[order[i]]]]

ResolvableMethods == {Null, "title_year", "human"}
Resolve(shows, s, tmdb) == [shows EXCEPT ![s].tmdb = tmdb, ![s].method = "human"]
Refused(shows, s) == s \notin DOMAIN shows \/ shows[s].method \notin ResolvableMethods
Confirm(shows, s, id) ==
    IF \/ Refused(shows, s)
       \/ shows[s].method = "human" /\ shows[s].tmdb \notin {Null, id}
       \/ \E r \in DOMAIN shows \ {s} : shows[r].tmdb = id
    THEN shows ELSE Resolve(shows, s, id)
Reject(shows, s) == IF Refused(shows, s) THEN shows ELSE Resolve(shows, s, Null)

----------------------------------------------------------------------------
(* Seasons.  A season: [show, number, tmdb]; an episode: [show, season,      *)
(* number, tmdb, home], home the season row it hangs off, or Null.           *)

Ingested(seasons, show, number) ==
    {t \in DOMAIN seasons : /\ seasons[t].show = show /\ seasons[t].number = number
                            /\ seasons[t].tmdb # Null}
Copied(seasons) == {s \in DOMAIN seasons : seasons[s].tmdb = Null}
CounterpartsOf(seasons, s) == Ingested(seasons, seasons[s].show, seasons[s].number)
\* Two ingested rows of one number have no answer to which is meant.
Doomed(shows, seasons) ==
    {s \in Copied(seasons) : /\ shows[seasons[s].show].tmdb # Null
                             /\ Cardinality(CounterpartsOf(seasons, s)) = 1}
Survivor(seasons, s) == CHOOSE t \in CounterpartsOf(seasons, s) : TRUE

\* One transaction: the work list, then the episodes, then the seasons.
DedupeBatch(shows, seasons, episodes, size) ==
    LET order == SetToSortSeq(Doomed(shows, seasons), <)
        batch == Range(SubSeq(order, 1, Min({size, Len(order)})))
    IN [seasons |-> [s \in DOMAIN seasons \ batch |-> seasons[s]],
        episodes |-> [e \in DOMAIN episodes |->
                         IF episodes[e].home \in batch
                         THEN [episodes[e] EXCEPT !.home = Survivor(seasons, @)] ELSE episodes[e]],
        deleted |-> Cardinality(batch)]
RECURSIVE DedupeSeasons(_, _, _, _, _)
DedupeSeasons(shows, seasons, episodes, limit, size) ==
    LET take == IF limit = Null THEN size ELSE Min({size, limit})
        did == DedupeBatch(shows, seasons, episodes, take)
    IN IF take <= 0 \/ did.deleted = 0 THEN [seasons |-> seasons, episodes |-> episodes]
       ELSE DedupeSeasons(shows, did.seasons, did.episodes,
                          IF limit = Null THEN Null ELSE limit - did.deleted, size)

DedupeReport(shows, seasons, episodes, carrying) ==
    LET doomed == Doomed(shows, seasons)
        moved == {e \in DOMAIN episodes : episodes[e].home \in doomed}
        matched == {s \in Copied(seasons) : shows[seasons[s].show].tmdb # Null}
    IN [deletable |-> Cardinality(doomed), repoint |-> Cardinality(moved),
        carrying |-> Cardinality(moved \cap carrying),
        unmatched |-> Cardinality(Copied(seasons) \ matched),
        alone |-> Cardinality({s \in matched : CounterpartsOf(seasons, s) = {}}),
        ambiguous |-> Cardinality({s \in matched : Cardinality(CounterpartsOf(seasons, s)) > 1})]
\* The numbers of a show that keep more than one row once the pass has run.
StillDoubled(shows, seasons) ==
    LET kept == DOMAIN seasons \ Doomed(shows, seasons)
        KeyOf(s) == [show |-> seasons[s].show, number |-> seasons[s].number]
    IN {k \in {KeyOf(s) : s \in kept} : Cardinality({s \in kept : KeyOf(s) = k}) > 1}

----------------------------------------------------------------------------
(* Episodes.  facts: the [key, id] an upstream payload carries, key being    *)
(* [season, number]; a season fetched twice is the same facts.               *)

EpisodeKey(e) == [season |-> e.season, number |-> e.number]
UpstreamEpisodeIds(facts) == {f \in facts : \A g \in facts : g.key = f.key <=> g.id = f.id}
Mappable(e) == e.number >= 0
HasMappableEpisode(shows, episodes, s) ==
    /\ shows[s].tmdb # Null
    /\ \E e \in DOMAIN episodes : episodes[e].show = s /\ episodes[e].tmdb = Null /\ Mappable(episodes[e])

EpisodeOutcome(episodes, s, facts, e) ==
    LET rivals == {x \in DOMAIN episodes : episodes[x].show = s
                                           /\ EpisodeKey(episodes[x]) = EpisodeKey(episodes[e])}
        known == {f \in UpstreamEpisodeIds(facts) : f.key = EpisodeKey(episodes[e])}
    IN CASE ~Mappable(episodes[e]) -> "synthetic"
         [] Mappable(episodes[e]) /\ rivals # {e} -> "ambiguous"
         [] Mappable(episodes[e]) /\ rivals = {e} /\ known = {} -> "unmatched"
         [] OTHER -> IF \A f \in known : RowHolds(episodes, f.id) THEN "collision" ELSE "matched"
Unmapped(episodes, s) == {e \in DOMAIN episodes : episodes[e].show = s /\ episodes[e].tmdb = Null}
\* outcomes: what MapShowEpisodes found when it read the rows; the attach asks
\* again whether a row has an id and whether a row holds it.
AttachEpisodes(episodes, pairs) ==
    LET lands == {p \in pairs : episodes[p.row].tmdb = Null /\ ~RowHolds(episodes, p.id)}
    IN [e \in DOMAIN episodes |->
           IF \E p \in lands : p.row = e
           THEN [episodes[e] EXCEPT !.tmdb = (CHOOSE p \in lands : p.row = e).id] ELSE episodes[e]]
MapShowEpisodes(episodes, s, facts) ==
    LET wanted == {e \in Unmapped(episodes, s) :
                      EpisodeOutcome(episodes, s, facts, e) \in {"matched", "collision"}}
    IN AttachEpisodes(episodes,
           {[row |-> e, id |-> (CHOOSE f \in UpstreamEpisodeIds(facts) : f.key = EpisodeKey(episodes[e])).id] :
               e \in wanted})
\* Shows in order, committed a batch at a time.  served: [kind, facts] for each
\* show; one that is gone, or whose request failed, leaves its episodes.  The pass
\* gives up after threshold failures in a row, and keeps what it mapped before.
RECURSIVE MapEpisodeIds(_, _, _, _, _)
MapEpisodeIds(episodes, order, served, row, threshold) ==
    IF order = <<>> \/ row = threshold THEN episodes
    ELSE LET s == Head(order)
             Rest(rows, failures) == MapEpisodeIds(rows, Tail(order), served, failures, threshold)
         IN CASE served[s].kind = "gone" -> Rest(episodes, row)
              [] served[s].kind = "failed" -> Rest(episodes, row + 1)
              [] OTHER -> Rest(MapShowEpisodes(episodes, s, served[s].facts), 0)

\* What the report lists: unmapped rows somebody watched or rated, matched shows
\* none of whose episodes mapped, watches of rows that are not there.
MapReport(shows, episodes, touchedEpisodes) ==
    LET Matched(e) == shows[episodes[e].show].tmdb # Null
        Chances(s) == {e \in DOMAIN episodes : episodes[e].show = s /\ Mappable(episodes[e])}
    IN [unmatched |-> {e \in touchedEpisodes \cap DOMAIN episodes : episodes[e].tmdb = Null},
        systematic |-> {s \in DOMAIN shows : /\ shows[s].tmdb # Null /\ Chances(s) # {}
                                             /\ \A e \in Chances(s) : episodes[e].tmdb = Null},
        unmirrored |-> touchedEpisodes \ DOMAIN episodes,
        mapped |-> {e \in DOMAIN episodes : Matched(e) /\ episodes[e].tmdb # Null}]

----------------------------------------------------------------------------
(* Reconciliation: rows per reader, show and metric.  A row: [user, metric,  *)
(* show, episode, n], one of show and episode Null; n tells rows apart.      *)

\* An episode that is not there counts under no show rather than vanish.
ShowOf(row, home) ==
    IF row.show # Null THEN row.show
    ELSE IF row.episode \in DOMAIN home THEN home[row.episode] ELSE Null
BuildSnapshot(users, rows, home) ==
    LET KeyOf(r) == [user |-> r.user, show |-> ShowOf(r, home), metric |-> r.metric]
    IN [users |-> users \cup {r.user : r \in rows},
        count |-> [k \in {KeyOf(r) : r \in rows} |-> Cardinality({r \in rows : KeyOf(r) = k})]]

CountOf(snapshot, k) == IF k \in DOMAIN snapshot.count THEN snapshot.count[k] ELSE 0
Discrepancies(baseline, current) ==
    LET keys == DOMAIN baseline.count \cup DOMAIN current.count
    IN {[key |-> k, delta |-> CountOf(current, k) - CountOf(baseline, k)] :
           k \in {c \in keys : CountOf(current, c) # CountOf(baseline, c)}}
       \cup {[key |-> [user |-> u, show |-> Null, metric |-> "user_accounts"],
              delta |-> IF u \in current.users THEN 1 ELSE -1] :
                u \in (baseline.users \ current.users) \cup (current.users \ baseline.users)}
\* verify: anything that moved fails it, a gain as well as a loss.
VerifyExit(baseline, current) == IF Discrepancies(baseline, current) = {} THEN 0 ELSE 1
=============================================================================
