-------------------------- MODULE MCEpisodeRepoint --------------------------
(* The instance of EpisodeRepoint for TLC: a season with a copied episode, *)
(* the ingested row of its number, a copied special, and one yet to air.   *)
EXTENDS EpisodeRepoint, TLC, Integers

CONSTANTS copy, twin, special, early, S1, amy

OneSeason == [e \in Episodes |-> S1]
Twins == [e \in Episodes |-> IF e = copy THEN twin ELSE e]
Singles == {Watch(amy, copy), Watch(amy, twin), Watch(amy, special),
            Watch(amy, early), <<"rating", amy, copy>>}
EarlyWatch == {Watch(amy, early)}
Symmetry == Permutations(Requests)

----------------------------------------------------------------------------
(* The passes before this one (HistoryMigration), over every small catalog. *)
CONSTANT Absent
M == INSTANCE HistoryMigration WITH Null <- Absent

\* No two rows ever hold one id, an exact match is never changed, and a verdict is
\* changed by another verdict only, whatever a pass read before it and whenever it
\* writes; a verdict takes its row off the queue (enrichment.py, human_queue.py).
ShowRow == {r \in [tmdb : {Absent, 1, 2}, method : {Absent, "tvdb_id", "title_year", "human"}] :
              r.method \in {"tvdb_id", "title_year"} => r.tmdb # Absent}
Catalogs == {c \in [1 .. 2 -> ShowRow] : c[1].tmdb = Absent \/ c[1].tmdb # c[2].tmdb}
ASSUME VerdictsStand ==
    \A c \in Catalogs : \A s \in 1 .. 2 : \A id \in 1 .. 2 :
        LET attached == M!Attach(c, s, [tmdb |-> id, method |-> "title_year"])
            confirmed == M!Confirm(c, s, id)
            rejected == M!Reject(c, s)
        IN /\ {attached, confirmed, rejected} \subseteq Catalogs
           /\ \A r \in 1 .. 2 : c[r].method = "tvdb_id" =>
                 attached[r] = c[r] /\ confirmed[r] = c[r] /\ rejected[r] = c[r]
           /\ \A r \in 1 .. 2 : c[r].method = "human" \/ c[r].tmdb # Absent => attached[r] = c[r]
           /\ \A after \in {confirmed, rejected} : after # c => s \notin M!BuildQueue(after, {1, 2})
           /\ c[s].method = "human" => confirmed[s].tmdb \in {c[s].tmdb, id} /\ s \notin M!BuildQueue(c, {1, 2})

\* A pass settles every row it can, and running it again changes nothing.
Matches == {Absent} \cup [tmdb : {1, 2}, method : {"tvdb_id", "title_year"}]
ASSUME EnrichmentSettles ==
    \A c \in Catalogs : \A matches \in [1 .. 2 -> Matches] :
        LET done == M!EnrichShowIds(c, M!EnrichmentPage(c, 0, 2), matches)
        IN /\ done \in Catalogs /\ M!EnrichShowIds(done, M!EnrichmentPage(done, 0, 2), matches) = done
           /\ \A s \in 1 .. 2 : M!Unsettled(done[s]) =>
                 M!MatchOutcome(done, s, matches[s]) \in {"unmatched", "collision"}

\* An ambiguous exact id is never answered by a weaker tier.
Lookups == SUBSET {1, 2}
ASSUME AmbiguityEnds ==
    \A tvdb, imdb \in Lookups : \A total \in 0 .. 2 : \A year \in {Absent, 4, 5, 6, 7} :
        LET show == [tmdb |-> Absent, method |-> Absent, tvdb |-> 8, imdb |-> 9, title |-> 1, year |-> 5]
            got == M!Match(show, [tvdb_id |-> tvdb, imdb_id |-> imdb],
                           [total |-> total, results |-> <<[id |-> 3, title |-> 1, year |-> year]>>])
        IN /\ Cardinality(tvdb) > 1 => got = Absent
           /\ got # Absent /\ got.method = "imdb_id" => tvdb = {}
           /\ got # Absent /\ got.method = "title_year" => tvdb = {} /\ imdb = {} /\ year \in 4 .. 6 /\ total = 1

\* No episode loses its season, none moves to another show or number; only copies
\* go, and in any batches the same ones; the report foretells (season_dedupe.py).
SeasonRow == [show : {1, 2}, number : {1}, tmdb : {Absent, 7}]
Homes == [e \in 1 .. 3 |-> [show |-> 1, season |-> 1, number |-> e, tmdb |-> Absent, home |-> IF e = 3 THEN Absent ELSE e]]
ASSUME DedupeKeeps ==
    \A seasons \in [1 .. 4 -> SeasonRow] :
        LET shows == <<[tmdb |-> 5], [tmdb |-> Absent]>>
            done == M!DedupeSeasons(shows, seasons, Homes, Absent, 1)
            gone == DOMAIN seasons \ DOMAIN done.seasons
            told == M!DedupeReport(shows, seasons, Homes, {1})
        IN /\ done = M!DedupeSeasons(shows, seasons, Homes, Absent, 4)
           /\ \A s \in gone : seasons[s].tmdb = Absent /\ seasons[s].show = 1
           /\ \A e \in 1 .. 2 : /\ done.episodes[e].home \in DOMAIN done.seasons
                                /\ done.seasons[done.episodes[e].home].show = seasons[e].show
           /\ done.episodes[3] = Homes[3]
           /\ told.deletable = Cardinality(gone)
           /\ told.repoint = Cardinality({e \in 1 .. 3 : done.episodes[e] # Homes[e]})
           /\ M!StillDoubled(shows, seasons) = M!StillDoubled(shows, done.seasons)
           /\ Cardinality({s \in DOMAIN seasons : seasons[s].tmdb = Absent})
                 = told.deletable + told.unmatched + told.alone + told.ambiguous
           /\ Cardinality(DOMAIN M!DedupeSeasons(shows, seasons, Homes, 1, 4).seasons) >= 3

\* The ids of a payload against the loop over its episodes, in any order.
Keys == {[season |-> 1, number |-> 1], [season |-> 1, number |-> 2]}
Fact == [key : Keys, id : {1, 2}]
RECURSIVE ByKey(_, _, _, _)
ByKey(seen, i, kept, contested) ==
    IF i > Len(seen) THEN {f \in kept : f.key \notin contested /\ ~\E g \in M!Range(seen) : g.id = f.id /\ g.key # f.key}
    ELSE LET same == {f \in kept : f.key = seen[i].key}
         IN ByKey(seen, i + 1, IF same = {} THEN kept \cup {seen[i]} ELSE kept,
                  IF same = {} \/ same = {seen[i]} THEN contested ELSE contested \cup {seen[i].key})
ASSUME EpisodeIdsMatchLoop ==
    \A n \in 0 .. 4 : \A seen \in [1 .. n -> Fact] :
        M!UpstreamEpisodeIds(M!Range(seen)) = ByKey(seen, 1, {}, {})

\* Each unmapped row has one outcome, those that match are those that change, no
\* id is held twice, and a second pass changes nothing (episode_map.py).
EpisodeRow == [show : {1, 2}, season : {1}, number : {-1, 1, 2}, tmdb : {Absent, 1, 2}, home : {Absent}]
Stored == {e \in [1 .. 2 -> EpisodeRow] : e[1].tmdb = Absent \/ e[1].tmdb # e[2].tmdb}
ASSUME MapAttachesOnce ==
    \A rows \in Stored : \A facts \in SUBSET Fact :
        LET after == M!MapShowEpisodes(rows, 1, facts)
            matched == {e \in M!Unmapped(rows, 1) : M!EpisodeOutcome(rows, 1, facts, e) = "matched"}
        IN /\ after \in Stored /\ M!MapShowEpisodes(after, 1, facts) = after
           /\ {e \in 1 .. 2 : after[e] # rows[e]} = matched
           /\ \A one, two \in {"mapped", "gone", "failed"} : \A threshold \in 1 .. 2 :
                 LET served == <<[kind |-> one, facts |-> facts], [kind |-> two, facts |-> {}]>>
                 IN /\ M!MapEpisodeIds(rows, <<1, 2>>, served, 0, threshold) = IF one = "mapped" THEN after ELSE rows
                    /\ M!MapEpisodeIds(rows, <<2, 1>>, served, 0, threshold) =
                          IF one # "mapped" \/ (two = "failed" /\ threshold = 1) THEN rows ELSE after

\* Verify passes only if every reader kept every row under its show, and an
\* episode that went shows up instead of leaving the count.
Held(u, m, sh, e, n) == [user |-> u, metric |-> m, show |-> sh, episode |-> e, n |-> n]
HistoryRow == {Held("amy", "tracked_shows", 1, Absent, 1), Held("bea", "episode_watches", Absent, 1, 1),
               Held("bea", "episode_watches", Absent, 2, 2), Held("bea", "episode_watches", Absent, 3, 3)}
ASSUME VerifyFindsLoss ==
    \A before, after \in SUBSET HistoryRow : \A users \in SUBSET {"amy", "bea"} :
        LET home == <<1, 1, 2>>
            was == M!BuildSnapshot({"amy", "bea"}, before, home)
            now == M!BuildSnapshot(users, after, home)
            Group(rows) == <<rows \cap {Held("amy", "tracked_shows", 1, Absent, 1)},
                             Cardinality({r \in rows : r.episode \in {1, 2}}), Cardinality({r \in rows : r.episode = 3})>>
        IN /\ (M!VerifyExit(was, now) = 0) = (Group(before) = Group(after) /\ now.users = {"amy", "bea"})
           /\ before # {} /\ (\E r \in before : r.episode = 3) =>
                 M!VerifyExit(was, M!BuildSnapshot({"amy", "bea"}, before, <<1, 1>>)) = 1
=============================================================================
