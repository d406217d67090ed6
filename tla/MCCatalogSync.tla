---------------------------- MODULE MCCatalogSync ----------------------------
(***************************************************************************)
(* The catalog runs on a catalog of a few shows.  Shows are                *)
(* interchangeable, and so are the places of the runs in flight.           *)
(* Beside them, over bounded inputs, what the process around a run reports *)
(* (JobShell), how its clients ask again (Requests), and what readers are  *)
(* served of the catalog it keeps (Browse).                                *)
(***************************************************************************)
EXTENDS CatalogSync, SequencesExt

CONSTANT Absent

Symmetric == Permutations(Shows) \cup Permutations(Runs)

J == INSTANCE JobShell WITH Null <- Absent
R == INSTANCE Requests WITH Null <- Absent
B == INSTANCE Browse WITH Null <- Absent

----------------------------------------------------------------------------
(* The job shell (jobs/scheduled.py, jobs/weekly_recommendations.py).          *)

\* The monitor is fed only by a process whose own run succeeded, or by nobody: a
\* process that exits 0 without feeding it found a run in flight, is not the
\* weekly pass, or its ping was lost; every other one exits 1, and is heard of.
Heard(met, end, fed) ==
    /\ end.heard = "up" => end.started /\ end.code = 0
    /\ end.code = 0 /\ end.heard = Absent => met.live \/ ~fed
    /\ end.code = 1 /\ fed => end.heard = "down"
ASSUME DeadmanFed ==
    \A met \in J!Circumstances :
        LET fed == met.url /\ met.reaches IN
        /\ Heard(met, J!ScheduledMain(met), fed)
        /\ met.crash = Absent /\ J!ScheduledMain(met).heard = "up" => met.status = "succeeded"
        /\ met.crash # Absent /\ J!ScheduledMain(met).code = 0 => met.live
        /\ \A keys \in BOOLEAN : Heard(met, J!RunDeliveryTask(met, keys), fed)
        /\ \A one, configured, aborted \in BOOLEAN, failed \in 0 .. 1 :
              LET end == J!RunWeekly(met, one, configured, [failed |-> failed, aborted |-> aborted]) IN
              /\ Heard(met, end, fed /\ ~one) /\ (one => end.heard = Absent)
              /\ end.heard = "up" => failed = 0 /\ ~aborted

----------------------------------------------------------------------------
(* The clients (tmdb/client.py, airdates/client.py, llm/retry.py, llm/client.py). *)

Answers(kinds) == UNION {[1 .. n -> {[kind |-> k, retryAfter |-> Absent] : k \in kinds}] : n \in 0 .. 6}
Without(answers, kind) == SelectSeq(answers, LAMBDA a : a.kind # kind)
Asked(answers) == {[tmdb |-> TRUE, end |-> R!TMDBRequest(answers, 1, 3)],
                   [tmdb |-> FALSE, end |-> R!OracleRequest(answers, 1, 3)]}

\* However often it is throttled, an exchange ends as it would have otherwise; it
\* asks no more than its budget beside that, and raises a failure that passes
\* only after as many of them.
ASSUME ThrottlesAreFree ==
    \A answers \in Answers({"throttled", "broken", "missing", "answered"}) :
        \A asked \in Asked(answers) :
            LET calm == Without(answers, "throttled")
                end == asked.end
                same == IF asked.tmdb THEN R!TMDBRequest(calm, 1, 3) ELSE R!OracleRequest(calm, 1, 3)
            IN /\ end.outcome = same.outcome
               /\ end.requests - same.requests <= Len(answers) - Len(calm) /\ same.requests <= 3
               /\ end.outcome = "broken" => Cardinality({i \in 1 .. end.requests : answers[i].kind = "broken"}) = 3

\* A provider that throttles is asked four times and no more, and never sooner than
\* it said, short of a minute (llm/retry.py, delay_for).
ASSUME CallsBounded ==
    \A answers \in Answers({"throttled", "refused", "unbudgeted", "answered"}) :
        LET end == R!CallWithRetry(answers, R!Policy) IN
        /\ end.requests <= 4 /\ Len(end.waits) <= 3
        /\ end.outcome \in {"refused", "unbudgeted"} => answers[Len(end.waits) + 1].kind = end.outcome
        /\ \A i \in 2 .. Len(end.waits) : end.waits[i - 1].high <= end.waits[i].high
ASSUME HintsHeld ==
    \A attempt \in 1 .. 3, hint \in {Absent, 0, 1, 479, 480, 481, 9999} :
        LET wait == R!DelayFor(attempt, hint, R!Policy) IN
        /\ 0 < wait.low /\ wait.low <= wait.high /\ wait.high <= 480
        /\ hint \notin {Absent, 0} => wait.low >= R!Least(hint, 480)
\* A call costs what its response says, and only a response costs anything; one
\* that is not believed was sent once more at most as often as it may be retried.
ASSUME CallsAccounted ==
    \A answers \in Answers({"broken", "answered"}), envelope, content, object, says \in BOOLEAN :
        LET call == R!CompleteJson([saysJson |-> says], answers,
                        [envelope |-> envelope, choices |-> TRUE, content |-> content, object |-> object,
                         usage |-> 7], R!Policy)
        IN /\ call.kind = "response" <=> call.tokens > 0
           /\ call.kind = "response" => envelope /\ content /\ object
           /\ call.kind = "invalid" => answers[call.requests].kind = "answered"
           /\ (call.kind = "unsupported" <=> ~says) /\ (~says => call.requests = 0)
----------------------------------------------------------------------------
(* The readers (catalog/browse_queries.py).                                    *)

Token(text, letters, symbol) == [text |-> text, letters |-> letters, symbol |-> symbol]
Tokens == {Token("al", 2, FALSE), Token("alien", 5, FALSE), Token("--", 0, FALSE), Token("+", 0, TRUE)}
Searches == UNION {[1 .. n -> Tokens] : n \in 0 .. 2}
Title(holds, starts, length, place) == [holds |-> holds, starts |-> starts, length |-> length, place |-> place]
Alien == Title({"al", "alien"}, {<<"al">>}, 5, 1)
Royal == Title({"al"}, {}, 5, 2)
Other == Title({}, {}, 3, 1)
Titles == {Alien, Royal, Other}

\* As the show list reads a show: two live ones and a tombstoned one.
Show(id, name, deleted, score, premiered) ==
    [id |-> id, name |-> name, deleted |-> deleted, adult |-> FALSE, status |-> 0, language |-> 0,
     type |-> 0, synced |-> score, ingested |-> 1, lastAired |-> premiered, premiered |-> premiered,
     popularity |-> score]
Listing(name1, name2, aka) ==
    [shows |-> {Show(1, name1, FALSE, Absent, 1), Show(2, name2, FALSE, 1, Absent), Show(3, Alien, TRUE, 2, 2)},
     akas |-> {[show |-> 2, title |-> t] : t \in aka}, genres |-> {}, networks |-> {}]
Listings == {Listing(n, o, a) : n, o \in Titles, a \in SUBSET {Alien, Royal}}
Anything == [search |-> <<>>, status |-> Absent, language |-> Absent, type |-> Absent,
             genres |-> {}, networks |-> {}]
Found(db, search) == {s.id : s \in B!Filtered(db, [Anything EXCEPT !.search = search])}
Symbols(search) == \E i \in DOMAIN search : search[i].symbol

\* The badge agrees with the list: a live show is listed for a search of at least
\* one usable token exactly when its name matches, and then it wears no badge, or
\* an aka does, and then it wears one; a token more never lists a show a long
\* search did not; and a search that folds to nothing lists nothing, except that
\* a symbol alone, which the tokenizer keeps and the fold drops, lists everything.
ASSUME BadgesAgree ==
    \A db \in Listings, search \in Searches \ {<<>>} :
        LET tokens == B!SearchTokens(search) IN
        /\ 3 \notin Found(db, search)
        /\ 1 \in Found(db, search) => \E s \in db.shows : s.id = 1 /\ B!TitleMatches(s.name, tokens)
        /\ tokens = <<>> => Found(db, search) = {}
        /\ tokens # <<>> => \A s \in {t \in db.shows : ~t.deleted} :
              LET badge == B!HydrateMatchedAka(db, s, search)
                  named == B!TitleMatches(s.name, tokens)
              IN /\ named => badge = {Absent}
                 /\ s.id \in Found(db, search) <=> (named \/ Absent \notin badge)
        /\ \A t \in Tokens : ~B!IsShortQuery(tokens) => Found(db, Append(search, t)) \subseteq Found(db, search)
        /\ (B!Folded(search) = <<>> /\ Symbols(search)) => Found(db, search) = {1, 2}

\* Every order of the list is total: pages of any size, one after the other, serve
\* each show found once, and their total says how many there are.
Numbers == {Absent, 1, 2}
Ranked == {[shows |-> {Show(1, Alien, FALSE, p, a), Show(2, Royal, FALSE, q, b), Show(3, Other, FALSE, r, 1)},
            akas |-> {}, genres |-> {}, networks |-> {}] : p, q, r, a, b \in Numbers}
ASSUME PagesAddUp ==
    \A db \in Ranked, sort \in B!AllowedSortKeys, perPage \in 1 .. 3 :
        LET served(page) == B!ListShows(db, Anything, sort, page, perPage)
            all == served(1).rows \o served(2).rows \o served(3).rows
        IN /\ {all[i].id : i \in DOMAIN all} = {1, 2, 3} /\ Len(all) = served(1).total
           /\ \A i \in 1 .. Len(all) - 1 : all[i].name.place > all[i + 1].name.place => sort # "name"
           /\ sort \in {"popularity", "-popularity"} =>
                 \A i \in 1 .. Len(all) - 1 : all[i].popularity = Absent => all[i + 1].popularity = Absent
           /\ \A today \in 1 .. 2 :
                 LET ahead == B!ListAnticipatedShows(db, today, 1, 2)
                 IN /\ \A i \in DOMAIN ahead : ahead[i].premiered = today
                    /\ Len(ahead) = B!Least({2, Cardinality({s \in db.shows : s.premiered = today})})

\* One show of two seasons, a season 1 twice over, and another show; a person 1
\* and 2, a character 1, or none. Rows the mirror may hold of their credits.
Seasons == {[id |-> 1, show |-> 1, number |-> 1, tmdb |-> 7], [id |-> 2, show |-> 1, number |-> 1, tmdb |-> Absent],
            [id |-> 3, show |-> 1, number |-> 0, tmdb |-> Absent], [id |-> 4, show |-> 2, number |-> 1, tmdb |-> 8]}
Episodes == {[id |-> 1, show |-> 1, season |-> 1, number |-> 1, airs |-> 5],
             [id |-> 2, show |-> 1, season |-> 1, number |-> -1, airs |-> Absent],
             [id |-> 3, show |-> 2, season |-> 1, number |-> 1, airs |-> 6]}
Aggregate(id, person, character, n) ==
    [id |-> id, show |-> 1, person |-> person, character |-> character, episodes |-> n, billing |-> Absent]
Credited(id, season, person, character) ==
    [id |-> id, season |-> season, person |-> person, character |-> character, billing |-> id]
Guesting(id, episode, person, character) ==
    [id |-> id, episode |-> episode, person |-> person, character |-> character, position |-> Absent]
CastTables ==
    {[shows |-> {}, seasons |-> Seasons, episodes |-> Episodes, seasonCast |-> held, showCast |-> cast,
      guestCast |-> guests] :
        held \in SUBSET {Credited(1, 1, 1, 1), Credited(2, 2, 1, 1), Credited(3, 3, 2, 1), Credited(4, 4, 2, 1), Credited(5, 1, 2, Absent)},
        cast \in SUBSET {Aggregate(1, 1, 1, 3), Aggregate(2, 1, 1, 2), Aggregate(3, 2, 1, Absent), Aggregate(4, 2, Absent, 9)},
        guests \in SUBSET {Guesting(1, 1, 1, 1), Guesting(2, 2, 1, 1), Guesting(3, 1, 2, 1)}}
Roles(rows) == {B!Role(rows[i]) : i \in DOMAIN rows}

\* The regular cast and the guest cast part the show's cast between them; a regular
\* is listed once, whatever duplicates and seasons hold them; and the show's page
\* and the person's tell of the same regulars, with the same counts.
ASSUME CastParts ==
    \A db \in CastTables :
        LET regulars == B!ListShowCast(db, 1)
            guests == B!ListShowGuestCast(db, 1)
        IN /\ Cardinality(Roles(regulars)) = Len(regulars) /\ Roles(regulars) \cap Roles(guests) = {}
           /\ {B!Role(c) : c \in {d \in db.showCast : d.character # Absent}} \subseteq Roles(regulars) \cup Roles(guests)
           /\ \A p \in 1 .. 2 :
                 LET own == B!ListPersonCastCredits(db, p)
                 IN {[character |-> own[i].character, episodes |-> own[i].episodes] : i \in {j \in DOMAIN own : own[j].show = 1}}
                    = {[character |-> regulars[i].character, episodes |-> regulars[i].episodes] :
                          i \in {j \in DOMAIN regulars : regulars[j].person = p}}
           /\ LET season == B!GetShowSeason(db, 1, 1)
                  visiting == B!ListSeasonGuests(db, season)
              IN /\ season.tmdb = 7 /\ Roles(visiting) \cap Roles(B!ListSeasonRegulars(db, season)) = {}
                 /\ Roles(B!ListSeasonRegulars(db, season)) \subseteq Roles(regulars)
                 /\ \A i \in DOMAIN visiting : visiting[i].appearances \in 1 .. 2

\* A job is series crew or episode crew, never both; the person's page lists as
\* series crew what the show's does; and a job of theirs on the show that neither
\* of the person's lists tells of is one upstream counts no episode for.
Job(id, n) == [id |-> id, show |-> 1, person |-> 1, role |-> 1, episodes |-> n]
Crewed(id, episode, role) == [id |-> id, episode |-> episode, person |-> 1, role |-> role]
CrewTables ==
    {[shows |-> {Show(1, Alien, FALSE, 1, 1)}, seasons |-> Seasons, episodes |-> Episodes,
      showCrew |-> {Job(1, n), Job(2, k)}, episodeCrew |-> crew, job |-> <<2, 1>>] :
        n, k \in {Absent, 0, 1, 2},
        crew \in SUBSET {Crewed(1, 1, 1), Crewed(2, 2, 1), Crewed(3, 1, 2), Crewed(4, 3, 1)}}
Ids(rows) == {rows[i].id : i \in DOMAIN rows}
ASSUME CrewParts ==
    \A db \in CrewTables :
        LET series == Ids(B!ListShowCrew(db, 1))
            episodic == Ids(B!ListShowEpisodeCrew(db, 1))
            listed == B!ListPersonEpisodeCrewCredits(db, 1)
        IN /\ series \cap episodic = {} /\ series \cup episodic = Ids(SetToSeq(db.showCrew))
           /\ Ids(B!ListPersonCrewCredits(db, 1)) = series
           /\ \A c \in db.showCrew : c.id \notin series =>
                 B!Count(c.episodes) = 0 \/ \E i \in DOMAIN listed :
                    listed[i].role = c.role /\ B!EpisodeOf(db, listed[i].episode).show = c.show
           /\ Ids(listed) = Ids(SetToSeq(db.episodeCrew))
           /\ LET crew == B!ListSeasonCrew(db, B!GetShowSeason(db, 1, 1))
              IN \A i \in DOMAIN crew : \E j \in DOMAIN listed : listed[j].role = crew[i].role
=============================================================================
