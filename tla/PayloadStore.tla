----------------------------- MODULE PayloadStore -----------------------------
(***************************************************************************)
(* What one TMDB payload does to the rows of one show: the writers of      *)
(* tmdb/upsert.py as operators from a store and a payload to a store.      *)
(*                                                                         *)
(* A payload is what fetch_series_with_seasons returns: the series, the    *)
(* season blocks that rode the first request and those that overflowed     *)
(* it.  A namespace that was not asked for, or did not come, is Absent;    *)
(* an empty one is upstream stating a zero.  A store is the show's rows in *)
(* catalog.  Rows whose upstream key is NULL were not written by a payload *)
(* (legacy rows copied from TV Maze, rows authored by hand).               *)
(*                                                                         *)
(* Dates and their correction are Offsets and Airdates; scalars of a row   *)
(* that no rule looks at are one value, body.                              *)
(***************************************************************************)
EXTENDS Integers, Sequences, SequencesExt

CONSTANTS
    Persons, Characters, Roles,   \* a role is a (department, job) pair
    CreditIds, Keys, Countries,
    SeasonIds, EpisodeIds,        \* TMDB's ids
    LegacySeasons, LegacyEpisodes,\* rows with no TMDB id
    Self, Targets,                \* shows a recommendation can name
    Null, Absent,
    Slots,                        \* APPEND_TO_RESPONSE_LIMIT
    MaxRecommendations            \* _MAX_RECOMMENDATIONS

ASSUME PayloadStoreAssumption ==
    /\ SeasonIds \cap LegacySeasons = {} /\ EpisodeIds \cap LegacyEpisodes = {}
    /\ Null \notin Keys \cup CreditIds \cup SeasonIds \cup LegacySeasons

Namespaces == {"alternative_titles", "content_ratings", "episode_groups", "images",
               "keywords", "translations", "videos", "watch_providers"}
\* The tables whose rows an upstream key tells from local ones.
UpstreamKeyed == {"videos", "episode_groups"}

OrAbsent(S) == {Absent} \cup S
OrNull(S) == S \cup {Null}

\* The entries of a payload.  Below show grain a credit may name nobody (person
\* Null), and either half of (department, job) may be blank (role Null).
CreatedBy == [credit : OrNull(CreditIds), person : Persons]
CastEntry == [person : Persons, characters : Seq(OrNull(Characters))]
CrewEntry == [person : Persons, roles : Seq(OrNull(Roles))]
GuestStar == [person : OrNull(Persons), character : OrNull(Characters)]
CrewMember == [person : OrNull(Persons), role : OrNull(Roles)]
SeasonRegular == GuestStar
EpisodeEntry == [id : EpisodeIds, number : Nat, runtime : OrNull(Nat),
                 guests : OrAbsent(Seq(GuestStar)), crew : OrAbsent(Seq(CrewMember))]
SeasonSummary == [id : SeasonIds, number : Nat]
SeasonDetail == [number : Nat, episodes : Seq(EpisodeEntry),
                 regulars : OrAbsent(Seq(SeasonRegular)), networks : SUBSET Keys]
Entry == [key : Keys, value : Keys]

\* The body of /tv/{id} with its namespaces; what TMDB holds also has blocks,
\* the seasons' details by number.
SeriesFields(s) ==
    /\ DOMAIN s = {"body", "joins", "seasons", "creators", "countries", "spaces", "cast", "crew",
                   "recommendations", "screened", "last", "next", "blocks", "credited"}
    /\ s.seasons \in Seq(SeasonSummary)
    /\ s.creators \in Seq(CreatedBy) /\ s.joins \in SUBSET Keys
    /\ \A n \in DOMAIN s.blocks : s.blocks[n] \in SeasonDetail
    /\ DOMAIN s.countries \subseteq Countries
    /\ \A c \in DOMAIN s.countries : s.countries[c] \in OrNull(Keys)
    /\ s.spaces \in [Namespaces -> OrAbsent(Seq(Entry))]
    /\ s.cast \in OrAbsent(Seq(CastEntry)) /\ s.crew \in OrAbsent(Seq(CrewEntry))
    /\ (s.cast = Absent) = (s.crew = Absent)
    /\ s.recommendations \in OrAbsent(Seq(Targets \cup {Self}))
    /\ s.screened \in OrAbsent(SUBSET EpisodeIds)
    /\ s.last \in OrAbsent(OrNull(EpisodeIds)) /\ s.next \in OrAbsent(OrNull(EpisodeIds))

----------------------------------------------------------------------------
(* Fetching: a season costs two slots of append_to_response, the namespaces *)
(* one each; a season that did not ride along is requested on its own.      *)

SpeculativeSeasons(namespaces) == 0 .. ((Slots - namespaces) \div 2) - 1

\* season/N/credits is folded into the block of season/N.
Collected(u, numbers) ==
    [n \in numbers \cap DOMAIN u.blocks |->
        [u.blocks[n] EXCEPT !.regulars = IF n \in u.credited THEN @ ELSE Absent]]

\* What a fetch that appends no namespace but those in asked parses to.
Narrowed(u, asked) ==
    [u EXCEPT !.cast = IF "aggregate_credits" \in asked THEN @ ELSE Absent,
              !.crew = IF "aggregate_credits" \in asked THEN @ ELSE Absent,
              !.recommendations = IF "recommendations" \in asked THEN @ ELSE Absent,
              !.screened = IF "screened_theatrically" \in asked THEN @ ELSE Absent,
              !.spaces = [n \in Namespaces |-> IF n \in asked THEN @[n] ELSE Absent]]
DefaultAppend == Namespaces \cup {"aggregate_credits", "external_ids",
                                  "recommendations", "screened_theatrically"}

\* An explicitly fetched season wins over an appended one.
MergedDetails(appended, overflow) ==
    [n \in DOMAIN appended \cup DOMAIN overflow |->
        IF n \in DOMAIN overflow THEN overflow[n] ELSE appended[n]]

LastBy(s, field) == {s[i] : i \in {j \in DOMAIN s : \A k \in j + 1 .. Len(s) : s[k][field] # s[j][field]}}

\* An episode that came twice is its last occurrence.
DedupeEpisodes(details) ==
    LET spots == UNION {{<<n, i>> : i \in DOMAIN details[n].episodes} : n \in DOMAIN details}
        At(s) == details[s[1]].episodes[s[2]]
        After(t, s) == t[1] > s[1] \/ (t[1] = s[1] /\ t[2] > s[2])
        Final(id) == CHOOSE s \in spots : /\ At(s).id = id
                                          /\ \A t \in spots : At(t).id = id => ~After(t, s)
    IN [id \in {At(s).id : s \in spots} |-> At(Final(id))]

FetchSeriesWithSeasons(u, namespaces) ==
    LET appended == Collected(u, SpeculativeSeasons(Cardinality(namespaces)))
        missing == {u.seasons[i].number : i \in DOMAIN u.seasons} \ DOMAIN appended
        details == MergedDetails(appended, Collected(u, missing))
    IN [series |-> Narrowed(u, namespaces), details |-> details, episodes |-> DedupeEpisodes(details)]
\* The recommendations pass asks for one namespace and no season.
FetchRecommendations(u) ==
    [series |-> Narrowed(u, {"recommendations"}), details |-> <<>>, episodes |-> <<>>]
\* An overflow season that cannot be fetched fails the show.
Fetchable(u) == {u.seasons[i].number : i \in DOMAIN u.seasons} \subseteq DOMAIN u.blocks

----------------------------------------------------------------------------
(* The rows of a show.                                                      *)

SeasonKeys == SeasonIds \cup LegacySeasons
CreatorRow == [credit : OrNull(CreditIds), person : Persons]
\* show_genre, show_network and the other joins into a lookup.
Joins == SUBSET Keys
ShowCastRow == [person : Persons, character : OrNull(Characters)]
ShowCrewRow == [person : Persons, role : Roles]
SeasonCastRow == ShowCastRow
GuestCastRow == ShowCastRow
EpisodeCrewRow == ShowCrewRow
StoredEntry == [key : OrNull(Keys), value : Keys]
SeasonRow == [id : Nat, number : Nat, networks : SUBSET Keys, regulars : SUBSET SeasonCastRow]
EpisodeRow == [season : OrNull(SeasonKeys), number : Nat, runtime : OrNull(Nat),
               screened : BOOLEAN, guests : SUBSET GuestCastRow, crew : SUBSET EpisodeCrewRow]
Edge == [rank : 1 .. MaxRecommendations, target : Targets]
LocalSeason(key) == key \in LegacySeasons

StoreFields == {"body", "joins", "countries", "creators", "spaces", "cast", "crew", "people",
                "characters", "roles", "seasons", "episodes", "last", "next", "runtime",
                "recommendations"}
\* Creators are by surrogate id, seasons and episodes by upstream id; a season's
\* surrogate id is its place in the order of creation.
StoreOK(s) ==
    /\ DOMAIN s = StoreFields
    /\ DOMAIN s.creators \subseteq Nat /\ IsFiniteSet(DOMAIN s.creators)
    /\ \A i \in DOMAIN s.creators : s.creators[i] \in CreatorRow
    /\ s.joins \in Joins
    /\ \A c \in DOMAIN s.countries : c \in Countries /\ s.countries[c] \in OrNull(Keys)
    /\ s.spaces \in [Namespaces -> SUBSET StoredEntry]
    /\ s.cast \in Seq(ShowCastRow) /\ s.crew \in Seq(ShowCrewRow)
    /\ s.people \subseteq Persons /\ s.characters \subseteq Characters /\ s.roles \subseteq Roles
    /\ DOMAIN s.seasons \subseteq SeasonKeys /\ IsFiniteSet(DOMAIN s.seasons)
    /\ \A k \in DOMAIN s.seasons : s.seasons[k] \in SeasonRow
    /\ DOMAIN s.episodes \subseteq EpisodeIds \cup LegacyEpisodes
    /\ \A e \in DOMAIN s.episodes : /\ s.episodes[e] \in EpisodeRow
                                    /\ s.episodes[e].season \in OrNull(DOMAIN s.seasons)
    /\ {s.last, s.next} \subseteq OrNull(DOMAIN s.episodes)
    /\ s.recommendations \subseteq Edge

\* Every person, character and role a credit names was interned first: what the
\* foreign keys require and a KeyError in a writer would be.
CreditNamed(s, c) == c.person \in s.people /\ c.character \in OrNull(s.characters)
CrewNamed(s, c) == c.person \in s.people /\ c.role \in s.roles
Interned(s) ==
    /\ \A c \in ToSet(s.cast) : CreditNamed(s, c)
    /\ \A c \in ToSet(s.crew) : CrewNamed(s, c)
    /\ \A k \in DOMAIN s.seasons : \A c \in s.seasons[k].regulars : CreditNamed(s, c)
    /\ \A e \in DOMAIN s.episodes : /\ \A c \in s.episodes[e].guests : CreditNamed(s, c)
                                    /\ \A c \in s.episodes[e].crew : CrewNamed(s, c)

----------------------------------------------------------------------------
(* The writers of show-scoped rows.                                         *)

\* _replace_show_rows: rows an upstream key tells as local are kept.
ReplaceRows(old, rows, keyed) == {r \in old : keyed /\ r.key = Null} \cup rows

\* First entry wins per credit_id; entries without one are all kept.
DedupeByCreditId(creators) ==
    {i \in DOMAIN creators : \/ creators[i].credit = Null
                             \/ \A k \in 1 .. i - 1 : creators[k].credit # creators[i].credit}

ShowWritten(s, p) == [s EXCEPT !.body = p.series.body]

JoinsWritten(s, p) == [s EXCEPT !.joins = p.series.joins]

\* A bare code does not blank the name an earlier payload gave.
CountriesWritten(s, p) ==
    [s EXCEPT !.countries = [c \in DOMAIN s.countries \cup DOMAIN p.series.countries |->
        IF c \in DOMAIN p.series.countries /\ p.series.countries[c] # Null
        THEN p.series.countries[c]
        ELSE IF c \in DOMAIN s.countries THEN s.countries[c] ELSE Null]]

CreatorsReplaced(old, given) ==
    LET local == {i \in DOMAIN old : old[i].credit = Null}
        top == Max({0} \cup local)
    IN [i \in local \cup {top + j : j \in DedupeByCreditId(given)} |->
           IF i \in local THEN old[i] ELSE given[i - top]]
CreatorsWritten(s, p) == [s EXCEPT !.creators = CreatorsReplaced(@, p.series.creators)]

SpacesWritten(s, p) ==
    [s EXCEPT !.spaces = [n \in Namespaces |->
        LET given == p.series.spaces[n]
        IN IF given = Absent THEN @[n]
           ELSE ReplaceRows(@[n], LastBy(given, "key"), n \in UpstreamKeyed)]]

CastRows(cast) == FlattenSeq([i \in DOMAIN cast |->
    [r \in DOMAIN cast[i].characters |-> [person |-> cast[i].person, character |-> cast[i].characters[r]]]])
\* A pair missing either half cannot be interned and is skipped.
CrewRows(crew) ==
    LET Usable(row) == row.role # Null
    IN SelectSeq(FlattenSeq([i \in DOMAIN crew |->
           [r \in DOMAIN crew[i].roles |-> [person |-> crew[i].person, role |-> crew[i].roles[r]]]]), Usable)

\* Interning adds; nothing prunes the vocabularies.
WithCredits(s, credits, crew) ==
    [s EXCEPT !.people = @ \cup {c.person : c \in credits \cup crew},
              !.characters = @ \cup ({c.character : c \in credits} \ {Null}),
              !.roles = @ \cup {c.role : c \in crew}]

\* A person is interned even if every job they are credited with is skipped.
CreditsWritten(s, p) ==
    IF p.series.cast = Absent THEN s
    ELSE LET cast == CastRows(p.series.cast)
             crew == CrewRows(p.series.crew)
             named == {p.series.cast[i].person : i \in DOMAIN p.series.cast}
                      \cup {p.series.crew[i].person : i \in DOMAIN p.series.crew}
         IN [WithCredits(s, ToSet(cast), ToSet(crew)) EXCEPT
                 !.people = @ \cup named, !.cast = cast, !.crew = crew]

\* rank is TMDB's position: a target that is dropped leaves a gap.
RecommendationRows(given, live) ==
    LET n == IF Len(given) < MaxRecommendations THEN Len(given) ELSE MaxRecommendations
        Fits(i) == /\ given[i] \in live \ {Self}
                   /\ \A k \in 1 .. i - 1 : given[k] # given[i]
    IN {[rank |-> i, target |-> given[i]] : i \in {j \in 1 .. n : Fits(j)}}
RecommendationsWritten(s, p, live) ==
    IF p.series.recommendations = Absent THEN s
    ELSE [s EXCEPT !.recommendations = RecommendationRows(p.series.recommendations, live)]

----------------------------------------------------------------------------
(* Seasons and what hangs on them.                                          *)

SeasonsNamed(p) == {p.series.seasons[i].id : i \in DOMAIN p.series.seasons}

\* What the last entry of an id says.
NumberGiven(p, k) == (CHOOSE x \in LastBy(p.series.seasons, "id") : x.id = k).number

\* Rows are made in the order in which the ids first came.
SeasonsUpserted(s, p) ==
    LET given == p.series.seasons
        fresh == SeasonsNamed(p) \ DOMAIN s.seasons
        top == Max({0} \cup {s.seasons[k].id : k \in DOMAIN s.seasons})
        Position(k) == CHOOSE i \in DOMAIN given :
                           given[i].id = k /\ \A j \in 1 .. i - 1 : given[j].id # k
        New(k) == [id |-> top + Position(k), number |-> NumberGiven(p, k), networks |-> {}, regulars |-> {}]
    IN [s EXCEPT !.seasons = [k \in DOMAIN @ \cup fresh |->
           IF k \in fresh THEN New(k)
           ELSE IF k \in SeasonsNamed(p) THEN [s.seasons[k] EXCEPT !.number = NumberGiven(p, k)]
           ELSE @[k]]]

\* Deleting a season sets the season of its episodes to nothing.
SeasonsDeleted(s, kept) ==
    [s EXCEPT !.seasons = [k \in kept |-> @[k]],
              !.episodes = [e \in DOMAIN @ |->
                 IF @[e].season \in kept THEN @[e] ELSE [s.episodes[e] EXCEPT !.season = Null]]]

\* Mutant: the delete has no guard for rows without an upstream id.
PrunedUnguarded(s, p) == SeasonsDeleted(s, DOMAIN s.seasons \cap SeasonsNamed(p))

\* Seasons the payload does not name go; local ones do not.  An episode of a
\* season that goes stays, without a season.
MissingSeasonsPruned(s, p) ==
    SeasonsDeleted(s, {k \in DOMAIN s.seasons : LocalSeason(k) \/ k \in SeasonsNamed(p)})

\* The last season of that number, by surrogate id, or none.
SeasonByNumber(s, number) ==
    LET at == {k \in DOMAIN s.seasons : s.seasons[k].number = number}
    IN IF at = {} THEN Null ELSE CHOOSE k \in at : \A j \in at : s.seasons[j].id <= s.seasons[k].id

\* Whom a payload speaks for: an absent list is silence, an empty one clears, and
\* one with nothing usable in it is held back.
\* Mutant: a list none of which can be read clears what is stored.
RefreshCarried(lists, usable) == {k \in DOMAIN lists : lists[k] # Absent}
RefreshScope(lists, usable) ==
    {k \in DOMAIN lists : lists[k] # Absent /\ (lists[k] = <<>> \/ k \in usable)}

HasPerson(c) == c.person # Null
UsableCrew(c) == HasPerson(c) /\ c.role # Null
\* The usable entries, one row for each key.
GuestRows(list) ==
    IF list = Absent THEN {} ELSE {list[i] : i \in {j \in DOMAIN list : HasPerson(list[j])}}
EpisodeCrewRows(list) ==
    IF list = Absent THEN {} ELSE {list[i] : i \in {j \in DOMAIN list : UsableCrew(list[j])}}

\* The season a detail belongs to: by number, through the ids of seasons[].
DetailSeason(p, number) ==
    LET at == {i \in DOMAIN p.series.seasons : p.series.seasons[i].number = number}
    IN IF at = {} THEN Null ELSE p.series.seasons[CHOOSE i \in at : \A j \in at : j <= i].id

\* The seasons a payload gives networks for.
SeasonsDetailed(p) == {DetailSeason(p, n) : n \in DOMAIN p.details} \cap SeasonsNamed(p)
NetworksGiven(p, k) ==
    LET details == p.details
    IN UNION {details[n].networks : n \in {m \in DOMAIN details : DetailSeason(p, m) = k}}
SeasonNetworksWritten(s, p) ==
    [s EXCEPT !.seasons = [k \in DOMAIN @ |->
        IF k \in SeasonsDetailed(p) THEN [s.seasons[k] EXCEPT !.networks = NetworksGiven(p, k)] ELSE @[k]]]

\* The regulars a payload gives a season: of its first detail that has any list.
RegularsGiven(p) ==
    LET details == p.details
        carrying == {n \in DOMAIN details : /\ details[n].regulars # Absent
                                            /\ DetailSeason(p, n) \in SeasonsNamed(p)}
        First(k) == CHOOSE n \in carrying : /\ DetailSeason(p, n) = k
                                            /\ \A m \in carrying : DetailSeason(p, m) = k => n <= m
    IN [k \in {DetailSeason(p, n) : n \in carrying} |-> details[First(k)].regulars]
SeasonCreditsWritten(s, p) ==
    LET given == RegularsGiven(p)
        list == [k \in DOMAIN given \cap DOMAIN s.seasons |-> given[k]]
        rows == [k \in DOMAIN list |-> GuestRows(list[k])]
        scope == RefreshScope(list, {k \in DOMAIN rows : rows[k] # {}})
    IN [WithCredits(s, UNION {rows[k] : k \in scope}, {}) EXCEPT
           !.seasons = [k \in DOMAIN @ |-> IF k \in scope THEN [s.seasons[k] EXCEPT !.regulars = rows[k]] ELSE @[k]]]

----------------------------------------------------------------------------
(* Episodes.                                                                *)

EpisodesUpserted(s, p) ==
    LET given == p.episodes
        Row(e) ==
            [season |-> SeasonByNumber(s, given[e].number), number |-> given[e].number,
             runtime |-> given[e].runtime,
             screened |-> IF p.series.screened # Absent THEN e \in p.series.screened
                          ELSE e \in DOMAIN s.episodes /\ s.episodes[e].screened,
             guests |-> IF e \in DOMAIN s.episodes THEN s.episodes[e].guests ELSE {},
             crew |-> IF e \in DOMAIN s.episodes THEN s.episodes[e].crew ELSE {}]
    IN [s EXCEPT !.episodes = [e \in DOMAIN @ \cup DOMAIN given |->
           IF e \in DOMAIN given THEN Row(e) ELSE @[e]]]

\* Credits go to the episodes that are stored; guest cast and crew are scoped
\* independently.
EpisodeCreditsWritten(s, p) ==
    LET given == p.episodes
        scoped == DOMAIN given \cap DOMAIN s.episodes
        guests == [e \in scoped |-> GuestRows(given[e].guests)]
        crew == [e \in scoped |-> EpisodeCrewRows(given[e].crew)]
        guestScope == RefreshScope([e \in scoped |-> given[e].guests], {e \in scoped : guests[e] # {}})
        crewScope == RefreshScope([e \in scoped |-> given[e].crew], {e \in scoped : crew[e] # {}})
    IN [WithCredits(s, UNION {guests[e] : e \in scoped}, UNION {crew[e] : e \in scoped}) EXCEPT
           !.episodes = [e \in DOMAIN @ |->
              IF e \notin scoped THEN @[e]
              ELSE [s.episodes[e] EXCEPT !.guests = IF e \in guestScope THEN guests[e] ELSE @,
                                         !.crew = IF e \in crewScope THEN crew[e] ELSE @]]]

\* A pointer the payload carries is set, to nothing if the episode is not stored.
AirPointersSet(s, p) ==
    LET Pointer(given, old) == IF given = Absent THEN old
                               ELSE IF given \in DOMAIN s.episodes THEN given ELSE Null
    IN [s EXCEPT !.last = Pointer(p.series.last, @), !.next = Pointer(p.series.next, @)]

\* The median of the stored runtimes of regular episodes, halves to the even
\* minute; a show without any keeps what it has.
RuntimeRefreshed(s) ==
    LET at == {e \in DOMAIN s.episodes : s.episodes[e].number > 0 /\ s.episodes[e].runtime # Null}
        n == Cardinality(at)
        sorted == SetToSortSeq({<<s.episodes[e].runtime, e>> : e \in at}, LAMBDA a, b : a[1] < b[1])
        sum == sorted[(n + 1) \div 2][1] + sorted[n \div 2 + 1][1]
        half == sum \div 2
    IN IF n = 0 THEN s
       ELSE [s EXCEPT !.runtime = IF sum % 2 = 1 /\ half % 2 = 1 THEN half + 1 ELSE half]

----------------------------------------------------------------------------
(* The three narrow writers and the whole payload.                          *)

WriteSeriesCredits(s, p) == EpisodeCreditsWritten(CreditsWritten(s, p), p)
WriteSeriesRecommendations(s, p, live) == RecommendationsWritten(s, p, live)
WriteSeasonCredits(s, p) == SeasonCreditsWritten(s, p)
SeasonsWithoutCredits(p) ==
    LET details == p.details IN {n \in DOMAIN details : details[n].regulars = Absent}

ShowRowsWritten(s, p, live) ==
    RecommendationsWritten(
        CreditsWritten(SpacesWritten(CreatorsWritten(JoinsWritten(CountriesWritten(ShowWritten(s, p), p),
            p), p), p), p),
        p, live)

SeasonsWritten(s, p, prune) ==
    LET upserted == SeasonsUpserted(s, p)
        kept == IF prune THEN MissingSeasonsPruned(upserted, p) ELSE upserted
    IN SeasonCreditsWritten(SeasonNetworksWritten(kept, p), p)

\* Mutant: the prune comes after the episodes.
UpsertPrunesLate(s, p, prune, live) ==
    LET written == EpisodesUpserted(SeasonsWritten(ShowRowsWritten(s, p, live), p, FALSE), p)
        pruned == IF prune THEN MissingSeasonsPruned(written, p) ELSE written
    IN RuntimeRefreshed(AirPointersSet(EpisodeCreditsWritten(pruned, p), p))
UpsertSeriesPayload(s, p, prune, live) ==
    RuntimeRefreshed(AirPointersSet(
        EpisodeCreditsWritten(EpisodesUpserted(SeasonsWritten(ShowRowsWritten(s, p, live), p, prune), p), p),
        p))

\* A row nothing has been written on.
Blank == [body |-> Null, joins |-> {}, countries |-> <<>>, creators |-> <<>>,
          spaces |-> [n \in Namespaces |-> {}], cast |-> <<>>, crew |-> <<>>,
          people |-> {}, characters |-> {}, roles |-> {}, seasons |-> <<>>, episodes |-> <<>>,
          last |-> Null, next |-> Null, runtime |-> Null, recommendations |-> {}]
=============================================================================
