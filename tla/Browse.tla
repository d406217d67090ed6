------------------------------- MODULE Browse -------------------------------
(* What the catalog's readers are served: the show list with its search and    *)
(* filters, one show's seasons, cast and crew, and one person's credits. Each  *)
(* operator is one query of catalog/browse_queries.py over `db`, a record of   *)
(* tables, each table a set of rows. A title is known by what it holds and     *)
(* starts with once folded; a name is known by its place in the alphabet.      *)
EXTENDS Integers, FiniteSets, Sequences
LOCAL INSTANCE SequencesExt
LOCAL INSTANCE FiniteSetsExt

CONSTANT Null   \* SQL NULL

\* Above every number a query sorts by.
End == 2147483647

\* The keys of one row compared from the left; ties go on to the next key.
Precedes(k, l) == \E i \in DOMAIN k : k[i] < l[i] /\ \A j \in 1 .. i - 1 : k[j] = l[j]
Ordered(rows, Key(_)) == SetToSortSeq(rows, LAMBDA r, s : Precedes(Key(r), Key(s)))

\* asc / desc, NULLS LAST.
Up(v) == IF v = Null THEN End ELSE v
Down(v) == IF v = Null THEN End ELSE -v
Count(v) == IF v = Null THEN 0 ELSE v

Least(values) == IF values \subseteq {Null} THEN Null ELSE Min(values \ {Null})
Greatest(values) == IF values \subseteq {Null} THEN Null ELSE Max(values \ {Null})
Foremost(rows, limit) == SubSeq(rows, 1, Min({limit, Len(rows)}))
Page(rows, page, perPage) == SubSeq(rows, (page - 1) * perPage + 1, Min({page * perPage, Len(rows)}))

----------------------------------------------------------------------------
(* Search. A token is [text, letters, symbol]: how many characters the fold    *)
(* keeps, and whether it holds a character that is neither letter, nor         *)
(* punctuation, nor space.                                                     *)

SearchTokens(search) == SelectSeq(search, LAMBDA t : t.letters > 0 \/ t.symbol)
Folded(tokens) == SelectSeq(tokens, LAMBDA t : t.letters > 0)
IsShortQuery(tokens) == \A i \in DOMAIN tokens : tokens[i].letters < 3
Holds(title, tokens) == \A i \in DOMAIN Folded(tokens) : Folded(tokens)[i].text \in title.holds
StartsWith(title, tokens) ==
    Folded(tokens) = <<>> \/ [i \in DOMAIN Folded(tokens) |-> Folded(tokens)[i].text] \in title.starts
TitleMatches(title, tokens) ==
    IF IsShortQuery(tokens) THEN StartsWith(title, tokens) ELSE Holds(title, tokens)

MatchingAkas(db, show, tokens) ==
    {a.title : a \in {b \in db.akas : b.show = show.id /\ TitleMatches(b.title, tokens)}}
SearchMatches(db, show, search) ==
    \/ search = <<>>
    \/ /\ SearchTokens(search) # <<>>
       /\ \/ TitleMatches(show.name, SearchTokens(search))
          \/ MatchingAkas(db, show, SearchTokens(search)) # {}

\* Of two akas as short as each other, either.
HydrateMatchedAka(db, show, search) ==
    LET akas == MatchingAkas(db, show, SearchTokens(search)) IN
    IF TitleMatches(show.name, SearchTokens(search)) \/ akas = {} THEN {Null}
    ELSE {a \in akas : \A b \in akas : a.length <= b.length}

SearchPeople(db, search, page, perPage) ==
    LET named == {p \in db.people : SearchTokens(search) # <<>> /\ Holds(p.name, SearchTokens(search))}
        Key(p) == <<Down(p.popularity), p.name.place, p.id>>
    IN [rows |-> Page(Ordered(named, Key), page, perPage), total |-> Cardinality(named)]

----------------------------------------------------------------------------
(* The show list.                                                              *)

ShowsWithAllGenres(db, names) ==
    {s.id : s \in {t \in db.shows : \A n \in names : \E g \in db.genres : g.show = t.id /\ g.name = n}}
ShowsOnNetworks(db, networks) == {n.show : n \in {o \in db.networks : o.network \in networks}}

MirroredAt(show) == IF show.synced = Null THEN show.ingested ELSE show.synced
SortExpr(sort, show) ==
    CASE sort = "name" -> show.name.place
      [] sort = "-name" -> -show.name.place
      [] sort = "premiered" -> Up(show.premiered)
      [] sort = "-premiered" -> Down(show.premiered)
      [] sort = "tvmaze_updated" -> MirroredAt(show)
      [] sort = "-tvmaze_updated" -> -MirroredAt(show)
      [] sort = "last_aired" -> Up(show.lastAired)
      [] sort = "-last_aired" -> Down(show.lastAired)
      [] sort = "popularity" -> Up(show.popularity)
      [] sort = "-popularity" -> Down(show.popularity)
AllowedSortKeys == {"name", "-name", "premiered", "-premiered", "tvmaze_updated", "-tvmaze_updated",
                    "last_aired", "-last_aired", "popularity", "-popularity"}

\* An attribute the filter leaves Null is not asked about.
Filtered(db, filters) ==
    {s \in db.shows :
        /\ ~s.deleted
        /\ SearchMatches(db, s, filters.search)
        /\ \A f \in {"status", "language", "type"} : filters[f] \in {Null, s[f]}
        /\ filters.genres # {} => s.id \in ShowsWithAllGenres(db, filters.genres)
        /\ filters.networks # {} => s.id \in ShowsOnNetworks(db, filters.networks)}
ListShows(db, filters, sort, page, perPage) ==
    LET found == Filtered(db, filters)
        Key(s) == <<SortExpr(sort, s), s.id>>
    IN [rows |-> Page(Ordered(found, Key), page, perPage), total |-> Cardinality(found)]

PrimaryNetwork(db, show) ==
    LET on == {n \in db.networks : n.show = show}
        Key(n) == <<n.place, n.network>>
    IN IF on = {} THEN Null ELSE Head(Ordered(on, Key)).network
HydrateShowRefs(db, shows) ==
    [s \in shows |-> [genres |-> {g.name : g \in {h \in db.genres : h.show = s}},
                      network |-> PrimaryNetwork(db, s)]]

ListAnticipatedShows(db, today, windowDays, limit) ==
    LET ahead == {s \in db.shows : /\ ~s.deleted /\ ~s.adult /\ s.premiered # Null
                                   /\ s.premiered >= today /\ s.premiered < today + windowDays}
        Key(s) == <<Down(s.popularity), s.id>>
    IN Foremost(Ordered(ahead, Key), limit)

----------------------------------------------------------------------------
(* One show: its seasons, episodes, cast and crew.                             *)

IsSpecialsSeason(number) == number = 0
\* 1 sorts after 0.
AsKey(condition) == IF condition THEN 1 ELSE 0
SeasonPreference(season) == <<AsKey(season.tmdb = Null), season.id>>
Deduped(seasons) ==
    LET kept == {s \in seasons : \A t \in seasons \ {s} :
                    t.show = s.show /\ t.number = s.number =>
                        Precedes(SeasonPreference(s), SeasonPreference(t))}
        Key(s) == <<s.show, AsKey(IsSpecialsSeason(s.number)), s.number>>
    IN Ordered(kept, Key)
GetShowSeasons(db, show) == Deduped({s \in db.seasons : s.show = show})
GetShowSeason(db, show, number) ==
    LET at == SelectSeq(GetShowSeasons(db, show), LAMBDA s : s.number = number)
    IN IF at = <<>> THEN Null ELSE Head(at)

GetShowEpisodes(db, show, season) ==
    LET Key(e) == <<AsKey(IsSpecialsSeason(e.season)), e.season, AsKey(e.number < 0), e.number>>
    IN Ordered({e \in db.episodes : e.show = show /\ season \in {Null, e.season}}, Key)
PublicNumber(episode) == IF episode.number >= 0 THEN episode.number ELSE Null

SeasonsOf(db, show) == {s.id : s \in {t \in db.seasons : t.show = show}}
Role(credit) == [person |-> credit.person, character |-> credit.character]
\* The (person, character) pairs with a credit on any season; a credit with no
\* character joins nothing.
Regulars(db, show) ==
    {Role(c) : c \in {d \in db.seasonCast : d.season \in SeasonsOf(db, show) /\ d.character # Null}}
CastRows(db, show) == {c \in db.showCast : c.show = show}

ListShowCast(db, show) ==
    LET Rows(r) == {c \in CastRows(db, show) : Role(c) = r}
        Member(r) == [person |-> r.person, character |-> r.character,
                      episodes |-> Greatest({c.episodes : c \in Rows(r)}),
                      billing |-> Least({c.billing : c \in Rows(r)})]
        Key(v) == <<Down(v.episodes), Up(v.billing), v.person, v.character>>
    IN Ordered({Member(r) : r \in Regulars(db, show)}, Key)
ListShowGuestCast(db, show) ==
    LET Key(c) == <<-Count(c.episodes), Up(c.billing), c.id>>
    IN Ordered({c \in CastRows(db, show) : c.character # Null /\ Role(c) \notin Regulars(db, show)}, Key)

\* How many of the show's episodes hold the person in the role.
EpisodeRows(db, show, person, role) ==
    Cardinality({c \in db.episodeCrew : /\ c.person = person /\ c.role = role
                                        /\ \E e \in db.episodes : e.id = c.episode /\ e.show = show})
SeriesCrew(db, credit) ==
    Count(credit.episodes) > EpisodeRows(db, credit.show, credit.person, credit.role)
ShowCrewHalf(db, show, series) ==
    LET Key(c) == <<-Count(c.episodes), db.job[c.role], c.id>>
    IN Ordered({c \in db.showCrew : c.show = show /\ SeriesCrew(db, c) = series}, Key)
ListShowCrew(db, show) == ShowCrewHalf(db, show, TRUE)
ListShowEpisodeCrew(db, show) == ShowCrewHalf(db, show, FALSE)

EpisodesIn(db, season) ==
    {e.id : e \in {f \in db.episodes : f.show = season.show /\ f.season = season.number}}
ListSeasonRegulars(db, season) ==
    LET Key(c) == <<Up(c.billing), c.id>>
    IN Ordered({c \in db.seasonCast : c.season = season.id /\ c.character # Null}, Key)
ListSeasonGuests(db, season) ==
    LET own == {Role(c) : c \in {d \in db.seasonCast : d.season = season.id}}
        guests == {c \in db.guestCast : /\ c.episode \in EpisodesIn(db, season) /\ c.character # Null
                                        /\ Role(c) \notin own}
        Rows(r) == {c \in guests : Role(c) = r}
        Guest(r) == [person |-> r.person, character |-> r.character, appearances |-> Cardinality(Rows(r)),
                     first |-> Least({c.position : c \in Rows(r)})]
        Key(g) == <<-g.appearances, Up(g.first), g.person, g.character>>
    IN Ordered({Guest(Role(c)) : c \in guests}, Key)
ListSeasonCrew(db, season) ==
    LET crew == {c \in db.episodeCrew : c.episode \in EpisodesIn(db, season)}
        Job(c) == [person |-> c.person, role |-> c.role,
                   episodes |-> Cardinality({d \in crew : d.person = c.person /\ d.role = c.role})]
        Key(v) == <<-v.episodes, db.job[v.role], v.person, v.role>>
    IN Ordered({Job(c) : c \in crew}, Key)

ListEpisodeGuestCast(db, episode) ==
    LET Key(c) == <<Up(c.position), c.id>>
    IN Ordered({c \in db.guestCast : c.episode = episode /\ c.character # Null}, Key)
ListEpisodeCrew(db, episode) ==
    LET Key(c) == <<db.job[c.role], c.id>>
    IN Ordered({c \in db.episodeCrew : c.episode = episode}, Key)

----------------------------------------------------------------------------
(* One person.                                                                 *)

ShowOf(db, id) == CHOOSE s \in db.shows : s.id = id
EpisodeOf(db, id) == CHOOSE e \in db.episodes : e.id = id
CreditShowOrder(show) == <<Down(show.premiered), show.id>>
CreditEpisodeOrder(episode) == <<Down(episode.airs), episode.id>>

ListPersonCastCredits(db, person) ==
    LET own == {c \in db.seasonCast : c.person = person /\ c.character # Null}
        SeasonOf(c) == CHOOSE s \in db.seasons : s.id = c.season
        Held(show, character) == {SeasonOf(c) : c \in {d \in own : d.character = character
                                                                   /\ SeasonOf(d).show = show}}
        Credit(show, character) ==
            [show |-> show, character |-> character,
             episodes |-> Greatest({c.episodes : c \in {d \in CastRows(db, show) :
                             d.person = person /\ d.character = character}}),
             seasons |-> {s.number : s \in Held(show, character)},
             last |-> Greatest({e.airs : e \in {f \in db.episodes :
                             \E s \in Held(show, character) : f.id \in EpisodesIn(db, s)}})]
        Key(v) == <<Down(v.last), v.show, v.character>>
    IN Ordered({Credit(SeasonOf(c).show, c.character) : c \in own}, Key)

ListPersonCrewCredits(db, person) ==
    LET Key(c) == CreditShowOrder(ShowOf(db, c.show)) \o <<db.job[c.role], c.id>>
    IN Ordered({c \in db.showCrew : c.person = person /\ SeriesCrew(db, c)}, Key)
ListPersonGuestCredits(db, person) ==
    LET Key(c) == CreditEpisodeOrder(EpisodeOf(db, c.episode)) \o <<c.id>>
    IN Ordered({c \in db.guestCast : c.person = person /\ c.character # Null}, Key)
ListPersonEpisodeCrewCredits(db, person) ==
    LET Key(c) == CreditEpisodeOrder(EpisodeOf(db, c.episode)) \o <<db.job[c.role], c.id>>
    IN Ordered({c \in db.episodeCrew : c.person = person}, Key)
=============================================================================
