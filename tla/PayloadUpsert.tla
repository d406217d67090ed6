---------------------------- MODULE PayloadUpsert ----------------------------
(***************************************************************************)
(* One show and everyone who writes TMDB's payloads on it: the full pass   *)
(* and the daily delta (mirror_series), and the backfills of credits,      *)
(* recommendations and season regulars.  They run as separate processes.   *)
(* Each fetches first, in no transaction, and then writes in one that      *)
(* holds until it commits; TMDB changes and the others commit in between.  *)
(* A fetch or a write that fails leaves nothing behind.                    *)
(*                                                                         *)
(* vintage is a ghost: for each block of rows, what the payload that last  *)
(* spoke for it writes on a show that has nothing.                         *)
(***************************************************************************)
EXTENDS PayloadStore

CONSTANTS
    Versions,    \* of the show upstream
    Content,     \* what TMDB holds in each
    LocalRows,   \* rows a show may have that no payload wrote
    NoVersion,
    MaxChanges   \* bound: changes of the show and of its targets

\* Rows of a show that no payload has written.
NoPayload(s) ==
    /\ \A i \in DOMAIN s.creators : s.creators[i].credit = Null
    /\ \A n \in Namespaces : \A r \in s.spaces[n] : r.key = Null
    /\ s.cast = <<>> /\ s.crew = <<>> /\ s.recommendations = {}
    /\ \A k \in SeasonIds \cap DOMAIN s.seasons :
         s.seasons[k].networks = {} /\ s.seasons[k].regulars = {}
    /\ \A e \in EpisodeIds \cap DOMAIN s.episodes :
         s.episodes[e].guests = {} /\ s.episodes[e].crew = {} /\ ~s.episodes[e].screened

ASSUME PayloadUpsertAssumption ==
    /\ \A v \in Versions : SeriesFields(Content[v]) /\ Fetchable(Content[v])
    /\ \A s \in LocalRows : StoreOK(s) /\ Interned(s) /\ NoPayload(s)
    /\ NoVersion \notin Versions /\ MaxChanges \in Nat

VARIABLES
    upstream,  \* the version TMDB serves
    live,      \* the shows that are mirrored and not tombstoned
    store,     \* the rows of the show
    stamps,    \* the *_synced_at columns that are set
    pending,   \* the version each writer has fetched and not yet written
    vintage,
    changes

payloadVars == <<upstream, live, store, stamps, pending, vintage, changes>>

Writers == {"mirror", "credits", "recommendations", "regulars"}
Stamps == {"series", "credits", "recommendations", "regulars"}

\* What each fetches of a version.
Payload == [w \in Writers |-> [v \in Versions |->
    CASE w = "regulars" -> FetchSeriesWithSeasons(Content[v], {})
      [] w = "recommendations" -> FetchRecommendations(Content[v])
      [] OTHER -> FetchSeriesWithSeasons(Content[v], DefaultAppend)]]

\* A payload as it was read before there were writers for credits,
\* recommendations and season regulars.
WithoutCredits(p) ==
    [p EXCEPT !.series = [p.series EXCEPT !.cast = Absent, !.crew = Absent, !.recommendations = Absent],
              !.details = [n \in DOMAIN @ |-> [@[n] EXCEPT !.regulars = Absent]],
              !.episodes = [e \in DOMAIN @ |-> [@[e] EXCEPT !.guests = Absent, !.crew = Absent]]]

\* What each of them writes on a row that has nothing.
Payloads == {Payload[w][v] : w \in Writers, v \in Versions}
            \cup {WithoutCredits(Payload["mirror"][v]) : v \in Versions}
Alone == [p \in Payloads |-> UpsertSeriesPayload(Blank, p, TRUE, Targets)]

UpstreamEntries(rows) == {r \in rows : r.key # Null}
Credited(creators) == {c \in {creators[i] : i \in DOMAIN creators} : c.credit # Null}
Spine(s) == [body |-> s.body, joins |-> s.joins, creators |-> Credited(s.creators),
             numbers |-> [k \in DOMAIN s.seasons |-> s.seasons[k].number],
             episodes |-> [e \in DOMAIN s.episodes |->
                 [number |-> s.episodes[e].number, runtime |-> s.episodes[e].runtime]]]
Unwritten == [spine |-> NoVersion, cast |-> <<>>, crew |-> <<>>, recommendations |-> {},
              spaces |-> [n \in Namespaces |-> {}], screened |-> {},
              networks |-> <<>>, regulars |-> <<>>,
              guests |-> [e \in EpisodeIds |-> {}], episodeCrew |-> [e \in EpisodeIds |-> {}]]

\* What is said of the seasons that are stored.  A season that was deleted and
\* comes back has nothing of old.
Said(old, stored, spoken, new) ==
    [k \in stored \cap SeasonIds |-> IF k \in spoken THEN new[k]
                                    ELSE IF k \in DOMAIN old THEN old[k] ELSE {}]
SpineVintage(g, p, stored) ==
    LET alone == Alone[p]
    IN [g EXCEPT !.spine = Spine(alone),
                 !.spaces = [n \in Namespaces |->
                     IF p.series.spaces[n] = Absent THEN @[n] ELSE alone.spaces[n]],
                 !.networks = Said(@, stored, SeasonsDetailed(p),
                     [k \in DOMAIN alone.seasons |-> alone.seasons[k].networks]),
                 !.screened = IF p.series.screened = Absent THEN @
                              ELSE (@ \ DOMAIN p.episodes) \cup (p.series.screened \cap DOMAIN p.episodes)]

\* Whom a payload speaks for, as a reader of the payload would say.
Spoken(list, Holds(_)) == list # Absent /\ (list = <<>> \/ \E i \in DOMAIN list : Holds(list[i]))
SpeaksGuests(p) == LET es == p.episodes IN {e \in DOMAIN es : Spoken(es[e].guests, HasPerson)}
SpeaksCrew(p) == LET es == p.episodes IN {e \in DOMAIN es : Spoken(es[e].crew, UsableCrew)}
SpeaksRegulars(p) == LET given == RegularsGiven(p) IN {k \in DOMAIN given : Spoken(given[k], HasPerson)}

CreditsVintage(g, p, stored) ==
    LET alone == Alone[p]
    IN [g EXCEPT !.cast = IF p.series.cast = Absent THEN @ ELSE alone.cast,
                 !.crew = IF p.series.cast = Absent THEN @ ELSE alone.crew,
                 !.guests = [e \in EpisodeIds |->
                     IF e \in SpeaksGuests(p) \cap stored THEN alone.episodes[e].guests ELSE @[e]],
                 !.episodeCrew = [e \in EpisodeIds |->
                     IF e \in SpeaksCrew(p) \cap stored THEN alone.episodes[e].crew ELSE @[e]]]
RecommendationsVintage(g, p) ==
    [g EXCEPT !.recommendations = IF p.series.recommendations = Absent THEN @
                                  ELSE WriteSeriesRecommendations(Blank, p, live).recommendations]
RegularsVintage(g, p, stored) ==
    LET alone == Alone[p]
    IN [g EXCEPT !.regulars = Said(@, stored, SpeaksRegulars(p),
           [k \in DOMAIN alone.seasons |-> alone.seasons[k].regulars])]
MirrorVintage(g, p, s) ==
    RegularsVintage(RecommendationsVintage(CreditsVintage(SpineVintage(g, p, DOMAIN s.seasons), p,
        DOMAIN s.episodes), p), p, DOMAIN s.seasons)

\* A show that is new or was copied from TV Maze, or one that was mirrored then.
PayloadInit ==
    /\ upstream \in Versions /\ live = Targets
    /\ pending = [w \in Writers |-> NoVersion] /\ changes = 0
    /\ \E s \in LocalRows :
         \/ store = s /\ stamps = {} /\ vintage = Unwritten
         \/ \E v \in Versions : LET p == WithoutCredits(Payload["mirror"][v]) IN
              /\ store = UpsertSeriesPayload(s, p, TRUE, live) /\ stamps = {"series"}
              /\ vintage = MirrorVintage(Unwritten, p, store)

\* The work lists: what a pass takes up.  The delta takes what TMDB reports.
Wanted(w) == w = "mirror" \/ ("series" \in stamps /\ w \notin stamps)

UpstreamChanges(v) ==
    /\ v # upstream /\ changes < MaxChanges
    /\ upstream' = v /\ changes' = changes + 1
    /\ UNCHANGED <<live, store, stamps, pending, vintage>>

TargetGoes(t) ==
    /\ changes < MaxChanges /\ changes' = changes + 1
    /\ live' = IF t \in live THEN live \ {t} ELSE live \cup {t}
    /\ UNCHANGED <<upstream, store, stamps, pending, vintage>>

Fetch(w) ==
    /\ pending[w] = NoVersion /\ Wanted(w)
    /\ pending' = [pending EXCEPT ![w] = upstream]
    /\ UNCHANGED <<upstream, live, store, stamps, vintage, changes>>

\* The response cannot vouch for what the backfill came for: not stamped.
Unusable(w, p) ==
    \/ w = "credits" /\ p.series.cast = Absent
    \/ w = "recommendations" /\ p.series.recommendations = Absent
    \/ w = "regulars" /\ SeasonsWithoutCredits(p) # {}

Fail(w) ==
    /\ pending[w] # NoVersion
    /\ pending' = [pending EXCEPT ![w] = NoVersion]
    /\ UNCHANGED <<upstream, live, store, stamps, vintage, changes>>

\* mirror_series: the payload with pruning, and all four stamps.
Mirror ==
    LET v == pending["mirror"]
        p == Payload["mirror"][v]
    IN /\ v # NoVersion
       /\ store' = UpsertSeriesPayload(store, p, TRUE, live)
       /\ stamps' = Stamps
       /\ pending' = [pending EXCEPT !["mirror"] = NoVersion]
       /\ vintage' = MirrorVintage(vintage, p, store')
       /\ UNCHANGED <<upstream, live, changes>>

BackfillShowCredits ==
    LET v == pending["credits"]
        p == Payload["credits"][v]
    IN /\ v # NoVersion /\ ~Unusable("credits", p)
       /\ store' = WriteSeriesCredits(store, p)
       /\ stamps' = stamps \cup {"credits"}
       /\ pending' = [pending EXCEPT !["credits"] = NoVersion]
       /\ vintage' = CreditsVintage(vintage, p, DOMAIN store.episodes)
       /\ UNCHANGED <<upstream, live, changes>>

BackfillShowRecommendations ==
    LET v == pending["recommendations"]
        p == Payload["recommendations"][v]
    IN /\ v # NoVersion /\ ~Unusable("recommendations", p)
       /\ store' = WriteSeriesRecommendations(store, p, live)
       /\ stamps' = stamps \cup {"recommendations"}
       /\ pending' = [pending EXCEPT !["recommendations"] = NoVersion]
       /\ vintage' = RecommendationsVintage(vintage, p)
       /\ UNCHANGED <<upstream, live, changes>>

BackfillShowSeasonCredits ==
    LET v == pending["regulars"]
        p == Payload["regulars"][v]
    IN /\ v # NoVersion /\ ~Unusable("regulars", p)
       /\ store' = WriteSeasonCredits(store, p)
       /\ stamps' = stamps \cup {"regulars"}
       /\ pending' = [pending EXCEPT !["regulars"] = NoVersion]
       /\ vintage' = RegularsVintage(vintage, p, DOMAIN store.seasons)
       /\ UNCHANGED <<upstream, live, changes>>

PayloadNext ==
    \/ \E v \in Versions : UpstreamChanges(v)
    \/ \E t \in Targets : TargetGoes(t)
    \/ \E w \in Writers : Fetch(w) \/ Fail(w)
    \/ Mirror \/ BackfillShowCredits \/ BackfillShowRecommendations \/ BackfillShowSeasonCredits

PayloadSpec == PayloadInit /\ [][PayloadNext]_payloadVars
----------------------------------------------------------------------------
PayloadTypeOK ==
    /\ upstream \in Versions /\ live \subseteq Targets
    /\ StoreOK(store) /\ Interned(store)
    /\ stamps \subseteq Stamps /\ changes \in 0 .. MaxChanges
    /\ pending \in [Writers -> Versions \cup {NoVersion}]

OfSpine(spine) ==
    /\ store.body = spine.body /\ store.joins = spine.joins
    /\ Credited(store.creators) = spine.creators
    /\ DOMAIN store.seasons \ LegacySeasons = DOMAIN spine.numbers
    /\ \A k \in DOMAIN spine.numbers : store.seasons[k].number = spine.numbers[k]
    /\ \A e \in DOMAIN spine.episodes :
         /\ e \in DOMAIN store.episodes
         /\ store.episodes[e].number = spine.episodes[e].number
         /\ store.episodes[e].runtime = spine.episodes[e].runtime

(* Each block of a show's rows is what one payload would have written on an *)
(* empty show: the last that spoke for it.  No two vintages interleave,     *)
(* whatever was stored before and whoever writes, and a list that is absent *)
(* or cannot be read leaves the block as it was (tmdb/upsert.py, the        *)
(* replacing writers, _refresh_scope, the narrow writers of the backfills). *)
OneVintage ==
    /\ vintage.spine # NoVersion => OfSpine(vintage.spine)
    /\ [n \in Namespaces |-> UpstreamEntries(store.spaces[n])] = vintage.spaces
    /\ store.cast = vintage.cast /\ store.crew = vintage.crew
    /\ store.recommendations = vintage.recommendations
    /\ \A e \in EpisodeIds \cap DOMAIN store.episodes :
         /\ store.episodes[e].guests = vintage.guests[e]
         /\ store.episodes[e].crew = vintage.episodeCrew[e]
         /\ store.episodes[e].screened = (e \in vintage.screened)
    /\ \A k \in DOMAIN vintage.networks : store.seasons[k].networks = vintage.networks[k]
    /\ \A k \in DOMAIN vintage.regulars : store.seasons[k].regulars = vintage.regulars[k]

LocalSeasonsOf(s) == [k \in LegacySeasons \cap DOMAIN s.seasons |-> s.seasons[k]]
LocalEntriesOf(s) == [n \in UpstreamKeyed |-> {r \in s.spaces[n] : r.key = Null}]
LocalEpisodes(s) == LegacyEpisodes \cap DOMAIN s.episodes
(* No payload, however authoritative, changes or deletes a row that no      *)
(* payload wrote: watches hang on the seasons and episodes copied from TV   *)
(* Maze, and nothing upstream could restore them.  Such an episode loses    *)
(* its season only where that was one of TMDB's, and went                   *)
(* (prune_missing_seasons, _replace_show_rows).                             *)
LocalKept ==
    [][/\ LocalSeasonsOf(store') = LocalSeasonsOf(store)
       /\ LocalEntriesOf(store') = LocalEntriesOf(store)
       /\ \A i \in DOMAIN store.creators : store.creators[i].credit = Null =>
            i \in DOMAIN store'.creators /\ store'.creators[i] = store.creators[i]
       /\ LocalEpisodes(store') = LocalEpisodes(store)
       /\ \A e \in LocalEpisodes(store) :
            \/ store'.episodes[e] = store.episodes[e]
            \/ /\ store.episodes[e].season \in SeasonIds \ DOMAIN store'.seasons
               /\ store'.episodes[e] = [store.episodes[e] EXCEPT !.season = Null]]_payloadVars

(* An episode of the payload that last wrote the show hangs on a season of  *)
(* its number that outlived the prune, also where TMDB had two seasons of   *)
(* one number and dropped one (upsert_series_payload, the order of its      *)
(* writes).                                                                 *)
EpisodesHome ==
    vintage.spine # NoVersion =>
        \A e \in DOMAIN vintage.spine.episodes :
            LET home == store.episodes[e].season
                number == store.episodes[e].number
            IN IF number \in {store.seasons[k].number : k \in DOMAIN store.seasons}
               THEN home \in DOMAIN store.seasons /\ store.seasons[home].number = number
               ELSE home = Null
=============================================================================
