---------------------------- MODULE CatalogPasses ----------------------------
(***************************************************************************)
(* The passes that touch many shows at once, as operators from the rows of *)
(* catalog.show to the rows: the daily id export and the two readers of    *)
(* it (tmdb/tombstone.py, tmdb/popularity.py), the recompute of last_aired *)
(* (catalog/last_aired.py), the trending snapshot (tmdb/trending.py), and  *)
(* what the delta tells of a show that changed (tmdb/change_events.py).    *)
(*                                                                         *)
(* rows is a function from surrogate ids to rows; tmdb is the row's TMDB   *)
(* id, Null for one that was authored locally.                             *)
(***************************************************************************)
EXTENDS Integers, Sequences, FiniteSets

CONSTANTS
    Null, Unreadable,
    MinFeedAbsolute, MeasuredExport,  \* _MIN_FEED_ABSOLUTE, _MEASURED_EXPORT
    RelativeNum, RelativeDen          \* _MIN_FEED_RELATIVE

ASSUME FloorAssumption ==
    /\ {MinFeedAbsolute, MeasuredExport, RelativeNum} \subseteq Nat
    /\ RelativeDen \in Nat \ {0} /\ RelativeNum <= RelativeDen

----------------------------------------------------------------------------
(* The export: lines of [id, popularity], whose order nothing looks at.  A   *)
(* line whose id cannot be read is dropped, one whose score cannot be keeps  *)
(* its id.  A body that stops early and one with no id raise.                *)

PopularityOf(line) == IF line.popularity = Unreadable THEN Null ELSE line.popularity
ParseSeriesExport(lines) ==
    [i \in {j \in DOMAIN lines : lines[j].id # Unreadable} |->
        [id |-> lines[i].id, popularity |-> PopularityOf(lines[i])]]

\* The newest file published by today, at most three days back; published gives
\* a day's answer: its lines, "none" (a 403 or 404) or "error", which raises.
LookbackDays == 2
DownloadExport(published, today) ==
    LET out == {d \in today - LookbackDays .. today : published[d] # <<"none">>}
    IN IF out = {} THEN <<"error">> ELSE published[CHOOSE d \in out : \A c \in out : c <= d]

IdsOf(entries) == {entries[i].id : i \in DOMAIN entries}

Larger(a, b) == IF a < b THEN b ELSE a
\* Mutant: the absolute floor alone.
FeedTooSmall(size, mirrored) == size < MinFeedAbsolute
FeedIsImplausible(size, mirrored) ==
    \/ size < MinFeedAbsolute
    \/ RelativeDen * size < RelativeNum * Larger(mirrored, MeasuredExport)

\* What both readers count the mirror as: local rows were never in an export,
\* and a row that is tombstoned is absent from it.
Live(rows) == {s \in DOMAIN rows : rows[s].tmdb # Null /\ ~rows[s].deleted}

\* Mutant: tombstoned rows count as mirrored.
ReconcileCountsAll(rows, feed) ==
    IF FeedIsImplausible(Cardinality(feed), Cardinality({s \in DOMAIN rows : rows[s].tmdb # Null})) THEN rows
    ELSE [s \in DOMAIN rows |->
             IF rows[s].tmdb = Null THEN rows[s]
             ELSE [rows[s] EXCEPT !.deleted = rows[s].tmdb \notin feed]]
ReconcileTombstones(rows, feed) ==
    IF FeedIsImplausible(Cardinality(feed), Cardinality(Live(rows))) THEN rows
    ELSE [s \in DOMAIN rows |->
             IF rows[s].tmdb = Null THEN rows[s]
             ELSE [rows[s] EXCEPT !.deleted = rows[s].tmdb \notin feed]]

\* The rows an export is wrong about: TMDB lists them and the feed does not.
Misjudged(rows, feed, listed) ==
    {s \in Live(rows) : rows[s].tmdb \in listed \ feed}

\* A score lands on the row of its id; no row is made, and none loses its score.
RefreshPopularity(rows, entries) ==
    IF FeedIsImplausible(Cardinality(DOMAIN entries), Cardinality(Live(rows))) THEN rows
    ELSE LET Scores(s) == {e \in {entries[i] : i \in DOMAIN entries} :
                              e.id = rows[s].tmdb /\ e.popularity # Null}
         IN [s \in DOMAIN rows |->
                IF rows[s].tmdb = Null \/ Scores(s) = {} THEN rows[s]
                ELSE [rows[s] EXCEPT !.popularity = (CHOOSE e \in Scores(s) : TRUE).popularity]]

\* dates: the air dates of the regular episodes of a row.
LatestBy(dates, today) ==
    LET past == {d \in dates : d <= today}
    IN IF past = {} THEN Null ELSE CHOOSE d \in past : \A c \in past : c <= d
\* Mutant: a row without an aired episode keeps the date it had.
RecomputeWhereAired(rows, today, scope) ==
    [s \in DOMAIN rows |-> IF s \in scope /\ LatestBy(rows[s].dates, today) # Null
        THEN [rows[s] EXCEPT !.lastAired = LatestBy(rows[s].dates, today)] ELSE rows[s]]
RecomputeLastAired(rows, today, scope) ==
    [s \in DOMAIN rows |-> IF s \in scope
        THEN [rows[s] EXCEPT !.lastAired = LatestBy(rows[s].dates, today)] ELSE rows[s]]

----------------------------------------------------------------------------
(* Trending: the stored snapshot is a set of [rank, show, at].               *)

\* An entry's rank is its place on the page, whatever else on it is malformed.
RankedSeriesIds(page) == {[rank |-> i, tmdb |-> page[i]] : i \in {j \in DOMAIN page : page[j] # Unreadable}}

Holders(rows, id) == {s \in DOMAIN rows : rows[s].tmdb = id /\ id # Null}
Unresolved(rows, ranked) == {r \in ranked : Holders(rows, r.tmdb) = {}}
Duplicated(rows, ranked) ==
    {r \in ranked \ Unresolved(rows, ranked) : \E q \in ranked : q.tmdb = r.tmdb /\ q.rank < r.rank}
Resolved(rows, ranked) == (ranked \ Unresolved(rows, ranked)) \ Duplicated(rows, ranked)

\* A page nothing of which resolves leaves the snapshot, and fails the run.
ReplaceSnapshot(stored, rows, ranked, at) ==
    IF Resolved(rows, ranked) = {} THEN stored
    ELSE {[rank |-> r.rank, show |-> CHOOSE s \in Holders(rows, r.tmdb) : TRUE, at |-> at] :
             r \in Resolved(rows, ranked)}

\* One request, one transaction, one finalized run; what the entries resolve to
\* and what the run row says of them.  at is the time before the request.
RunTrendingSnapshot(stored, rows, page, at) ==
    LET ranked == RankedSeriesIds(page)
        resolved == Resolved(rows, ranked)
    IN [stored |-> ReplaceSnapshot(stored, rows, ranked, at),
        processed |-> Cardinality(resolved), failed |-> Cardinality(Unresolved(rows, ranked)),
        status |-> IF resolved = {} THEN "failed" ELSE "succeeded"]

TrendingMaxAge == 7
Servable(rows, s) == ~rows[s].adult /\ ~rows[s].deleted
GetTrendingSnapshot(stored, rows, now) ==
    {r \in stored : r.at >= now - TrendingMaxAge /\ Servable(rows, r.show)}

\* A list stored by rank, filtered before it is capped.
ListSimilarShows(edges, rows, limit) ==
    LET shown == {e \in edges : Servable(rows, e.target)}
    IN {e \in shown : Cardinality({f \in shown : f.rank < e.rank}) < limit}

----------------------------------------------------------------------------
(* Catalog events: what the payload about to land changes on a tracked show. *)
(* old holds raw dates: [status, premieres], a function of season numbers.   *)

TerminalStatuses == {"Ended", "Canceled"}
StatusTransition(old, new) ==
    CASE old \notin TerminalStatuses /\ new \in TerminalStatuses -> {[kind |-> "ended", season |-> Null]}
      [] old \in TerminalStatuses /\ new \notin TerminalStatuses \cup {Null} ->
            {[kind |-> "revived", season |-> Null]}
      [] OTHER -> {}

PremiereTransition(number, old, new, today) ==
    CASE new = Null -> {}
      [] new # Null /\ old = Null ->
            IF new > today THEN {[kind |-> "premiere_set", season |-> number]} ELSE {}
      [] OTHER -> IF new # old /\ (new > today \/ old > today)
                  THEN {[kind |-> "premiere_moved", season |-> number]} ELSE {}

\* new: the payload's status, and the date of each season it lists.
DetectTransitions(old, new, today) ==
    LET Before(n) == IF n \in DOMAIN old.premieres THEN old.premieres[n] ELSE Null
    IN StatusTransition(old.status, new.status)
       \cup UNION {PremiereTransition(n, Before(n), new.premieres[n], today) :
                      n \in {m \in DOMAIN new.premieres : m > 0}}

\* Of a number the show has twice, the row with the lowest id; only a show that
\* somebody tracks has a snapshot.
SnapshotTrackedShow(show, seasons, tracked) ==
    IF ~tracked THEN Null
    ELSE LET numbers == {s.number : s \in seasons}
             Lowest(n) == CHOOSE s \in seasons : s.number = n
                             /\ \A t \in seasons : t.number = n => s.id <= t.id
             Raw(s) == IF s.tmdbAirDate # Null THEN s.tmdbAirDate ELSE s.airDate
         IN [status |-> show.status, premieres |-> [n \in numbers |-> Raw(Lowest(n))]]

\* show_event rows, after the upsert, so that a season the payload brought is
\* found; a season upstream listed and the upsert did not keep is Null.
RecordTransitions(show, seasons, transitions) ==
    LET Lowest(n) == CHOOSE s \in seasons : s.number = n
                         /\ \A t \in seasons : t.number = n => s.id <= t.id
        SeasonOf(t) == IF t.season # Null /\ (\E s \in seasons : s.number = t.season)
                       THEN Lowest(t.season).id ELSE Null
    IN {[kind |-> t.kind, show |-> show, season |-> SeasonOf(t)] : t \in transitions}
=============================================================================
