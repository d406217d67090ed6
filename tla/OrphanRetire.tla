---------------------------- MODULE OrphanRetire ----------------------------
(***************************************************************************)
(* The pass that empties the catalog of orphans, the rows that the old     *)
(* catalog left (tmdb/orphan_retire.py, over user_history.py): a show at a *)
(* time it moves users' history from each orphan episode to its twin and   *)
(* deletes the orphan, found or not; then it deletes the orphan seasons,   *)
(* and then the orphan shows, whose users follow the show's link.          *)
(*                                                                         *)
(* The pass runs statement by statement, a transaction per show, while     *)
(* users go on marking.  A request is one step, its commit: ViewingHistory *)
(* has the statements of those.  Rows that the pass has changed are locked *)
(* until it commits.                                                       *)
(***************************************************************************)
EXTENDS OrphanMatching

CONSTANTS
    NoSeason,       \* no season row
    Users,
    Catalogs,       \* the episodes there may be at first, a set of sets
    Shows,          \* the rows of catalog.show: [id, name, ingested]
    Seasons,        \* the rows of catalog.season: [id, show, number, ingested]
    Staged,         \* the shows that import_ne still references
    Late,           \* episodes that a catalog update may add
    Facts,          \* the history that users make or take back
    History,        \* the history there may be at first, a set of sets of facts
    Limited,        \* whether runs may have a limit
    MinIngested,    \* the floor of ingested shows
    SeasonBatch,    \* seasons a transaction
    MaxRequests     \* bound: requests of users

Entries == (UNION Catalogs) \cup Late
Ids(records) == {r.id : r \in records}
Mirrored(records) == {r \in records : r.ingested}
FactKinds == {"watch", "rating"}
EpisodeRows == [id : Ids(Entries), show : Ids(Shows), season : Int, number : Int,
                title : {e.title : e \in Entries}, date : {e.date : e \in Entries},
                ingested : BOOLEAN, home : Ids(Seasons) \cup {NoSeason}]

\* Keys are keys, and rows of app name an episode or a show: their ids are told
\* apart here.  What the catalog update adds is ingested, and so are the show
\* and the season that it adds it to.
ASSUME OrphanAssumption ==
    /\ SeasonBatch \in Nat \ {0} /\ MinIngested \in Nat /\ MaxRequests \in Nat
    /\ Limited \in BOOLEAN
    /\ \A s \in Shows : s.id \in Nat \ {0}
    /\ \A rows \in {Shows, Seasons} \cup Catalogs : \A r, q \in rows : r.id = q.id => r = q
    /\ Ids(Entries) \cap Ids(Shows) = {}
    /\ Entries \subseteq EpisodeRows
    /\ \A e \in Late : /\ e.ingested /\ e.show \in Ids(Mirrored(Shows))
                       /\ e.home \in Ids(Mirrored(Seasons)) \cup {NoSeason}
    /\ (UNION History) \cup Facts \subseteq FactKinds \X Users \X Ids(Entries \cup Shows)

VARIABLES
    episodes,   \* catalog.episode
    seasons,    \* catalog.season
    shows,      \* catalog.show
    rows,       \* the committed rows of app: <<table, user, id of the target>>
    txn,        \* what the pass has done and not committed
    pass,       \* the run of the pass
    fresh,      \* facts that requests changed since the transaction began
    report,     \* the losses the report lists, if nothing else has changed since
    asked       \* requests so far

vars == <<episodes, seasons, shows, rows, txn, pass, fresh, report, asked>>
catalog == <<episodes, seasons, shows>>

-----------------------------------------------------------------------------
(* Rows                                                                    *)

\* A watch of a show is its place in the user's list.
EventOf(f) == <<[watch |-> "watched", rating |-> "rated"][f[1]], f[2], f[3]>>
Recorded(facts) == facts \cup {EventOf(f) : f \in facts}

On(targets, view) == {r \in view : r[3] \in targets}
FactsOn(targets, view) == {r \in On(targets, view) : r[1] \in FactKinds}

Orphaned(records) == {r \in records : ~r.ingested}
OrphansOf(s) == {e \in episodes : e.show = s /\ ~e.ingested}
IngestedOf(s) == {e \in episodes : e.show = s /\ e.ingested}
OrphanShows == Ids(Orphaned(shows))

-----------------------------------------------------------------------------
(* The planner, which the report and the pass share                        *)

Siblings(s) == {r.id : r \in {x \in shows : /\ x.ingested /\ x.id # s.id
                                            /\ x.name = s.name /\ x.name # Blank}}

\* cache: what the run has read of ingested shows, which it reads once.
Cached(cache, s) == IF s \in DOMAIN cache THEN cache[s] ELSE IngestedOf(s)

\* _assert_ingest_ran, and what lets the report search for titles.
IngestRan == Cardinality({s \in shows : s.ingested}) >= MinIngested

PlanLink(s, cache) ==
    LET siblings == Siblings(s) IN
    IF siblings # {}
    THEN ResolveLink(OrphansOf(s.id), siblings,
                     [x \in siblings |-> Cached(cache, x)])
    ELSE IF ~s.ingested /\ OrphansOf(s.id) # {} /\ IngestRan
    THEN LinkByTitles(s.id, OrphansOf(s.id), {e \in episodes : e.ingested})
    ELSE NoLink

Linked(link, cache) == IF link = NoLink THEN {} ELSE Cached(cache, link.to)

\* Reading is caching: the siblings, and the show the link leads to.
ReadBy(s, link) == Siblings(s) \cup (IF link = NoLink THEN {} ELSE {link.to})
PlanMatches(s, link, cache) ==
    Matches(OrphansOf(s.id), IngestedOf(s.id), link, Linked(link, cache))

\* Mutant: only matched shows are visited.
WorkShowsMatched == {s.id : s \in {x \in shows : x.ingested /\ OrphansOf(x.id) # {}}}

\* _work_shows: those with an orphan episode, and orphans themselves.
WorkShows == {s.id : s \in {x \in shows : ~x.ingested \/ OrphansOf(x.id) # {}}}

-----------------------------------------------------------------------------
(* The report                                                              *)

Landed(f, survivor) == [f EXCEPT ![3] = survivor]
Survivors(pairs, id) == {p[2] : p \in {q \in pairs : q[1] = id}}
IdPairs(matches) == {<<p[1].id, p[2].id>> : p \in matches}

\* What would not move: rows on an id without a survivor, and those whose place
\* on it is taken.
Unmoved(targets, pairs) ==
    {f \in FactsOn(targets, rows) :
        \A t \in Survivors(pairs, f[3]) : Landed(f, t) \in rows}

EpisodeLosses(s) ==
    LET link == PlanLink(s, <<>>)
    IN Unmoved(Ids(OrphansOf(s.id)), IdPairs(PlanMatches(s, link, <<>>)))

ShowLinks == {<<s.id, PlanLink(s, <<>>)>> : s \in {x \in shows : ~x.ingested}}
LinkPairs(links) == {<<p[1], p[2].to>> : p \in {q \in links : q[2] # NoLink}}

\* Mutant: the losses of shows are not listed.
LossesOfEpisodes == UNION {EpisodeLosses(s) : s \in {x \in shows : x.id \in WorkShows}}

Losses == (UNION {EpisodeLosses(s) : s \in {x \in shows : x.id \in WorkShows}})
          \cup Unmoved(OrphanShows, LinkPairs(ShowLinks))

NoReport == [made |-> FALSE, losses |-> {}, resumed |-> FALSE]

Report ==
    /\ pass.at = "idle" /\ ~report.made
    /\ report' = [made |-> TRUE, losses |-> Losses, resumed |-> FALSE]
    /\ UNCHANGED <<catalog, rows, txn, pass, fresh, asked>>

-----------------------------------------------------------------------------
(* A run: its shows in the order of their ids                              *)

NoTxn == [del |-> {}, add |-> {}, lost |-> {}]
View == (rows \ txn.del) \cup txn.add

NoPass == [at |-> "idle", limited |-> FALSE, work |-> {}, links |-> {},
           cache |-> <<>>, consumed |-> FALSE, show |-> 0, pairs |-> {},
           doomed |-> {}]

Start ==
    /\ pass.at = "idle" /\ IngestRan
    /\ \E limited \in {FALSE, Limited} :
        pass' = [NoPass EXCEPT !.at = "next", !.limited = limited, !.work = WorkShows]
    /\ UNCHANGED <<catalog, rows, txn, fresh, report, asked>>

\* build_show_plan for the next show.  A show without orphans has no
\* transaction, but its link counts.
Plan ==
    /\ pass.at = "next"
    /\ \E s \in shows :
        LET link == PlanLink(s, pass.cache)
            matches == PlanMatches(s, link, pass.cache)
            orphans == OrphansOf(s.id)
        IN /\ s.id \in pass.work /\ \A id \in pass.work : s.id <= id
           /\ pass' = [pass EXCEPT
                !.at = IF orphans = {} THEN "next" ELSE "watch",
                !.work = @ \ {s.id}, !.show = s.id,
                !.links = @ \cup LinkPairs({<<s.id, link>>}),
                !.cache = [x \in DOMAIN @ \cup ReadBy(s, link) |-> Cached(@, x)],
                !.consumed = @ \/ orphans # {},
                !.pairs = IdPairs(matches), !.doomed = Ids(orphans)]
    /\ UNCHANGED <<catalog, rows, txn, fresh, report, asked>>

\* Some limit stops the run between any two shows once it has consumed one.
\* With a limit, the later phases are skipped however the loop ends.
StopAtLimit ==
    /\ pass.at = "next" /\ pass.limited
    /\ pass.consumed \/ pass.work = {}
    /\ pass' = NoPass
    /\ report' = [report EXCEPT !.resumed = report.made]
    /\ UNCHANGED <<catalog, rows, txn, fresh, asked>>

\* Any error, a batch that does not add up, the death of the job.
Abort ==
    /\ pass.at # "idle"
    /\ pass' = NoPass
    /\ txn' = NoTxn /\ fresh' = {}
    /\ report' = [report EXCEPT !.resumed = report.made]
    /\ UNCHANGED <<catalog, rows, asked>>

-----------------------------------------------------------------------------
(* The transaction of a show's episodes, and that of the orphan shows      *)

OfShows == pass.show = 0
Tables == [watch |-> {"watch"}, rating |-> {"rating"}, event |-> {"watched", "rated"},
           clear_watch |-> {"watch"}, clear_rating |-> {"rating"},
           clear_event |-> {"watched", "rated"}]
After == [watch |-> "rating", rating |-> "event", event |-> "middle",
          middle |-> "clear_watch", clear_watch |-> "clear_rating",
          clear_rating |-> "clear_event", clear_event |-> "delete"]
Step(stage) == pass.at = stage /\ pass' = [pass EXCEPT !.at = After[stage]]

\* Rows on a doomed id whose place on its survivor is free.
Movable(stage) ==
    {r \in View : /\ r[1] \in Tables[stage]
                  /\ \E t \in Survivors(pass.pairs, r[3]) : Landed(r, t) \notin View}
Landing(r) == Landed(r, CHOOSE t \in Survivors(pass.pairs, r[3]) : TRUE)

\* Two rows for one place violate its unique key, and the statement fails.
Move(stage) ==
    /\ Step(stage)
    /\ LET moving == Movable(stage) IN
        /\ \A r, q \in moving : Landing(r) = Landing(q) => r = q
        /\ txn' = [txn EXCEPT !.del = @ \cup moving,
                              !.add = @ \cup {Landing(r) : r \in moving}]
    /\ UNCHANGED <<catalog, rows, fresh, report, asked>>

\* Mutant: only watches make a user follow the show.
TrackingWatches ==
    {<<"watch", p[1][2], p[2].show>> : p \in
        {q \in txn.add \X episodes : /\ q[1][1] = "watch" /\ q[1][3] = q[2].id
                                     /\ q[2].show # pass.show}}

\* Who had history moved into another show follows that show from now on.
Tracking ==
    {<<"watch", p[1][2], p[2].show>> : p \in
        {q \in txn.add \X episodes : /\ q[1][1] \in FactKinds /\ q[1][3] = q[2].id
                                     /\ q[2].show # pass.show}}

Track ==
    /\ ~OfShows /\ Step("middle")
    /\ txn' = [txn EXCEPT !.add = @ \cup (Tracking \ View)]
    /\ UNCHANGED <<catalog, rows, fresh, report, asked>>

\* Mutant: a show is not asked for what it still holds.
BlockedStaged == pass.doomed \cap Staged

\* Orphan shows that still have rows below them, or an import record.
BlockedShows == {s \in pass.doomed : \/ s \in Staged
                                     \/ \E r \in episodes \cup seasons : r.show = s}

LeaveBlocked ==
    /\ OfShows /\ pass.at = "middle"
    /\ pass' = [pass EXCEPT !.at = After["middle"], !.doomed = @ \ BlockedShows]
    /\ UNCHANGED <<catalog, rows, txn, fresh, report, asked>>

\* What has not moved is deleted.
Clear(stage) ==
    /\ Step(stage)
    /\ LET left == {r \in On(pass.doomed, View) : r[1] \in Tables[stage]} IN
       txn' = [txn EXCEPT !.del = @ \cup left, !.lost = @ \cup left]
    /\ UNCHANGED <<catalog, rows, fresh, report, asked>>

Deleted(records) == {r \in records : r.id \in pass.doomed /\ ~r.ingested}

Below(records) == {r \in records : r.show \in pass.doomed}

\* The deletion, guarded by EPISODE_STILL_REFERENCED, has to reach every row.
\* That of a show takes what is below it.
Retire ==
    /\ pass.at = "delete"
    /\ On(pass.doomed, View) = {}
    /\ IF OfShows
       THEN /\ shows' = shows \ Deleted(shows)
            /\ episodes' = episodes \ Below(episodes)
            /\ seasons' = seasons \ Below(seasons)
       ELSE episodes' = episodes \ Deleted(episodes) /\ UNCHANGED <<shows, seasons>>
    /\ rows' = View
    /\ txn' = NoTxn /\ fresh' = {}
    /\ pass' = IF OfShows THEN NoPass
               ELSE [pass EXCEPT !.at = "next", !.pairs = {}, !.doomed = {}]
    /\ UNCHANGED <<report, asked>>

-----------------------------------------------------------------------------
(* The seasons and the shows, once every show is done                      *)

StartSeasons ==
    /\ pass.at = "next" /\ pass.work = {} /\ ~pass.limited
    /\ pass' = [pass EXCEPT !.at = "seasons", !.doomed = Ids(Orphaned(seasons))]
    /\ UNCHANGED <<catalog, rows, txn, fresh, report, asked>>

\* The one ingested season of the same number; ON DELETE SET NULL otherwise.
Heir(e) ==
    LET old == CHOOSE s \in seasons : s.id = e.home
        heirs == {s.id : s \in {x \in seasons : /\ x.ingested /\ x.show = old.show
                                                /\ x.number = old.number}}
    IN IF \E h \in heirs : heirs = {h} THEN CHOOSE h \in heirs : TRUE ELSE NoSeason

\* A batch: its episodes move to their heirs, and it is deleted.
RetireSeasons ==
    /\ pass.at = "seasons"
    /\ \E batch \in SUBSET pass.doomed :
        /\ batch # {} /\ Cardinality(batch) <= SeasonBatch
        /\ \A s \in batch, t \in pass.doomed \ batch : s < t
        /\ Cardinality(batch) = SeasonBatch \/ batch = pass.doomed
        /\ episodes' = {IF e.home \in batch THEN [e EXCEPT !.home = Heir(e)] ELSE e :
                            e \in episodes}
        /\ seasons' = {s \in seasons : s.id \notin batch}
        /\ pass' = [pass EXCEPT !.doomed = @ \ batch]
    /\ UNCHANGED <<shows, rows, txn, fresh, report, asked>>

\* Orphan shows, with the links of this run.
StartShows ==
    /\ pass.at = "seasons" /\ pass.doomed = {}
    /\ pass' = IF OrphanShows = {} THEN NoPass
               ELSE [pass EXCEPT !.at = "watch", !.show = 0, !.doomed = OrphanShows,
                                 !.pairs = {p \in pass.links : p[1] \in OrphanShows}]
    /\ UNCHANGED <<catalog, rows, txn, fresh, report, asked>>

-----------------------------------------------------------------------------
(* Users, and the catalog update                                           *)

InTransaction == pass.at \notin {"idle", "next", "seasons"}
Changed(f) ==
    /\ asked < MaxRequests /\ asked' = asked + 1
    /\ {f, EventOf(f)} \cap (txn.del \cup txn.add) = {}
    /\ fresh' = IF InTransaction THEN fresh \cup {f} ELSE {}
    /\ report' = NoReport

Put(f) ==
    /\ Changed(f)
    /\ f[3] \in Ids(episodes) \cup Ids(shows)
    /\ rows' = rows \cup Recorded({f})
    /\ UNCHANGED <<catalog, txn, pass>>

Drop(f) ==
    /\ Changed(f)
    /\ rows' = rows \ Recorded({f})
    /\ UNCHANGED <<catalog, txn, pass>>

Ingest(e) ==
    /\ e.id \notin Ids(episodes)
    /\ episodes' = episodes \cup {e}
    /\ report' = NoReport
    /\ UNCHANGED <<seasons, shows, rows, txn, pass, fresh, asked>>

-----------------------------------------------------------------------------

Init ==
    /\ episodes \in Catalogs
    /\ seasons = Seasons /\ shows = Shows
    /\ \E facts \in History : rows = Recorded(facts)
    /\ txn = NoTxn /\ pass = NoPass /\ fresh = {}
    /\ report = NoReport /\ asked = 0

PassNext ==
    \/ Start \/ Plan \/ StopAtLimit \/ Abort
    \/ \E stage \in {"watch", "rating", "event"} : Move(stage)
    \/ Track \/ LeaveBlocked
    \/ \E stage \in {"clear_watch", "clear_rating", "clear_event"} : Clear(stage)
    \/ Retire \/ StartSeasons \/ RetireSeasons \/ StartShows

Next == \/ Report \/ PassNext
        \/ \E f \in Facts : Put(f) \/ Drop(f)
        \/ \E e \in Late : Ingest(e)

Spec == Init /\ [][Next]_vars

-----------------------------------------------------------------------------
(* Properties                                                              *)

Stages == {"idle", "next", "seasons", "delete"} \cup DOMAIN After
AllIds == Ids(Entries \cup Shows \cup Seasons)
AllRows == {"watch", "rating", "watched", "rated"} \X Users \X AllIds

PassRows(cache) ==
    [at : Stages, limited : BOOLEAN, work : SUBSET Ids(Shows),
     links : SUBSET (Ids(Shows) \X Ids(Shows)), cache : {cache}, consumed : BOOLEAN,
     show : Ids(Shows) \cup {0}, pairs : SUBSET (AllIds \X AllIds), doomed : SUBSET AllIds]
TxnRows == [del : SUBSET AllRows, add : SUBSET AllRows, lost : SUBSET AllRows]
Reports == [made : BOOLEAN, losses : SUBSET AllRows, resumed : BOOLEAN]

\* Tables and the pass keep their shape; an id is one row; the pass has changes
\* in hand only in a transaction; and no two orphans of a show have one twin.
TypeOK ==
    /\ episodes \subseteq EpisodeRows /\ \A e, f \in episodes : e.id = f.id => e = f
    /\ seasons \subseteq Seasons /\ shows \subseteq Shows
    /\ rows \subseteq AllRows
    /\ txn \in TxnRows
    /\ txn.lost \subseteq txn.del
    /\ InTransaction \/ txn = NoTxn
    /\ pass \in PassRows(pass.cache)
    /\ \A s \in DOMAIN pass.cache : s \in Ids(Shows) /\ pass.cache[s] \subseteq EpisodeRows
    /\ OfShows \/ \A p, q \in pass.pairs : p[2] = q[2] => p = q
    /\ fresh \subseteq Facts
    /\ report \in Reports
    /\ asked \in 0 .. MaxRequests

\* Where a row of a doomed id should be: on its survivor; or, where that is an
\* orphan whose rows move on as well, where they go.
Rests(f, pairs, kept) ==
    \E t \in Survivors(pairs, f[3]) :
        \/ Landed(f, t) \in kept
        \/ \E u \in Survivors(pairs, t) : Landed(f, u) \in kept

\* No history that has somewhere to go is lost, for an episode or for a show:
\* when an orphan with a twin is deleted, each user's row is on the twin, and
\* whose row has moved into another show follows that show.  A request in the
\* middle of the transaction is let off: what it puts on the orphan after the
\* move is deleted with it.
KeepsHistory ==
    [][Retire =>
        \A p \in pass.pairs : \A f \in FactsOn({p[1]}, rows) :
            LET home == Landed(f, p[2])
                follows == {<<"watch", f[2], e.show>> :
                               e \in {x \in episodes : x.id = p[2] /\ x.show # pass.show}}
            IN /\ {f, home} \cap fresh = {} => Rests(f, pass.pairs, rows')
               /\ home \in txn.add /\ follows \cap fresh = {} => follows \subseteq rows']_vars

\* The pass takes nothing that was ingested, nor anyone's history on it: the
\* deletion of a show or a season would take what hangs below it.  An ingested
\* episode is without a season only if no single one of its number is left.
IngestedStays ==
    [][asked' = asked =>
        /\ {r \in shows \cup seasons : r.ingested} \subseteq shows' \cup seasons'
        /\ \A e \in episodes : e.ingested =>
            \E x \in episodes' :
                /\ x = [e EXCEPT !.home = x.home]
                /\ \/ x.home \in Ids(seasons')
                   \/ x.home = NoSeason /\ (e.home = NoSeason \/ Heir(e) = NoSeason)
        /\ FactsOn(Ids({r \in episodes \cup shows : r.ingested}), rows) \subseteq rows']_vars

\* A run without a limit that comes to its end has emptied the catalog of
\* orphans, but for the shows it must leave.
FullPassEmpties ==
    [][/\ StartShows => Orphaned(episodes) = {} /\ Orphaned(seasons) = {}
       /\ OfShows /\ Retire => \A s \in Orphaned(shows') :
                                   \/ s.id \in Staged
                                   \/ \E r \in episodes \cup seasons : r.show = s.id]_vars

\* What the pass deletes and the report did not list, the user has on the
\* survivor.
ForetoldLosses ==
    \A f \in FactsOn(AllIds, txn.lost) :
        \/ f \in report.losses
        \/ Rests(f, pass.pairs, rows')

\* As long as nothing else has changed anything since the report was made, and
\* no run has ended early, the losses of the pass are those it listed.
ReportForetells == [][Retire /\ report.made /\ ~report.resumed => ForetoldLosses]_vars

\* retire_orphans calls itself idempotent and resumable: that a run ended early,
\* or had a limit, would then change nothing in what is lost.
ResumeForetells == [][Retire /\ report.made => ForetoldLosses]_vars

=============================================================================
