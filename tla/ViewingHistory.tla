--------------------------- MODULE ViewingHistory ---------------------------
(***************************************************************************)
(* What a user has watched, rated and follows, and the ledger of it: the   *)
(* tables user_episode_watch, the ratings and user_show_watch, and         *)
(* app.activity_event, of which the feed and every aggregate over friends  *)
(* is a reading.                                                           *)
(*                                                                         *)
(* A request is one READ COMMITTED transaction of a few statements: one    *)
(* that changes the table, then those that bring the ledger along.  The    *)
(* two must move together, and nothing but row locks keeps two requests of *)
(* one user apart, so the module runs statement by statement.  A statement *)
(* sees what is committed and what its own transaction did; it waits for   *)
(* the transaction that holds a row it needs, and keeps to the rows it had *)
(* seen before it waited.                                                  *)
(*                                                                         *)
(* Rows are <<table or verb, user, target>>; there is one show.            *)
(***************************************************************************)
EXTENDS Naturals, Sequences, FiniteSets

CONSTANTS
    Users,
    Episodes,         \* the rows of catalog.episode
    Show,             \* the show they are episodes of
    SeasonOf,         \* the season of each episode
    Specials,         \* IS_SPECIAL: of season 0, or copied
    CopiedSpecials,   \* IS_COPIED_SPECIAL: a negative number in a season
    Unaired,          \* with no air date, or one to come
    TwinOf,           \* the ingested row of the same number, else itself
    Facts,            \* the watches, ratings and memberships requests name
    Requests,         \* requests, each made once
    Pass              \* the process of a migration pass

Seasons == {SeasonOf[e] : e \in Episodes}
EpisodeFacts == {"watch", "rating"} \X Users \X Episodes
ShowFacts == {"rating", "membership"} \X Users \X {Show}

ASSUME HistoryAssumption ==
    /\ Show \notin Episodes /\ Show \notin Seasons
    /\ Seasons \cap Episodes = {}
    /\ CopiedSpecials \subseteq Specials
    /\ Specials \subseteq Episodes /\ Unaired \subseteq Episodes
    /\ TwinOf \in [Episodes -> Episodes]
    /\ \A e \in Episodes : /\ TwinOf[TwinOf[e]] = TwinOf[e]
                           /\ SeasonOf[TwinOf[e]] = SeasonOf[e]
                           /\ TwinOf[e] \in CopiedSpecials <=> e \in CopiedSpecials
    /\ Facts \subseteq EpisodeFacts \cup ShowFacts
    /\ Pass \notin Requests

VARIABLES
    episodes,   \* the episodes that exist
    db,         \* the committed rows
    txn,        \* txn[p]: the transaction of p, if it is in one
    unmade,     \* requests not made yet
    crossed     \* facts that two transactions had in hand at once, one of
                \* them undoing or moving it

historyVars == <<episodes, db, txn, unmade, crossed>>

-----------------------------------------------------------------------------
(* Rows                                                                    *)

Watch(u, e) == <<"watch", u, e>>
Watched(u, e) == <<"watched_episode", u, e>>
WatchedSeason(u, s) == <<"watched_season", u, s>>
WatchedShow(u) == <<"watched_show", u, Show>>

\* The event that tells of a fact.
EventOf(f) ==
    <<[watch |-> "watched_episode", rating |-> "rated",
       membership |-> "added_show"][f[1]], f[2], f[3]>>

FactRows == EpisodeFacts \cup ShowFacts
EventRows == {EventOf(f) : f \in FactRows}
             \cup {WatchedSeason(u, s) : u \in Users, s \in Seasons}
             \cup {WatchedShow(u) : u \in Users}
Rows == FactRows \cup EventRows

\* The episode under whose number a fact is known, copy or ingested.
Home(f) == IF f[3] = Show THEN f ELSE [f EXCEPT ![3] = TwinOf[f[3]]]

-----------------------------------------------------------------------------
(* Transactions                                                            *)

Statement == [does : {"insert", "upsert", "delete", "collapse"},
              rows : SUBSET Rows]

\* left: the statements still to run.  waits: the first of them waits for a
\* lock.  add, del, hold, drops: rows inserted, deleted, updated in place, and
\* episodes deleted, all uncommitted and locked.  names, undoes: what it is
\* about, and whether it takes it back.
Transaction ==
    [left : Seq(Statement), waits : BOOLEAN, add : SUBSET Rows,
     del : SUBSET Rows, hold : SUBSET Rows, drops : SUBSET Episodes,
     names : SUBSET FactRows, undoes : BOOLEAN]
NoTransaction ==
    [left |-> <<>>, waits |-> FALSE, add |-> {}, del |-> {}, hold |-> {},
     drops |-> {}, names |-> {}, undoes |-> FALSE]

Processes == Requests \cup {Pass}
Others(p) == Processes \ {p}
InFlight(p) == txn[p] # NoTransaction

\* What p sees, and what it would have to wait for.
View(p) == (db \ txn[p].del) \cup txn[p].add
Locked(p) == UNION {txn[q].add \cup txn[q].del \cup txn[q].hold : q \in Others(p)}
Dropping(p) == UNION {txn[q].drops : q \in Others(p)}

\* The rows a statement is about: those it inserts, or those its WHERE matches.
\* The events of a collapse are those of episodes that a subquery finds.
Matched(p, st) ==
    CASE st.does \in {"insert", "upsert"} -> st.rows
      [] st.does = "delete" -> st.rows \cap View(p)
      [] OTHER -> {r \in st.rows \cap View(p) :
                       r[3] \in episodes}

\* The foreign key of a new row: the episode it is on.
Parents(p, st) ==
    IF st.does \in {"insert", "upsert"}
    THEN {r[3] : r \in (st.rows \ View(p)) \cap EpisodeFacts} ELSE {}

Blocked(p, st) == \/ Matched(p, st) \cap Locked(p) # {}
                  \/ Parents(p, st) \cap Dropping(p) # {}

\* What two transactions in flight are both about, when one takes it back.
Crossing(names, undoes) ==
    UNION {names \cap txn[q].names : q \in {r \in Processes : undoes \/ txn[r].undoes}}

Begin(p, program, facts, undoes) ==
    LET names == {Home(f) : f \in facts} IN
    /\ p \in unmade
    /\ unmade' = unmade \ {p}
    /\ txn' = [txn EXCEPT ![p].left = program, ![p].names = names,
                          ![p].undoes = undoes]
    /\ crossed' = crossed \cup Crossing(names, undoes)
    /\ UNCHANGED <<episodes, db>>

Insert(rows) == [does |-> "insert", rows |-> rows]
Upsert(row) == [does |-> "upsert", rows |-> {row}]
Delete(rows) == [does |-> "delete", rows |-> rows]
Collapse(rows) == [does |-> "collapse", rows |-> rows]

-----------------------------------------------------------------------------
(* Requests.  Each begins with the SELECT that finds its episodes.         *)

\* mark_episode, add, set_show_rating, set_episode_rating: a watch or a
\* membership that is there stays, a rating is overwritten.
Put(p, f) ==
    /\ f[3] \in episodes \cup {Show}
    /\ Begin(p, <<IF f[1] = "rating" THEN Upsert(f) ELSE Insert({f}),
                  Upsert(EventOf(f))>>, {f}, FALSE)

\* unmark_episode, remove, clear_show_rating, clear_episode_rating.
Drop(p, f) ==
    Begin(p, <<Delete({f}), Delete({EventOf(f)})>>, {f}, TRUE)

InSeason(s) == {e \in episodes : SeasonOf[e] = s}
Watches(u, es) == {Watch(u, e) : e \in es}
WatchedEach(u, es) == {Watched(u, e) : e \in es}

\* Mutant: the collapse takes the events of copied specials too.
MarkSeasonWide(p, u, s) ==
    LET marked == InSeason(s) \ CopiedSpecials IN
    /\ marked # {}
    /\ Begin(p, <<Insert(Watches(u, marked)),
                  Collapse(WatchedEach(u, InSeason(s))),
                  Upsert(WatchedSeason(u, s))>>, Watches(u, marked), FALSE)

\* The season's episodes but the copied specials, and those events with them.
MarkSeason(p, u, s) ==
    LET marked == InSeason(s) \ CopiedSpecials IN
    /\ marked # {}
    /\ Begin(p, <<Insert(Watches(u, marked)),
                  Collapse(WatchedEach(u, marked)),
                  Upsert(WatchedSeason(u, s))>>, Watches(u, marked), FALSE)

\* All the season's episodes, and the season's event.
UnmarkSeason(p, u, s) ==
    Begin(p, <<Delete(Watches(u, InSeason(s))),
               Delete({WatchedSeason(u, s)})>>, Watches(u, InSeason(s)), TRUE)

\* The aired regular episodes.  The collapse takes the events of every season,
\* and of every regular episode, aired or not.
MarkShow(p, u) ==
    LET marked == episodes \ (Specials \cup Unaired) IN
    /\ marked # {}
    /\ Begin(p, <<Insert(Watches(u, marked)),
                  Delete({WatchedSeason(u, s) : s \in Seasons}),
                  Collapse(WatchedEach(u, episodes \ Specials)),
                  Upsert(WatchedShow(u))>>, Watches(u, marked), FALSE)

UnmarkShow(p, u) ==
    Begin(p, <<Delete(Watches(u, episodes)),
               Delete({WatchedShow(u)})>>, Watches(u, episodes), TRUE)

-----------------------------------------------------------------------------
(* Statements                                                              *)

\* A row the statement needs is locked: it keeps to the rows it has found.
Wait(p) ==
    /\ txn[p].left # <<>> /\ ~txn[p].waits
    /\ Blocked(p, Head(txn[p].left))
    /\ LET st == Head(txn[p].left)
           found == [does |-> IF st.does = "collapse" THEN "delete" ELSE st.does,
                     rows |-> Matched(p, st)]
       IN txn' = [txn EXCEPT ![p].left = <<found>> \o Tail(@), ![p].waits = TRUE]
    /\ UNCHANGED <<episodes, db, unmade, crossed>>

\* Nothing locks a row it needs, and its new rows have their episodes.
Execute(p) ==
    /\ txn[p].left # <<>>
    /\ LET st == Head(txn[p].left)
           rows == Matched(p, st)
           t == [txn[p] EXCEPT !.left = Tail(@), !.waits = FALSE]
       IN /\ ~Blocked(p, st)
          /\ Parents(p, st) \subseteq episodes
          /\ txn' = [txn EXCEPT ![p] =
               CASE st.does = "insert" -> [t EXCEPT !.add = @ \cup (rows \ View(p))]
                 [] st.does = "upsert" -> [t EXCEPT !.add = @ \cup (rows \ View(p)),
                                                    !.hold = @ \cup (rows \cap db)]
                 [] OTHER -> [t EXCEPT !.del = @ \cup rows]]
    /\ UNCHANGED <<episodes, db, unmade, crossed>>

Commit(p) ==
    /\ InFlight(p) /\ txn[p].left = <<>>
    /\ db' = View(p)
    /\ txn' = [txn EXCEPT ![p] = NoTransaction]
    /\ UNCHANGED <<episodes, unmade, crossed>>

\* An error, a missing episode, a lost connection, the victim of a deadlock.
Rollback(p) ==
    /\ InFlight(p)
    /\ txn' = [txn EXCEPT ![p] = NoTransaction]
    /\ UNCHANGED <<episodes, db, unmade, crossed>>

-----------------------------------------------------------------------------

\* Any history of season marks, then single marks, ratings and follows.
HistoryInit ==
    /\ episodes = Episodes
    /\ \E past \in SUBSET Facts, full \in SUBSET (Users \X Seasons) :
        db = past \cup {EventOf(f) : f \in past}
             \cup {w \in FactRows : /\ w[1] = "watch" /\ w[3] \notin CopiedSpecials
                                    /\ <<w[2], SeasonOf[w[3]]>> \in full}
             \cup {WatchedSeason(us[1], us[2]) : us \in full}
    /\ txn = [p \in Processes |-> NoTransaction]
    /\ unmade = Requests
    /\ crossed = {}

Request(p) ==
    \/ \E f \in Facts : Put(p, f) \/ Drop(p, f)
    \/ \E u \in Users, s \in Seasons : MarkSeason(p, u, s) \/ UnmarkSeason(p, u, s)
    \/ \E u \in Users : MarkShow(p, u) \/ UnmarkShow(p, u)
    \/ Wait(p) \/ Execute(p) \/ Commit(p) \/ Rollback(p)

HistoryNext == \E p \in Requests : Request(p)

=============================================================================
