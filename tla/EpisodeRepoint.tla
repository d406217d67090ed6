--------------------------- MODULE EpisodeRepoint ---------------------------
(***************************************************************************)
(* The pass that moves users' history off copied episodes and onto the     *)
(* ingested rows of the same number, then deletes the copies, a batch per  *)
(* transaction, while users go on marking (tmdb/episode_repoint.py and the *)
(* statements of tmdb/user_history.py).                                    *)
(*                                                                         *)
(* A batch is six statements: the work list with the people it must leave  *)
(* alone, the three tables one after the other, the deletion, and the      *)
(* count that has to account for every episode.  Each reads afresh what    *)
(* requests have committed since the one before.                           *)
(***************************************************************************)
EXTENDS ViewingHistory

CONSTANT BatchSize

ASSUME RepointAssumption == BatchSize \in Nat \ {0}

\* A copy and its ingested row are specials, or unaired, together: a special by
\* the number they share, unaired by dates that are taken to be one.
ASSUME TwinsAlike ==
    \A e \in Episodes :
        /\ TwinOf[e] \in Specials <=> e \in Specials
        /\ TwinOf[e] \in Unaired <=> e \in Unaired

VARIABLE pass

vars == <<historyVars, pass>>

Copies == {e \in Episodes : TwinOf[e] # e}
Stages == {"idle", "next", "watch", "rating", "event", "retire", "count"}

\* batch: the copies in hand, withheld: the people whose rows on one stay.
\* moving, retiring: what a statement that waits has found.  done: the copies
\* the cursor has passed.
PassState ==
    [at : Stages, batch : SUBSET Copies, withheld : SUBSET (Users \X Copies),
     waits : BOOLEAN, moving : SUBSET Rows, retiring : SUBSET Copies,
     done : SUBSET Copies]
NoPass == [at |-> "idle", batch |-> {}, withheld |-> {}, waits |-> FALSE,
           moving |-> {}, retiring |-> {}, done |-> {}]

Init == HistoryInit /\ pass = NoPass

-----------------------------------------------------------------------------

\* A row as it reads on the ingested episode.
Moved(r) == [r EXCEPT ![3] = TwinOf[r[3]]]
EpisodeRows == {r \in Rows : r[3] \in Episodes}
On(c, rows) == {r \in rows \cap EpisodeRows : r[3] = c}

\* Copies with one ingested row and no second copy on their number.
Candidates ==
    {c \in Copies \cap episodes :
        /\ TwinOf[c] \in episodes
        /\ \A d \in Copies \cap episodes : TwinOf[d] = TwinOf[c] => d = c}

\* Mutant: only watches are compared.
CollidingWatches(batch) ==
    {<<r[2], r[3]>> : r \in {x \in db \cap EpisodeRows :
        x[1] = "watch" /\ x[3] \in batch /\ Moved(x) \in db}}

\* _COLLIDING: who has, of one table, a row on both.
Colliding(batch) ==
    {<<r[2], r[3]>> : r \in {x \in db \cap EpisodeRows :
                                x[3] \in batch /\ Moved(x) \in db}}

Start ==
    /\ pass.at = "idle"
    /\ pass' = [NoPass EXCEPT !.at = "next"]
    /\ UNCHANGED historyVars

\* The next batch after the cursor, if there is one; its transaction begins.
\* What requests in flight have in hand of the same episodes is crossed.
Select ==
    /\ pass.at = "next"
    /\ \E batch \in SUBSET (Candidates \ pass.done) :
        LET homes == {TwinOf[c] : c \in batch}
            names == {f \in EpisodeFacts : f[3] \in homes}
        IN /\ batch # {} /\ Cardinality(batch) <= BatchSize
           /\ pass' = [pass EXCEPT !.at = "watch", !.batch = batch,
                                   !.withheld = Colliding(batch)]
           /\ txn' = [txn EXCEPT ![Pass].names = names, ![Pass].undoes = TRUE]
           /\ crossed' = crossed \cup Crossing(names, TRUE)
    /\ UNCHANGED <<episodes, db, unmade>>

Finish ==
    /\ pass.at = "next"
    /\ Candidates \subseteq pass.done
    /\ pass' = NoPass
    /\ UNCHANGED historyVars

-----------------------------------------------------------------------------
(* The three UPDATEs                                                       *)

\* Mutant: the ledger's ratings are forgotten.
TableOfWatches == [watch |-> {"watch"}, rating |-> {"rating"},
                   event |-> {"watched_episode"}]

TableOf == [watch |-> {"watch"}, rating |-> {"rating"},
            event |-> {"watched_episode", "rated"}]
After == [watch |-> "rating", rating |-> "event", event |-> "retire"]

\* The rows of a table on the batch, of nobody withheld, whose place on the
\* ingested episode is free.
Movable ==
    {r \in View(Pass) \cap EpisodeRows :
        /\ r[1] \in TableOf[pass.at] /\ r[3] \in pass.batch
        /\ <<r[2], r[3]>> \notin pass.withheld
        /\ Moved(r) \notin View(Pass)}

Moving == IF pass.waits THEN pass.moving ELSE Movable
MoveBlocked == (Moving \cup {Moved(r) : r \in Moving}) \cap Locked(Pass) # {}

MoveWaits ==
    /\ pass.at \in DOMAIN TableOf /\ ~pass.waits /\ MoveBlocked
    /\ pass' = [pass EXCEPT !.waits = TRUE, !.moving = Movable]
    /\ UNCHANGED historyVars

\* A row that went while the statement waited is passed over; a place that was
\* taken meanwhile violates the unique key, and the statement fails.
Move ==
    /\ pass.at \in DOMAIN TableOf /\ ~MoveBlocked
    /\ LET rows == Moving \cap db
           homes == {Moved(r) : r \in rows}
       IN /\ homes \cap View(Pass) = {}
          /\ txn' = [txn EXCEPT ![Pass].del = @ \cup rows,
                                ![Pass].add = @ \cup homes]
    /\ pass' = [pass EXCEPT !.at = After[@], !.waits = FALSE, !.moving = {}]
    /\ UNCHANGED <<episodes, db, unmade, crossed>>

-----------------------------------------------------------------------------
(* The deletion                                                            *)

\* Mutant: what has no foreign key is not looked for.
ReferencedByKeys(c) == On(c, View(Pass) \cap FactRows) # {}

\* EPISODE_STILL_REFERENCED.
Referenced(c) == On(c, View(Pass)) # {}

\* Mutant: the deletion relies on the work list.
RetiringAll == IF pass.waits THEN pass.retiring ELSE pass.batch

Retiring == IF pass.waits THEN pass.retiring
            ELSE {c \in pass.batch : ~Referenced(c)}

\* ON DELETE CASCADE, which a row inserted since the statement began meets too;
\* the ledger has no foreign key.
Cascade == {r \in EpisodeFacts \cap db : r[3] \in Retiring}

\* A new row on an episode locks it until its transaction ends.
RetireBlocked ==
    \/ \E q \in Others(Pass) : \E c \in Retiring : On(c, txn[q].add \cap FactRows) # {}
    \/ Cascade \cap Locked(Pass) # {}

RetireWaits ==
    /\ pass.at = "retire" /\ ~pass.waits /\ RetireBlocked
    /\ pass' = [pass EXCEPT !.waits = TRUE, !.retiring = Retiring]
    /\ UNCHANGED historyVars

Retire ==
    /\ pass.at = "retire" /\ ~RetireBlocked
    /\ txn' = [txn EXCEPT ![Pass].drops = Retiring,
                          ![Pass].del = @ \cup (Cascade \cap View(Pass))]
    /\ pass' = [pass EXCEPT !.at = "count", !.waits = FALSE, !.retiring = {}]
    /\ UNCHANGED <<episodes, db, unmade, crossed>>

\* Deleted and still referenced must add up to the batch.
Accounted == \A c \in pass.batch \ txn[Pass].drops : Referenced(c)

RepointCommit ==
    /\ pass.at = "count" /\ Accounted
    /\ db' = View(Pass)
    /\ episodes' = episodes \ txn[Pass].drops
    /\ txn' = [txn EXCEPT ![Pass] = NoTransaction]
    /\ pass' = [NoPass EXCEPT !.at = "next", !.done = pass.done \cup pass.batch]
    /\ UNCHANGED <<unmade, crossed>>

\* EpisodeRepointAborted, any error, a deadlock, the death of the job.
Abort ==
    /\ pass.at # "idle"
    /\ pass' = NoPass
    /\ txn' = [txn EXCEPT ![Pass] = NoTransaction]
    /\ UNCHANGED <<episodes, db, unmade, crossed>>

-----------------------------------------------------------------------------

PassNext == \/ Start \/ Select \/ Finish \/ MoveWaits \/ Move
            \/ RetireWaits \/ Retire \/ RepointCommit \/ Abort

Next == \/ HistoryNext /\ UNCHANGED pass
        \/ PassNext

Spec == Init /\ [][Next]_vars

-----------------------------------------------------------------------------
(* Properties                                                              *)

\* Tables, transactions and the pass keep their shape; what a transaction
\* deletes stays there until it commits, what it inserts stays free, and the
\* pass has a transaction, and locks, only while a batch is in hand.
TypeOK ==
    /\ episodes \subseteq Episodes
    /\ db \subseteq Rows
    /\ txn \in [Processes -> Transaction]
    /\ unmade \subseteq Requests
    /\ crossed \subseteq FactRows
    /\ pass \in PassState
    /\ \A p \in Processes : txn[p].del \subseteq db /\ txn[p].add \cap db \subseteq txn[p].del
    /\ InFlight(Pass) <=> pass.at \notin {"idle", "next"}

\* What no show mark covers, though its collapse takes events that tell of it: the
\* unaired, and season 0, whose watched_season goes with the others.
Uncovered == (Specials \cup Unaired) \ CopiedSpecials

\* The events that tell of a watch: its own, the season's but for a copied
\* special, and the show's for an episode that a show mark covers.
Tellers(w) ==
    {EventOf(w)}
    \cup (IF w[3] \in CopiedSpecials THEN {} ELSE {WatchedSeason(w[2], SeasonOf[w[3]])})
    \cup (IF w[3] \in Specials \cup Unaired THEN {} ELSE {WatchedShow(w[2])})
Told(w) == Tellers(w) \cap db # {}

\* No collapse is wider than its mark: a watch keeps an event that tells of it,
\* unless an overlapping request took the same watch back
\* (delete_episode_and_season_events_for_show; the code breaks it).
WatchesTold ==
    \A w \in db \cap EpisodeFacts :
        w[1] = "watch" /\ Home(w) \notin crossed => Told(w)

\* A watch w that nothing told of already, before a step that has it, or has
\* moved it to the ingested episode.
WasSilent(w) ==
    IF w \in db THEN ~Told(w)
    ELSE RepointCommit /\ \E v \in db \cap EpisodeFacts : Moved(v) = w /\ ~Told(v)

\* Friends see what was watched: of all marks, bulk marks and their undoing, and
\* of all moves of the pass, in any overlap, only the commit of a show mark leaves
\* a watch with no event that tells of it, and only one of an episode it does not
\* cover; unless an overlapping request took the same watch back.
OnlyShowMarksSilence ==
    [][\A w \in db' \cap EpisodeFacts :
        w[1] = "watch" /\ Home(w) \notin crossed /\ ~Told(w)' =>
            \/ WasSilent(w)
            \/ /\ w[3] \in Uncovered
               /\ \E p \in Requests :
                    Commit(p) /\ WatchedShow(w[2]) \in txn[p].add \cup txn[p].hold]_vars

\* A rating or a membership and its event come and go together.
LedgerAgrees ==
    \A f \in FactRows : f[1] # "watch" /\ Home(f) \notin crossed
                        => (f \in db <=> EventOf(f) \in db)

\* No row is on an episode that is gone.  The keys see to it for watches and
\* ratings; the ledger has none, and relies on the guard of the deletion.
NoOrphans ==
    \A r \in db \cap EpisodeRows :
        \/ r[3] \in episodes
        \/ r \in EventRows
           /\ \E f \in EpisodeFacts : EventOf(f) = r /\ Home(f) \in crossed

\* A batch loses nobody's history: what was on a copy is still there, or on the
\* ingested episode.
BatchKeeps ==
    [][RepointCommit =>
        \A f \in db \cap EpisodeFacts :
            Home(f) \in crossed \/ f \in db' \/ Moved(f) \in db']_vars

\* All of one person's rows on a copy move together, or none of them do.
MovesWhole ==
    [][RepointCommit =>
        \A u \in Users, c \in pass.batch :
            \/ \E f \in EpisodeFacts : f[2] = u /\ f[3] = TwinOf[c] /\ f \in crossed
            \/ {r \in On(c, db) : r[2] = u} \subseteq db'
            \/ {r \in On(c, db) : r[2] = u} \cap db' = {}]_vars

=============================================================================
