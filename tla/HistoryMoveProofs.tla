-------------------------- MODULE HistoryMoveProofs -------------------------
(***************************************************************************)
(* The repoint moves users' history from one episode to another while they *)
(* go on marking (EpisodeRepoint): whoever does what meanwhile, nobody     *)
(* loses a watch or a rating, no row is left on an episode that is gone,   *)
(* a person's rows move together, and the ledger tells of what there is,   *)
(* but for a watch that a show mark, and nothing else, leaves untold.      *)
(*                                                                         *)
(* Why the repoint is safe: row locks keep what two transactions have      *)
(* written apart; only the pass deletes episodes; and whoever touches rows *)
(* on a number while the pass has it in hand, is recorded as having        *)
(* crossed it.  What is not crossed, the pass moves or finds in the way    *)
(* until it commits.                                                       *)
(*                                                                         *)
(* Why the ledger keeps step: a request that puts a row, or takes an event *)
(* away, holds an event that tells of the row until it commits, or is      *)
(* about to write one; one that takes a row back takes the event with it;  *)
(* and nobody else can undo either without having crossed it.              *)
(***************************************************************************)
EXTENDS EpisodeRepoint, TLAPS

Kinds == {"watch", "rating", "watched_episode", "rated"}
FactKind == [watch |-> "watch", rating |-> "rating",
             watched_episode |-> "watch", rated |-> "rating"]

\* The fact that a row on an episode is about, under the number it is known by.
HomeFact(r) == <<FactKind[r[1]], r[2], TwinOf[r[3]]>>

Removing(st) == st.does \in {"delete", "collapse"}
Adding(t) == {i \in DOMAIN t.left : ~Removing(t.left[i])}
\* What a transaction has inserted, and what it may yet insert or overwrite.
WritesOf(t) == t.add \cup UNION {t.left[i].rows : i \in Adding(t)}
LocksOf(t) == t.add \cup t.del \cup t.hold

Apart == \A p, q \in Processes : p # q => LocksOf(txn[p]) \cap LocksOf(txn[q]) = {}

Unbegun == \A p \in unmade : txn[p] = NoTransaction

\* No request deletes what it has inserted itself.
Tidy(t) ==
    \A i \in DOMAIN t.left : Removing(t.left[i]) =>
        /\ t.left[i].rows \cap t.add = {}
        /\ \A j \in DOMAIN t.left : j < i /\ ~Removing(t.left[j]) =>
              t.left[j].rows \cap t.left[i].rows = {}
AllTidy == \A p \in Requests : Tidy(txn[p]) /\ txn[p].drops = {}

Named ==
    \A p \in Requests : \A r \in WritesOf(txn[p]) \cap EpisodeRows :
        HomeFact(r) \in txn[p].names

Paired ==
    \A p, q \in Processes : p # q /\ (txn[p].undoes \/ txn[q].undoes) =>
        txn[p].names \cap txn[q].names \subseteq crossed

Homes == {TwinOf[c] : c \in pass.batch}
InHand == pass.at \notin {"idle", "next"}

Batched ==
    /\ txn[Pass].left = <<>> /\ ~txn[Pass].waits /\ txn[Pass].hold = {}
    /\ ~InHand => txn[Pass] = NoTransaction /\ pass.batch = {} /\ ~pass.waits
    /\ InHand => /\ txn[Pass].undoes
                 /\ pass.batch \subseteq episodes
                 /\ \A r \in EpisodeRows :
                      TwinOf[r[3]] \in Homes => HomeFact(r) \in txn[Pass].names
    /\ \A c \in pass.batch : TwinOf[c] \in episodes
    /\ \A c, d \in pass.batch : TwinOf[c] = TwinOf[d] => c = d

Handled ==
    /\ txn[Pass].drops \subseteq pass.batch
    /\ pass.at # "count" => txn[Pass].drops = {}
    /\ txn[Pass].del \subseteq {r \in EpisodeRows : r[3] \in pass.batch}
    /\ txn[Pass].add \subseteq {Moved(r) : r \in txn[Pass].del}
    /\ pass.waits /\ pass.at \in DOMAIN TableOf =>
         \A r \in pass.moving :
            /\ r \in EpisodeRows /\ r[1] \in TableOf[pass.at]
            /\ r[3] \in pass.batch /\ <<r[2], r[3]>> \notin pass.withheld
    /\ pass.waits => pass.at \in DOMAIN TableOf \cup {"retire"}
    /\ pass.waits /\ pass.at = "retire" => pass.retiring \subseteq pass.batch

Doomed ==
    txn[Pass].drops \cup
       (IF pass.waits /\ pass.at = "retire" THEN pass.retiring ELSE {})

\* What is on an episode that goes came with a request that overlapped.
Clean ==
    \A r \in View(Pass) \cap EpisodeRows :
        r[3] \in Doomed => HomeFact(r) \in crossed
FactsGone ==
    \A r \in View(Pass) \cap EpisodeFacts : r[3] \notin txn[Pass].drops

AddsHome ==
    \A p \in Requests : \A f \in txn[p].add \cap EpisodeFacts :
        f[3] \in episodes /\ f[3] \notin txn[Pass].drops
EventsHome ==
    \A p \in Requests : \A r \in WritesOf(txn[p]) \cap EpisodeRows :
        r \in EpisodeFacts \/ r[3] \in episodes \/ HomeFact(r) \in crossed
RowsHome ==
    \A r \in db \cap EpisodeRows :
        \/ r[3] \in episodes
        \/ r \notin EpisodeFacts /\ HomeFact(r) \in crossed

Kept ==
    \A r \in txn[Pass].del :
        Moved(r) \in txn[Pass].add \/ HomeFact(r) \in crossed

\* What nobody else has had in hand: the rows of one who is withheld are left, the
\* others' have a free place, and go with their table.
Passed == [watch |-> {}, rating |-> {"watch"}, event |-> {"watch", "rating"},
           retire |-> Kinds, count |-> Kinds]
WholeAt(r) ==
    IF <<r[2], r[3]>> \in pass.withheld
    THEN r \notin txn[Pass].del
    ELSE /\ Moved(r) \notin db
         /\ r[1] \in Passed[pass.at] => r \in txn[Pass].del
         /\ pass.waits /\ pass.at \in DOMAIN TableOf /\ r[1] \in TableOf[pass.at]
              => r \in pass.moving \cup txn[Pass].del
Whole ==
    InHand => \A r \in db \cap EpisodeRows :
                 r[3] \in pass.batch /\ HomeFact(r) \notin crossed => WholeAt(r)

IInv == /\ TypeOK /\ Apart /\ Unbegun /\ AllTidy /\ Named /\ Paired
        /\ Batched /\ Handled /\ Clean /\ FactsGone /\ AddsHome /\ EventsHome
        /\ RowsHome /\ Kept /\ Whole

-----------------------------------------------------------------------------
(* The rows on an episode                                                  *)

LEMMA EpisodeRowForm ==
    EpisodeRows = Kinds \X Users \X Episodes
<1>1. ASSUME NEW r \in EpisodeRows PROVE r \in Kinds \X Users \X Episodes
  <2>1. r \in Rows /\ r[3] \in Episodes
    BY DEF EpisodeRows
  <2>2. CASE r \in EpisodeFacts
    BY <2>2 DEF EpisodeFacts, Kinds
  <2>3. CASE r \in ShowFacts
    BY <2>1, <2>3, HistoryAssumption DEF ShowFacts, HistoryAssumption
  <2>4. CASE r \in {EventOf(f) : f \in EpisodeFacts}
    BY <2>4 DEF EventOf, EpisodeFacts, Kinds
  <2>5. CASE r \in {EventOf(f) : f \in ShowFacts}
    BY <2>1, <2>5, HistoryAssumption DEF EventOf, ShowFacts, HistoryAssumption
  <2>6. CASE r \in {WatchedSeason(u, s) : u \in Users, s \in Seasons}
    BY <2>1, <2>6, HistoryAssumption DEF WatchedSeason, HistoryAssumption
  <2>7. CASE r \in {WatchedShow(u) : u \in Users}
    BY <2>1, <2>7, HistoryAssumption DEF WatchedShow, HistoryAssumption
  <2> QED
    BY <2>1, <2>2, <2>3, <2>4, <2>5, <2>6, <2>7 DEF Rows, FactRows, EventRows
<1>2. ASSUME NEW k \in Kinds, NEW u \in Users, NEW e \in Episodes
      PROVE  <<k, u, e>> \in EpisodeRows
  <2>1. CASE k \in {"watch", "rating"}
    BY <2>1 DEF EpisodeRows, Rows, FactRows, EpisodeFacts
  <2>2. CASE k = "watched_episode"
    <3>1. <<"watch", u, e>> \in EpisodeFacts
      BY DEF EpisodeFacts
    <3>2. EventOf(<<"watch", u, e>>) = <<k, u, e>>
      BY <2>2 DEF EventOf
    <3> QED
      BY <3>1, <3>2 DEF EpisodeRows, Rows, FactRows, EventRows
  <2>3. CASE k = "rated"
    <3>1. <<"rating", u, e>> \in EpisodeFacts
      BY DEF EpisodeFacts
    <3>2. EventOf(<<"rating", u, e>>) = <<k, u, e>>
      BY <2>3 DEF EventOf
    <3> QED
      BY <3>1, <3>2 DEF EpisodeRows, Rows, FactRows, EventRows
  <2> QED
    BY <2>1, <2>2, <2>3 DEF Kinds
<1> QED
  BY <1>1, <1>2

\* A row on an episode, and where the pass takes it.
LEMMA RowParts ==
    ASSUME NEW r \in EpisodeRows
    PROVE  /\ r[1] \in Kinds /\ r[2] \in Users /\ r[3] \in Episodes
           /\ r = <<r[1], r[2], r[3]>>
BY EpisodeRowForm

LEMMA MovedParts ==
    ASSUME NEW r \in EpisodeRows
    PROVE  /\ Moved(r) = <<r[1], r[2], TwinOf[r[3]]>>
           /\ Moved(r) \in EpisodeRows
           /\ Moved(r)[1] = r[1] /\ Moved(r)[2] = r[2]
           /\ Moved(r)[3] = TwinOf[r[3]]
           /\ HomeFact(Moved(r)) = HomeFact(r)
           /\ TwinOf[r[3]] \in Episodes /\ TwinOf[TwinOf[r[3]]] = TwinOf[r[3]]
<1>1. r[1] \in Kinds /\ r[2] \in Users /\ r[3] \in Episodes
  BY RowParts
<1>2. r = <<r[1], r[2], r[3]>>
  BY RowParts
<1>3. TwinOf[r[3]] \in Episodes /\ TwinOf[TwinOf[r[3]]] = TwinOf[r[3]]
  BY <1>1, HistoryAssumption DEF HistoryAssumption
<1>4. Moved(r) = <<r[1], r[2], TwinOf[r[3]]>>
  <2>1. PICK k \in Kinds, u \in Users, e \in Episodes : r = <<k, u, e>>
    BY <1>1, <1>2
  <2>2. [<<k, u, e>> EXCEPT ![3] = TwinOf[e]] = <<k, u, TwinOf[e]>>
    OBVIOUS
  <2> QED
    BY <2>1, <2>2 DEF Moved
<1>5. <<r[1], r[2], TwinOf[r[3]]>> \in EpisodeRows
  BY <1>1, <1>3, EpisodeRowForm
<1> QED
  BY <1>3, <1>4, <1>5 DEF HomeFact

LEMMA MovedApart ==
    ASSUME NEW r \in EpisodeRows, NEW m \in EpisodeRows, Moved(r) = Moved(m)
    PROVE  r[1] = m[1] /\ r[2] = m[2] /\ TwinOf[r[3]] = TwinOf[m[3]]
BY MovedParts

LEMMA SameRow ==
    ASSUME NEW r \in EpisodeRows, NEW m \in EpisodeRows,
           r[1] = m[1], r[2] = m[2], r[3] = m[3]
    PROVE  r = m
BY RowParts

\* The facts are the rows of two kinds, and an event has the fact it tells of.
LEMMA FactParts ==
    /\ EpisodeFacts \subseteq EpisodeRows
    /\ \A r \in EpisodeRows : r \in EpisodeFacts <=> r[1] \in {"watch", "rating"}
    /\ \A f \in EpisodeFacts : /\ f[1] \in {"watch", "rating"}
                               /\ f[2] \in Users /\ f[3] \in Episodes
                               /\ f = <<f[1], f[2], f[3]>>
                               /\ Home(f) = HomeFact(f)
                               /\ EventOf(f) \in EpisodeRows \ EpisodeFacts
                               /\ HomeFact(EventOf(f)) = HomeFact(f)
                               /\ EventOf(f)[2] = f[2] /\ EventOf(f)[3] = f[3]
<1>1. EpisodeFacts \subseteq EpisodeRows
  BY EpisodeRowForm DEF EpisodeFacts, Kinds
<1>2. ASSUME NEW r \in EpisodeRows
      PROVE  r \in EpisodeFacts <=> r[1] \in {"watch", "rating"}
  BY RowParts DEF EpisodeFacts
<1>3. ASSUME NEW f \in EpisodeFacts
      PROVE  /\ f[1] \in {"watch", "rating"}
             /\ f[2] \in Users /\ f[3] \in Episodes
             /\ f = <<f[1], f[2], f[3]>>
  BY DEF EpisodeFacts
<1>4. ASSUME NEW f \in EpisodeFacts
      PROVE  Home(f) = HomeFact(f)
  <2>1. f \in EpisodeRows /\ f[3] # Show
    BY <1>1, <1>3, HistoryAssumption DEF HistoryAssumption
  <2>2. Home(f) = Moved(f)
    BY <2>1 DEF Home, Moved
  <2>3. FactKind[f[1]] = f[1]
    BY <1>3 DEF FactKind
  <2> QED
    BY <2>1, <2>2, <2>3, MovedParts DEF HomeFact
<1>5. ASSUME NEW f \in EpisodeFacts
      PROVE  /\ EventOf(f) \in EpisodeRows \ EpisodeFacts
             /\ HomeFact(EventOf(f)) = HomeFact(f)
             /\ EventOf(f)[2] = f[2] /\ EventOf(f)[3] = f[3]
  <2>1. CASE f[1] = "watch"
    <3>1. EventOf(f) = <<"watched_episode", f[2], f[3]>>
      BY <2>1 DEF EventOf
    <3>2. EventOf(f) \in EpisodeRows
      BY <1>3, <3>1, EpisodeRowForm DEF Kinds
    <3> QED
      BY <1>2, <2>1, <3>1, <3>2 DEF HomeFact, FactKind
  <2>2. CASE f[1] = "rating"
    <3>1. EventOf(f) = <<"rated", f[2], f[3]>>
      BY <2>2 DEF EventOf
    <3>2. EventOf(f) \in EpisodeRows
      BY <1>3, <3>1, EpisodeRowForm DEF Kinds
    <3> QED
      BY <1>2, <2>2, <3>1, <3>2 DEF HomeFact, FactKind
  <2> QED
    BY <1>3, <2>1, <2>2
<1> QED
  BY <1>1, <1>2, <1>3, <1>4, <1>5

\* Every event on an episode tells of a fact on it.
LEMMA EventTells ==
    ASSUME NEW r \in EpisodeRows, r \notin EpisodeFacts
    PROVE  \E f \in EpisodeFacts : EventOf(f) = r /\ Home(f) = HomeFact(r)
<1>1. r[1] \in {"watched_episode", "rated"} /\ r[2] \in Users /\ r[3] \in Episodes
  BY RowParts, FactParts DEF Kinds
<1>2. r = <<r[1], r[2], r[3]>>
  BY RowParts
<1>3. CASE r[1] = "watched_episode"
  <2> DEFINE f == <<"watch", r[2], r[3]>>
  <2>1. f \in EpisodeFacts
    BY <1>1 DEF EpisodeFacts
  <2>2. EventOf(f) = r
    BY <1>2, <1>3 DEF EventOf
  <2> QED
    BY <2>1, <2>2, FactParts
<1>4. CASE r[1] = "rated"
  <2> DEFINE f == <<"rating", r[2], r[3]>>
  <2>1. f \in EpisodeFacts
    BY <1>1 DEF EpisodeFacts
  <2>2. EventOf(f) = r
    BY <1>2, <1>4 DEF EventOf
  <2> QED
    BY <2>1, <2>2, FactParts
<1> QED
  BY <1>1, <1>3, <1>4

\* Which rows are on an episode.
LEMMA RowKinds ==
    /\ EpisodeRows \subseteq Rows /\ FactRows \subseteq Rows
    /\ \A f \in FactRows : EventOf(f) \in Rows
    /\ \A f \in ShowFacts : f \notin EpisodeRows /\ EventOf(f) \notin EpisodeRows
    /\ \A u \in Users : WatchedShow(u) \in Rows \ EpisodeRows
    /\ \A u \in Users, s \in Seasons : WatchedSeason(u, s) \in Rows \ EpisodeRows
    /\ \A u \in Users, e \in Episodes : /\ Watch(u, e) \in EpisodeFacts
                                        /\ Watched(u, e) = EventOf(Watch(u, e))
<1>1. EpisodeRows \subseteq Rows /\ FactRows \subseteq Rows
  BY DEF EpisodeRows, Rows
<1>2. \A f \in FactRows : EventOf(f) \in Rows
  BY DEF Rows, EventRows
<1>3. ASSUME NEW f \in ShowFacts
      PROVE  f \notin EpisodeRows /\ EventOf(f) \notin EpisodeRows
  <2>1. f[3] = Show /\ EventOf(f)[3] = Show
    BY DEF ShowFacts, EventOf
  <2> QED
    BY <2>1, HistoryAssumption DEF EpisodeRows, HistoryAssumption
<1>4. ASSUME NEW u \in Users
      PROVE  WatchedShow(u) \in Rows \ EpisodeRows
  BY HistoryAssumption DEF WatchedShow, Rows, EventRows, EpisodeRows, HistoryAssumption
<1>5. ASSUME NEW u \in Users, NEW s \in Seasons
      PROVE  WatchedSeason(u, s) \in Rows \ EpisodeRows
  <2>1. WatchedSeason(u, s)[3] = s
    BY DEF WatchedSeason
  <2>2. s \notin Episodes
    BY HistoryAssumption DEF HistoryAssumption
  <2> QED
    BY <2>1, <2>2 DEF Rows, EventRows, EpisodeRows
<1>6. ASSUME NEW u \in Users, NEW e \in Episodes
      PROVE  /\ Watch(u, e) \in EpisodeFacts
             /\ Watched(u, e) = EventOf(Watch(u, e))
  BY DEF Watch, Watched, EventOf, EpisodeFacts
<1> QED
  BY <1>1, <1>2, <1>3, <1>4, <1>5, <1>6

-----------------------------------------------------------------------------
(* Requests: what the transaction of one may be, and what it leaves alone  *)

\* What a request's transaction may be, beside the others'.
InDb(t) == t.del \subseteq db /\ t.add \cap db \subseteq t.del
NamedIn(t) == \A r \in WritesOf(t) \cap EpisodeRows : HomeFact(r) \in t.names
AddsHomeIn(t) == \A f \in t.add \cap EpisodeFacts :
                    f[3] \in episodes /\ f[3] \notin txn[Pass].drops
EventsHomeIn(t) ==
    \A r \in WritesOf(t) \cap EpisodeRows :
        r \in EpisodeFacts \/ r[3] \in episodes \/ HomeFact(r) \in crossed
RequestFits(t) ==
    /\ t \in Transaction /\ InDb(t) /\ Tidy(t) /\ t.drops = {}
    /\ NamedIn(t) /\ AddsHomeIn(t) /\ EventsHomeIn(t)

ApartFrom(p, t) ==
    \A q \in Processes \ {p} : LocksOf(t) \cap LocksOf(txn[q]) = {}
PairedWith(p, t) ==
    \A q \in Processes \ {p} : t.undoes \/ txn[q].undoes =>
        t.names \cap txn[q].names \subseteq crossed'

LEMMA PassIs == Pass \in Processes /\ Pass \notin Requests /\ Requests \subseteq Processes
BY HistoryAssumption DEF Processes, HistoryAssumption

LEMMA RequestIs ==
    ASSUME TypeOK, IInv, NEW p \in Requests
    PROVE  /\ txn[p] \in Transaction /\ RequestFits(txn[p])
           /\ ApartFrom(p, txn[p])
BY PassIs DEF IInv, TypeOK, RequestFits, InDb, AllTidy, Named, NamedIn, AddsHome,
   AddsHomeIn, EventsHome, EventsHomeIn, Apart, ApartFrom

\* Nothing that concerns the pass changes while requests read and write.
LEMMA PassUntouched ==
    ASSUME TypeOK, IInv, UNCHANGED <<episodes, db, pass>>,
           txn'[Pass] = txn[Pass], crossed \subseteq crossed'
    PROVE  /\ Batched' /\ Handled' /\ Clean' /\ FactsGone' /\ RowsHome' /\ Kept'
           /\ Whole'
<1>1. Batched'
  BY DEF IInv, Batched, InHand, Homes
<1>2. Handled' /\ FactsGone'
  BY DEF IInv, Handled, FactsGone, View
<1>3. Clean' /\ RowsHome' /\ Kept'
  BY DEF IInv, Clean, RowsHome, Kept, View, Doomed
<1>4. Whole'
  BY DEF IInv, Whole, WholeAt, InHand
<1> QED
  BY <1>1, <1>2, <1>3, <1>4

\* One transaction changes, and stays apart from the others.
LEMMA ApartStep ==
    ASSUME TypeOK, Apart, NEW p \in Processes, NEW t \in Transaction,
           txn' = [txn EXCEPT ![p] = t], ApartFrom(p, t)
    PROVE  Apart'
BY DEF TypeOK, Apart, ApartFrom, LocksOf

LEMMA PairedStep ==
    ASSUME TypeOK, Paired, NEW p \in Processes, NEW t \in Transaction,
           txn' = [txn EXCEPT ![p] = t], PairedWith(p, t), crossed \subseteq crossed'
    PROVE  Paired'
BY DEF TypeOK, Paired, PairedWith

LEMMA RequestStep ==
    ASSUME TypeOK, IInv, NEW p \in Requests, NEW t, RequestFits(t),
           ApartFrom(p, t), PairedWith(p, t),
           txn' = [txn EXCEPT ![p] = t], UNCHANGED <<episodes, db, pass>>,
           crossed \subseteq crossed', crossed' \subseteq FactRows,
           unmade' \subseteq unmade, p \notin unmade' \/ t = NoTransaction
    PROVE  IInv'
<1> USE PassIs
<1>1. t \in Transaction /\ p \in Processes /\ p # Pass
  BY DEF RequestFits
<1>2. /\ txn'[p] = t
      /\ \A q \in Processes \ {p} : txn'[q] = txn[q]
      /\ txn' \in [Processes -> Transaction]
  BY <1>1 DEF TypeOK
<1>3. TypeOK'
  <2>1. \A q \in Processes : txn'[q].del \subseteq db /\ txn'[q].add \cap db \subseteq txn'[q].del
    BY <1>2 DEF TypeOK, RequestFits, InDb
  <2>2. InFlight(Pass)' <=> InFlight(Pass)
    BY <1>1, <1>2 DEF InFlight
  <2>3. unmade' \subseteq Requests
    BY DEF TypeOK
  <2> QED
    BY <1>2, <2>1, <2>2, <2>3 DEF TypeOK
<1>4. Apart' /\ Paired'
  BY <1>1, ApartStep, PairedStep DEF IInv
<1>5. Unbegun'
  <2>1. \A q \in unmade' : txn'[q] = NoTransaction
    BY <1>1, <1>2 DEF IInv, Unbegun, TypeOK
  <2> QED
    BY <2>1 DEF Unbegun
<1>6. AllTidy'
  BY <1>2 DEF IInv, AllTidy, RequestFits, Tidy, Removing
<1>7. Named'
  BY <1>2 DEF IInv, Named, RequestFits, NamedIn
<1>8. AddsHome'
  BY <1>1, <1>2 DEF IInv, AddsHome, RequestFits, AddsHomeIn
<1>9. EventsHome'
  BY <1>2 DEF IInv, EventsHome, RequestFits, EventsHomeIn
<1>10. txn'[Pass] = txn[Pass]
  BY <1>1, <1>2
<1> QED
  BY <1>3, <1>4, <1>5, <1>6, <1>7, <1>8, <1>9, <1>10, PassUntouched DEF IInv

LEMMA NoTransactionFits ==
    /\ NoTransaction \in Transaction /\ RequestFits(NoTransaction)
    /\ LocksOf(NoTransaction) = {} /\ WritesOf(NoTransaction) = {}
<1>1. NoTransaction \in Transaction
  BY DEF NoTransaction, Transaction
<1>2. LocksOf(NoTransaction) = {} /\ WritesOf(NoTransaction) = {}
  BY DEF NoTransaction, LocksOf, WritesOf, Adding
<1>3. Tidy(NoTransaction)
  BY DEF NoTransaction, Tidy
<1> QED
  BY <1>1, <1>2, <1>3 DEF RequestFits, InDb, NamedIn, AddsHomeIn, EventsHomeIn,
                          NoTransaction

LEMMA RollbackStep ==
    ASSUME TypeOK, IInv, NEW p \in Requests, Rollback(p), pass' = pass
    PROVE  IInv'
<1>1. ApartFrom(p, NoTransaction) /\ PairedWith(p, NoTransaction)
  BY NoTransactionFits DEF ApartFrom, PairedWith, NoTransaction
<1>2. crossed' \subseteq FactRows
  BY DEF Rollback, TypeOK
<1> QED
  BY <1>1, <1>2, NoTransactionFits, RequestStep DEF Rollback

-----------------------------------------------------------------------------
(* A request begins                                                        *)

\* What the programs of the requests have in common.
ProgramFits(program, names) ==
    /\ program \in Seq(Statement)
    /\ \A i, j \in DOMAIN program :
         j < i /\ Removing(program[i]) /\ ~Removing(program[j]) =>
            program[j].rows \cap program[i].rows = {}
    /\ \A i \in DOMAIN program : ~Removing(program[i]) =>
         \A r \in program[i].rows \cap EpisodeRows :
            /\ HomeFact(r) \in names
            /\ r \in EpisodeFacts \/ r[3] \in episodes

LEMMA CrossingIn ==
    ASSUME TypeOK, NEW names \in SUBSET FactRows, NEW undoes \in BOOLEAN
    PROVE  Crossing(names, undoes) \subseteq FactRows
BY DEF Crossing

LEMMA CrossingPairs ==
    ASSUME NEW p \in Processes, NEW t, NEW names, NEW undoes,
           t.names = names, t.undoes = undoes,
           crossed' = crossed \cup Crossing(names, undoes)
    PROVE  PairedWith(p, t)
BY DEF PairedWith, Crossing

LEMMA BeginStep ==
    ASSUME TypeOK, IInv, NEW p \in Requests, NEW program,
           NEW facts \in SUBSET FactRows, NEW undoes \in BOOLEAN,
           Begin(p, program, facts, undoes), pass' = pass,
           ProgramFits(program, {Home(f) : f \in facts}),
           {Home(f) : f \in facts} \subseteq FactRows
    PROVE  IInv'
<1> DEFINE names == {Home(f) : f \in facts}
           t == [NoTransaction EXCEPT !.left = program, !.names = names,
                                      !.undoes = undoes]
<1> HIDE DEF names
<1>1. /\ p \in unmade /\ unmade' = unmade \ {p}
      /\ txn' = [txn EXCEPT ![p].left = program, ![p].names = names,
                            ![p].undoes = undoes]
      /\ crossed' = crossed \cup Crossing(names, undoes)
      /\ UNCHANGED <<episodes, db>>
  BY DEF Begin, names
<1>2. txn[p] = NoTransaction
  BY <1>1 DEF IInv, Unbegun
<1>3. txn' = [txn EXCEPT ![p] = t]
  BY <1>1, <1>2, PassIs DEF TypeOK
<1>4. /\ t \in Transaction /\ t.left = program /\ t.names = names
      /\ t.add = {} /\ t.del = {} /\ t.hold = {} /\ t.drops = {}
      /\ t.undoes = undoes
  BY DEF NoTransaction, Transaction, ProgramFits, names
<1> HIDE DEF t
<1>5. LocksOf(t) = {} /\ WritesOf(t) = UNION {program[i].rows : i \in Adding(t)}
  BY <1>4 DEF LocksOf, WritesOf
<1>6. Adding(t) = {i \in DOMAIN program : ~Removing(program[i])}
  BY <1>4 DEF Adding
<1>7. RequestFits(t)
  <2>1. Tidy(t)
    BY <1>4 DEF Tidy, ProgramFits, names
  <2>2. NamedIn(t) /\ EventsHomeIn(t)
    BY <1>4, <1>5, <1>6 DEF NamedIn, EventsHomeIn, ProgramFits, names
  <2> QED
    BY <1>4, <2>1, <2>2 DEF RequestFits, InDb, AddsHomeIn
<1>8. ApartFrom(p, t)
  BY <1>5 DEF ApartFrom
<1>9. PairedWith(p, t)
  BY <1>1, <1>4, CrossingPairs, PassIs
<1>10. crossed' \subseteq FactRows
  BY <1>1, CrossingIn DEF TypeOK, names
<1> QED
  BY <1>1, <1>3, <1>7, <1>8, <1>9, <1>10, RequestStep

-----------------------------------------------------------------------------
(* The programs of the requests                                            *)

LEMMA HomesAreFacts ==
    \A f \in FactRows : Home(f) \in FactRows
<1>1. ASSUME NEW f \in EpisodeFacts PROVE Home(f) \in EpisodeFacts
  <2>1. f \in EpisodeRows /\ Home(f) = HomeFact(f)
    BY <1>1, FactParts
  <2>2. HomeFact(f) = <<FactKind[f[1]], f[2], TwinOf[f[3]]>>
    BY DEF HomeFact
  <2>3. FactKind[f[1]] \in {"watch", "rating"} /\ f[2] \in Users
    BY <1>1, FactParts DEF FactKind
  <2>4. TwinOf[f[3]] \in Episodes
    BY <2>1, MovedParts
  <2> QED
    BY <2>1, <2>2, <2>3, <2>4 DEF EpisodeFacts
<1>2. ASSUME NEW f \in ShowFacts PROVE Home(f) = f
  BY <1>2 DEF Home, ShowFacts
<1> QED
  BY <1>1, <1>2 DEF FactRows

LEMMA PutProgram ==
    ASSUME TypeOK, NEW f \in FactRows, f[3] \in episodes \cup {Show},
           NEW first \in {Upsert(f), Insert({f})}
    PROVE  ProgramFits(<<first, Upsert(EventOf(f))>>, {Home(g) : g \in {f}})
<1> DEFINE program == <<first, Upsert(EventOf(f))>>
<1>1. first \in Statement /\ first.rows = {f} /\ ~Removing(first)
  BY RowKinds DEF Statement, Upsert, Insert, Removing
<1>2. /\ Upsert(EventOf(f)) \in Statement
      /\ Upsert(EventOf(f)).rows = {EventOf(f)}
      /\ ~Removing(Upsert(EventOf(f)))
  BY RowKinds DEF Statement, Upsert, Removing
<1>3. program \in Seq(Statement) /\ DOMAIN program = {1, 2}
  BY <1>1, <1>2
<1>4. ASSUME NEW r \in {f, EventOf(f)}, r \in EpisodeRows
      PROVE  /\ HomeFact(r) \in {Home(g) : g \in {f}}
             /\ r \in EpisodeFacts \/ r[3] \in episodes
  <2>1. f \in EpisodeFacts
    BY <1>4, RowKinds DEF FactRows
  <2>2. f[3] \in episodes
    BY <2>1, FactParts, HistoryAssumption DEF HistoryAssumption
  <2> QED
    BY <2>1, <2>2, FactParts
<1>5. \A i \in DOMAIN program : ~Removing(program[i])
                                /\ program[i].rows \subseteq {f, EventOf(f)}
  BY <1>1, <1>2, <1>3
<1> QED
  BY <1>3, <1>4, <1>5 DEF ProgramFits

LEMMA DeletesProgram ==
    ASSUME NEW one \in SUBSET Rows, NEW two \in SUBSET Rows, NEW names
    PROVE  ProgramFits(<<Delete(one), Delete(two)>>, names)
<1> DEFINE program == <<Delete(one), Delete(two)>>
<1>1. Delete(one) \in Statement /\ Removing(Delete(one))
  BY DEF Statement, Delete, Removing
<1>2. Delete(two) \in Statement /\ Removing(Delete(two))
  BY DEF Statement, Delete, Removing
<1>3. program \in Seq(Statement) /\ DOMAIN program = {1, 2}
  BY <1>1, <1>2
<1>4. \A i \in DOMAIN program : Removing(program[i])
  BY <1>1, <1>2, <1>3
<1> QED
  BY <1>3, <1>4 DEF ProgramFits

LEMMA WatchRows ==
    ASSUME NEW u \in Users, NEW es \in SUBSET Episodes
    PROVE  /\ Watches(u, es) \subseteq EpisodeFacts
           /\ WatchedEach(u, es) \subseteq EpisodeRows
           /\ WatchedEach(u, es) \cap EpisodeFacts = {}
           /\ Watches(u, es) \in SUBSET FactRows /\ WatchedEach(u, es) \in SUBSET Rows
           /\ Watches(u, es) \in SUBSET Rows
BY RowKinds, FactParts DEF Watches, WatchedEach, FactRows

LEMMA MarkSeasonProgram ==
    ASSUME TypeOK, NEW u \in Users, NEW s \in Seasons, NEW marked \in SUBSET Episodes
    PROVE  ProgramFits(<<Insert(Watches(u, marked)), Collapse(WatchedEach(u, marked)),
                         Upsert(WatchedSeason(u, s))>>,
                       {Home(f) : f \in Watches(u, marked)})
<1> DEFINE one == Insert(Watches(u, marked))
           two == Collapse(WatchedEach(u, marked))
           three == Upsert(WatchedSeason(u, s))
           program == <<one, two, three>>
<1>1. one \in Statement /\ ~Removing(one) /\ one.rows = Watches(u, marked)
  BY WatchRows DEF Statement, Insert, Removing
<1>2. two \in Statement /\ Removing(two) /\ two.rows = WatchedEach(u, marked)
  BY WatchRows DEF Statement, Collapse, Removing
<1>3. three \in Statement /\ ~Removing(three) /\ three.rows = {WatchedSeason(u, s)}
  BY RowKinds DEF Statement, Upsert, Removing
<1> HIDE DEF one, two, three
<1>4. /\ program \in Seq(Statement) /\ DOMAIN program = {1, 2, 3}
      /\ program[1] = one /\ program[2] = two /\ program[3] = three
  BY <1>1, <1>2, <1>3
<1>5. Watches(u, marked) \cap WatchedEach(u, marked) = {}
  BY WatchRows
<1>6. \A i, j \in DOMAIN program :
        j < i /\ Removing(program[i]) /\ ~Removing(program[j]) => i = 2 /\ j = 1
  BY <1>1, <1>2, <1>3, <1>4
<1>7. ASSUME NEW i \in DOMAIN program, ~Removing(program[i]),
             NEW r \in program[i].rows \cap EpisodeRows
      PROVE  r \in Watches(u, marked)
  BY <1>1, <1>2, <1>3, <1>4, <1>7, RowKinds
<1>8. \A r \in Watches(u, marked) : r \in EpisodeFacts /\ Home(r) = HomeFact(r)
  BY WatchRows, FactParts
<1>9. \A r \in Watches(u, marked) :
        HomeFact(r) \in {Home(f) : f \in Watches(u, marked)} /\ r \in EpisodeFacts
  BY <1>8
<1>10. \A i, j \in DOMAIN program :
        j < i /\ Removing(program[i]) /\ ~Removing(program[j]) =>
            program[j].rows \cap program[i].rows = {}
  <2>1. program[1].rows \cap program[2].rows = {}
    BY <1>1, <1>2, <1>4, <1>5
  <2> HIDE DEF program
  <2> QED
    BY <2>1, <1>6
<1> HIDE DEF program
<1>11. ProgramFits(program, {Home(f) : f \in Watches(u, marked)})
  BY <1>4, <1>7, <1>9, <1>10 DEF ProgramFits
<1> QED
  BY <1>11 DEF program, one, two, three

LEMMA MarkShowProgram ==
    ASSUME TypeOK, NEW u \in Users, NEW marked \in SUBSET Episodes,
           NEW collapsed \in SUBSET Episodes
    PROVE  ProgramFits(<<Insert(Watches(u, marked)),
                         Delete({WatchedSeason(u, s) : s \in Seasons}),
                         Collapse(WatchedEach(u, collapsed)),
                         Upsert(WatchedShow(u))>>,
                       {Home(f) : f \in Watches(u, marked)})
<1> DEFINE one == Insert(Watches(u, marked))
           two == Delete({WatchedSeason(u, s) : s \in Seasons})
           three == Collapse(WatchedEach(u, collapsed))
           four == Upsert(WatchedShow(u))
           program == <<one, two, three, four>>
<1>1. one \in Statement /\ ~Removing(one) /\ one.rows = Watches(u, marked)
  BY WatchRows DEF Statement, Insert, Removing
<1>2. /\ two \in Statement /\ Removing(two)
      /\ two.rows = {WatchedSeason(u, s) : s \in Seasons}
  BY RowKinds DEF Statement, Delete, Removing
<1>3. /\ three \in Statement /\ Removing(three)
      /\ three.rows = WatchedEach(u, collapsed)
  BY WatchRows DEF Statement, Collapse, Removing
<1>4. four \in Statement /\ ~Removing(four) /\ four.rows = {WatchedShow(u)}
  BY RowKinds DEF Statement, Upsert, Removing
<1> HIDE DEF one, two, three, four
<1>5. /\ program \in Seq(Statement) /\ DOMAIN program = {1, 2, 3, 4}
      /\ program[1] = one /\ program[2] = two
      /\ program[3] = three /\ program[4] = four
  BY <1>1, <1>2, <1>3, <1>4
<1>6. /\ Watches(u, marked) \cap WatchedEach(u, collapsed) = {}
      /\ Watches(u, marked) \cap {WatchedSeason(u, s) : s \in Seasons} = {}
  BY WatchRows, RowKinds, FactParts
<1>7. \A i, j \in DOMAIN program :
        j < i /\ Removing(program[i]) /\ ~Removing(program[j]) =>
          i \in {2, 3} /\ j = 1
  BY <1>1, <1>2, <1>3, <1>4, <1>5
<1>8. ASSUME NEW i \in DOMAIN program, ~Removing(program[i]),
             NEW r \in program[i].rows \cap EpisodeRows
      PROVE  r \in Watches(u, marked)
  BY <1>1, <1>2, <1>3, <1>4, <1>5, <1>8, RowKinds
<1>9. \A r \in Watches(u, marked) : r \in EpisodeFacts /\ Home(r) = HomeFact(r)
  BY WatchRows, FactParts
<1>10. \A r \in Watches(u, marked) :
        HomeFact(r) \in {Home(f) : f \in Watches(u, marked)} /\ r \in EpisodeFacts
  BY <1>9
<1>11. \A i, j \in DOMAIN program :
        j < i /\ Removing(program[i]) /\ ~Removing(program[j]) =>
            program[j].rows \cap program[i].rows = {}
  <2>1. /\ program[1].rows \cap program[2].rows = {}
        /\ program[1].rows \cap program[3].rows = {}
    BY <1>1, <1>2, <1>3, <1>5, <1>6
  <2> HIDE DEF program
  <2> QED
    BY <2>1, <1>7
<1> HIDE DEF program
<1>12. ProgramFits(program, {Home(f) : f \in Watches(u, marked)})
  BY <1>5, <1>8, <1>10, <1>11 DEF ProgramFits
<1> QED
  BY <1>12 DEF program, one, two, three, four

LEMMA FactsAreRows == Facts \subseteq FactRows
BY HistoryAssumption DEF HistoryAssumption, FactRows

LEMMA PutStep ==
    ASSUME TypeOK, IInv, NEW p \in Requests, NEW f \in Facts, Put(p, f), pass' = pass
    PROVE  IInv'
<1>1. f \in FactRows /\ {f} \in SUBSET FactRows
  BY FactsAreRows
<1>2. {Home(g) : g \in {f}} \subseteq FactRows
  BY <1>1, HomesAreFacts
<1> DEFINE first == IF f[1] = "rating" THEN Upsert(f) ELSE Insert({f})
<1>3. first \in {Upsert(f), Insert({f})}
  OBVIOUS
<1>4. /\ f[3] \in episodes \cup {Show}
      /\ Begin(p, <<first, Upsert(EventOf(f))>>, {f}, FALSE)
  BY DEF Put
<1> HIDE DEF first
<1>5. ProgramFits(<<first, Upsert(EventOf(f))>>, {Home(g) : g \in {f}})
  BY <1>1, <1>3, <1>4, PutProgram
<1> QED
  BY <1>1, <1>2, <1>4, <1>5, BeginStep

LEMMA DropStep ==
    ASSUME TypeOK, IInv, NEW p \in Requests, NEW f \in Facts, Drop(p, f), pass' = pass
    PROVE  IInv'
<1>1. f \in FactRows /\ {f} \in SUBSET FactRows
  BY FactsAreRows
<1>2. {Home(g) : g \in {f}} \subseteq FactRows
  BY <1>1, HomesAreFacts
<1>3. {f} \in SUBSET Rows /\ {EventOf(f)} \in SUBSET Rows
  BY <1>1, RowKinds
<1>4. ProgramFits(<<Delete({f}), Delete({EventOf(f)})>>, {Home(g) : g \in {f}})
  BY <1>3, DeletesProgram
<1> QED
  BY <1>1, <1>2, <1>4, BeginStep DEF Drop

LEMMA MarkStep ==
    ASSUME TypeOK, IInv, NEW p \in Requests, NEW u \in Users, pass' = pass,
           (\E s \in Seasons : MarkSeason(p, u, s)) \/ MarkShow(p, u)
    PROVE  IInv'
<1>1. \A es \in SUBSET Episodes :
        /\ Watches(u, es) \in SUBSET FactRows
        /\ {Home(f) : f \in Watches(u, es)} \subseteq FactRows
  BY WatchRows, HomesAreFacts
<1>2. ASSUME NEW s \in Seasons, MarkSeason(p, u, s) PROVE IInv'
  <2> DEFINE marked == InSeason(s) \ CopiedSpecials
  <2>1. marked \in SUBSET Episodes
    BY DEF InSeason, TypeOK
  <2>2. Begin(p, <<Insert(Watches(u, marked)), Collapse(WatchedEach(u, marked)),
                   Upsert(WatchedSeason(u, s))>>, Watches(u, marked), FALSE)
    BY <1>2 DEF MarkSeason
  <2> HIDE DEF marked
  <2> QED
    BY <1>1, <2>1, <2>2, MarkSeasonProgram, BeginStep
<1>3. CASE MarkShow(p, u)
  <2> DEFINE marked == episodes \ (Specials \cup Unaired)
             collapsed == episodes \ Specials
  <2>1. marked \in SUBSET Episodes /\ collapsed \in SUBSET Episodes
    BY DEF TypeOK
  <2>2. Begin(p, <<Insert(Watches(u, marked)),
                   Delete({WatchedSeason(u, s) : s \in Seasons}),
                   Collapse(WatchedEach(u, collapsed)),
                   Upsert(WatchedShow(u))>>, Watches(u, marked), FALSE)
    BY <1>3 DEF MarkShow
  <2> HIDE DEF marked, collapsed
  <2> QED
    BY <1>1, <2>1, <2>2, MarkShowProgram, BeginStep
<1> QED
  BY <1>2, <1>3

LEMMA UnmarkStep ==
    ASSUME TypeOK, IInv, NEW p \in Requests, NEW u \in Users, pass' = pass,
           (\E s \in Seasons : UnmarkSeason(p, u, s)) \/ UnmarkShow(p, u)
    PROVE  IInv'
<1>1. \A es \in SUBSET Episodes :
        /\ Watches(u, es) \in SUBSET FactRows /\ Watches(u, es) \in SUBSET Rows
        /\ {Home(f) : f \in Watches(u, es)} \subseteq FactRows
  BY WatchRows, HomesAreFacts
<1>2. ASSUME NEW s \in Seasons, UnmarkSeason(p, u, s) PROVE IInv'
  <2>1. InSeason(s) \in SUBSET Episodes
    BY DEF InSeason, TypeOK
  <2>2. {WatchedSeason(u, s)} \in SUBSET Rows
    BY RowKinds
  <2>3. ProgramFits(<<Delete(Watches(u, InSeason(s))), Delete({WatchedSeason(u, s)})>>,
                    {Home(f) : f \in Watches(u, InSeason(s))})
    BY <1>1, <2>1, <2>2, DeletesProgram
  <2> QED
    BY <1>1, <1>2, <2>1, <2>3, BeginStep DEF UnmarkSeason
<1>3. CASE UnmarkShow(p, u)
  <2>1. episodes \in SUBSET Episodes
    BY DEF TypeOK
  <2>2. {WatchedShow(u)} \in SUBSET Rows
    BY RowKinds
  <2>3. ProgramFits(<<Delete(Watches(u, episodes)), Delete({WatchedShow(u)})>>,
                    {Home(f) : f \in Watches(u, episodes)})
    BY <1>1, <2>1, <2>2, DeletesProgram
  <2> QED
    BY <1>1, <1>3, <2>1, <2>3, BeginStep DEF UnmarkShow
<1> QED
  BY <1>2, <1>3

-----------------------------------------------------------------------------
(* The statements of a request                                             *)

LEMMA MatchedIn ==
    ASSUME NEW p, NEW st \in Statement
    PROVE  /\ Matched(p, st) \subseteq st.rows
           /\ Matched(p, st) \subseteq Rows
           /\ Removing(st) => Matched(p, st) \subseteq View(p)
           /\ ~Removing(st) => Matched(p, st) = st.rows
           /\ st.does = "delete" => Matched(p, st) = st.rows \cap View(p)
BY DEF Matched, Statement, Removing

LEMMA HeadOf ==
    ASSUME TypeOK, NEW p \in Requests, txn[p].left # <<>>
    PROVE  /\ txn[p].left \in Seq(Statement)
           /\ Head(txn[p].left) \in Statement
           /\ Head(txn[p].left) = txn[p].left[1]
           /\ Tail(txn[p].left) \in Seq(Statement)
           /\ DOMAIN txn[p].left = 1 .. Len(txn[p].left)
           /\ Len(txn[p].left) \in Nat \ {0}
           /\ DOMAIN Tail(txn[p].left) = 1 .. Len(txn[p].left) - 1
           /\ \A i \in DOMAIN Tail(txn[p].left) :
                /\ Tail(txn[p].left)[i] = txn[p].left[i + 1]
                /\ i + 1 \in DOMAIN txn[p].left /\ i + 1 # 1
           /\ 1 \in DOMAIN txn[p].left
<1>1. txn[p].left \in Seq(Statement)
  BY PassIs DEF TypeOK, Transaction
<1> QED
  BY <1>1

LEMMA WaitStep ==
    ASSUME TypeOK, IInv, NEW p \in Requests, Wait(p), pass' = pass
    PROVE  IInv'
<1> DEFINE s == txn[p].left
           st == Head(s)
           found == [does |-> IF st.does = "collapse" THEN "delete" ELSE st.does,
                     rows |-> Matched(p, st)]
           new == <<found>> \o Tail(s)
           t == [txn[p] EXCEPT !.left = new, !.waits = TRUE]
<1>1. s # <<>>
  BY DEF Wait
<1>2. txn[p] \in Transaction /\ RequestFits(txn[p]) /\ ApartFrom(p, txn[p])
  BY RequestIs
<1>3. /\ s \in Seq(Statement) /\ st \in Statement /\ st = s[1]
      /\ Tail(s) \in Seq(Statement)
      /\ DOMAIN s = 1 .. Len(s) /\ Len(s) \in Nat \ {0}
      /\ 1 \in DOMAIN s
  BY <1>1, HeadOf
<1>4. /\ found \in Statement /\ found.rows \subseteq st.rows
      /\ Removing(found) <=> Removing(st)
  BY <1>3, MatchedIn DEF Statement, Removing
<1> HIDE DEF found
<1>5. /\ new \in Seq(Statement) /\ DOMAIN new = DOMAIN s
      /\ new[1] = found /\ \A i \in DOMAIN s : i # 1 => new[i] = s[i]
  BY <1>3, <1>4
<1> HIDE DEF new, st
<1>6. \A i \in DOMAIN s : /\ new[i].rows \subseteq s[i].rows
                          /\ Removing(new[i]) <=> Removing(s[i])
  BY <1>3, <1>4, <1>5
<1> HIDE DEF s
<1>7. /\ t \in Transaction /\ t.left = new /\ t.add = txn[p].add
      /\ t.del = txn[p].del /\ t.hold = txn[p].hold /\ t.drops = txn[p].drops
      /\ t.names = txn[p].names /\ t.undoes = txn[p].undoes
  BY <1>2, <1>5 DEF Transaction
<1>8. txn' = [txn EXCEPT ![p] = t]
  BY PassIs DEF Wait, s, new, found, st, TypeOK
<1> HIDE DEF t
<1>9. WritesOf(t) \subseteq WritesOf(txn[p]) /\ LocksOf(t) = LocksOf(txn[p])
  BY <1>5, <1>6, <1>7 DEF WritesOf, LocksOf, Adding, s
<1>10. Tidy(t)
  <2>1. \A i \in DOMAIN s : Removing(s[i]) =>
          /\ s[i].rows \cap txn[p].add = {}
          /\ \A j \in DOMAIN s : j < i /\ ~Removing(s[j]) =>
                s[j].rows \cap s[i].rows = {}
    BY <1>2 DEF RequestFits, Tidy, s
  <2>2. ASSUME NEW i \in DOMAIN new, Removing(new[i])
        PROVE  new[i].rows \cap txn[p].add = {}
    BY <1>5, <1>6, <2>1, <2>2
  <2>3. ASSUME NEW i \in DOMAIN new, Removing(new[i]),
               NEW j \in DOMAIN new, j < i, ~Removing(new[j])
        PROVE  new[j].rows \cap new[i].rows = {}
    <3>1. s[j].rows \cap s[i].rows = {}
      BY <1>5, <1>6, <2>1, <2>3
    <3> QED
      BY <1>5, <1>6, <2>3, <3>1
  <2> QED
    BY <1>7, <2>2, <2>3 DEF Tidy
<1>11. RequestFits(t)
  BY <1>2, <1>7, <1>9, <1>10 DEF RequestFits, InDb, NamedIn, AddsHomeIn, EventsHomeIn
<1>12. ApartFrom(p, t)
  BY <1>2, <1>9 DEF ApartFrom
<1>13. crossed' = crossed /\ UNCHANGED <<episodes, db>> /\ unmade' = unmade
  BY DEF Wait
<1>14. PairedWith(p, t)
  BY <1>7, <1>13, PassIs DEF IInv, Paired, PairedWith
<1>15. p \notin unmade'
  BY <1>1, <1>13 DEF IInv, Unbegun, NoTransaction, s
<1> QED
  BY <1>8, <1>11, <1>12, <1>13, <1>14, <1>15, RequestStep DEF TypeOK

\* What a statement makes of its transaction.
LEMMA ExecuteFacts ==
    ASSUME TypeOK, IInv, NEW p \in Requests, Execute(p)
    PROVE  \E t \in Transaction :
             LET st == Head(txn[p].left)
                 rows == Matched(p, st)
             IN /\ txn' = [txn EXCEPT ![p] = t]
                /\ t.left = Tail(txn[p].left) /\ t.drops = txn[p].drops
                /\ t.names = txn[p].names /\ t.undoes = txn[p].undoes
                /\ rows \cap Locked(p) = {}
                /\ IF Removing(st)
                   THEN t.add = txn[p].add /\ t.del = txn[p].del \cup rows
                        /\ t.hold = txn[p].hold
                   ELSE /\ t.add = txn[p].add \cup (rows \ View(p))
                        /\ t.del = txn[p].del
                        /\ t.hold \in {txn[p].hold, txn[p].hold \cup (rows \cap db)}
                        /\ st.does = "upsert" => t.hold = txn[p].hold \cup (rows \cap db)
                        /\ \A f \in (rows \ View(p)) \cap EpisodeFacts :
                             f[3] \in episodes /\ f[3] \notin txn[Pass].drops
<1> DEFINE st == Head(txn[p].left)
           rows == Matched(p, st)
           u == [txn[p] EXCEPT !.left = Tail(@), !.waits = FALSE]
           t == CASE st.does = "insert" -> [u EXCEPT !.add = @ \cup (rows \ View(p))]
                  [] st.does = "upsert" -> [u EXCEPT !.add = @ \cup (rows \ View(p)),
                                                     !.hold = @ \cup (rows \cap db)]
                  [] OTHER -> [u EXCEPT !.del = @ \cup rows]
<1>1. /\ txn[p].left # <<>> /\ ~Blocked(p, st) /\ Parents(p, st) \subseteq episodes
      /\ txn' = [txn EXCEPT ![p] = t]
  BY DEF Execute
<1>2. /\ st \in Statement /\ Tail(txn[p].left) \in Seq(Statement)
  BY <1>1, HeadOf
<1>3. rows \subseteq Rows /\ rows \cap Locked(p) = {}
  BY <1>1, <1>2, MatchedIn DEF Blocked
<1>4. txn[p] \in Transaction
  BY PassIs DEF TypeOK
<1>5. ~Removing(st) => \A f \in (rows \ View(p)) \cap EpisodeFacts :
                         f[3] \in episodes /\ f[3] \notin txn[Pass].drops
  <2> SUFFICES ASSUME ~Removing(st), NEW f \in (rows \ View(p)) \cap EpisodeFacts
               PROVE  f[3] \in episodes /\ f[3] \notin txn[Pass].drops
    OBVIOUS
  <2>1. f[3] \in Parents(p, st)
    BY <1>2, MatchedIn DEF Parents, Removing, Statement
  <2>2. Pass \in Others(p)
    BY PassIs DEF Others
  <2> QED
    BY <1>1, <2>1, <2>2 DEF Blocked, Dropping
<1> HIDE DEF rows, st
<1>6. CASE st.does = "insert"
  <2>1. t = [u EXCEPT !.add = txn[p].add \cup (rows \ View(p))]
    BY <1>4, <1>6 DEF Transaction
  <2>2. /\ t \in Transaction
        /\ t.left = Tail(txn[p].left) /\ t.drops = txn[p].drops
        /\ t.names = txn[p].names /\ t.undoes = txn[p].undoes
        /\ t.add = txn[p].add \cup (rows \ View(p))
        /\ t.del = txn[p].del /\ t.hold = txn[p].hold
    BY <1>2, <1>3, <1>4, <2>1 DEF Transaction
  <2> HIDE DEF t
  <2> QED
    BY <1>1, <1>3, <1>5, <1>6, <2>2 DEF Removing, st, rows
<1>7. CASE st.does = "upsert"
  <2>1. t = [u EXCEPT !.add = txn[p].add \cup (rows \ View(p)),
                      !.hold = txn[p].hold \cup (rows \cap db)]
    BY <1>4, <1>7 DEF Transaction
  <2>2. /\ t \in Transaction
        /\ t.left = Tail(txn[p].left) /\ t.drops = txn[p].drops
        /\ t.names = txn[p].names /\ t.undoes = txn[p].undoes
        /\ t.add = txn[p].add \cup (rows \ View(p))
        /\ t.del = txn[p].del /\ t.hold = txn[p].hold \cup (rows \cap db)
    BY <1>2, <1>3, <1>4, <2>1 DEF Transaction
  <2> HIDE DEF t
  <2> QED
    BY <1>1, <1>3, <1>5, <1>7, <2>2 DEF Removing, st, rows
<1>8. CASE Removing(st)
  <2>1. t = [u EXCEPT !.del = txn[p].del \cup rows]
    BY <1>4, <1>8 DEF Transaction, Removing
  <2>2. /\ t \in Transaction
        /\ t.left = Tail(txn[p].left) /\ t.drops = txn[p].drops
        /\ t.names = txn[p].names /\ t.undoes = txn[p].undoes
        /\ t.add = txn[p].add
        /\ t.del = txn[p].del \cup rows /\ t.hold = txn[p].hold
    BY <1>2, <1>3, <1>4, <2>1 DEF Transaction
  <2> HIDE DEF t
  <2> QED
    BY <1>1, <1>3, <1>8, <2>2 DEF st, rows
<1> QED
  BY <1>2, <1>6, <1>7, <1>8 DEF Statement, Removing

LEMMA ExecuteStep ==
    ASSUME TypeOK, IInv, NEW p \in Requests, Execute(p), pass' = pass
    PROVE  IInv'
<1> DEFINE s == txn[p].left
           st == Head(s)
           rows == Matched(p, st)
<1>1. PICK t \in Transaction :
        /\ txn' = [txn EXCEPT ![p] = t]
        /\ t.left = Tail(s) /\ t.drops = txn[p].drops
        /\ t.names = txn[p].names /\ t.undoes = txn[p].undoes
        /\ rows \cap Locked(p) = {}
        /\ IF Removing(st)
           THEN t.add = txn[p].add /\ t.del = txn[p].del \cup rows
                /\ t.hold = txn[p].hold
           ELSE /\ t.add = txn[p].add \cup (rows \ View(p))
                /\ t.del = txn[p].del
                /\ t.hold \in {txn[p].hold, txn[p].hold \cup (rows \cap db)}
                /\ \A f \in (rows \ View(p)) \cap EpisodeFacts :
                     f[3] \in episodes /\ f[3] \notin txn[Pass].drops
  BY ExecuteFacts
<1>2. txn[p] \in Transaction /\ RequestFits(txn[p]) /\ ApartFrom(p, txn[p])
  BY RequestIs
<1>3. s # <<>>
  BY DEF Execute
<1>4. /\ st \in Statement /\ st = s[1] /\ 1 \in DOMAIN s
      /\ DOMAIN s = 1 .. Len(s) /\ Len(s) \in Nat
      /\ \A i \in DOMAIN Tail(s) : /\ Tail(s)[i] = s[i + 1]
                                   /\ i + 1 \in DOMAIN s /\ i + 1 # 1
      /\ DOMAIN Tail(s) = 1 .. Len(s) - 1
  BY <1>3, HeadOf
<1>5. /\ rows \subseteq st.rows /\ (Removing(st) => rows \subseteq View(p))
  BY <1>4, MatchedIn
<1> HIDE DEF s, st, rows
<1>6. \A i \in DOMAIN s : Removing(s[i]) =>
        /\ s[i].rows \cap txn[p].add = {}
        /\ \A j \in DOMAIN s : j < i /\ ~Removing(s[j]) =>
              s[j].rows \cap s[i].rows = {}
  BY <1>2 DEF RequestFits, Tidy, s
<1>7. InDb(t)
  <2>1. CASE Removing(st)
    <3>1. rows \cap txn[p].add = {}
      BY <1>4, <1>5, <1>6, <2>1
    <3> QED
      BY <1>1, <1>2, <1>5, <2>1, <3>1 DEF InDb, RequestFits, View
  <2>2. CASE ~Removing(st)
    BY <1>1, <1>2, <2>2 DEF InDb, RequestFits, View
  <2> QED
    BY <2>1, <2>2
<1>8. Tidy(t)
  <2>1. ASSUME NEW i \in DOMAIN Tail(s), Removing(Tail(s)[i])
        PROVE  Tail(s)[i].rows \cap t.add = {}
    <3>1. i + 1 \in DOMAIN s /\ Removing(s[i + 1]) /\ Tail(s)[i] = s[i + 1]
      BY <1>4, <2>1
    <3>2. s[i + 1].rows \cap txn[p].add = {}
      BY <1>6, <3>1
    <3>3. CASE ~Removing(st)
      <4>1. 1 < i + 1
        BY <1>4, <2>1
      <4>2. st.rows \cap s[i + 1].rows = {}
        BY <1>4, <1>6, <3>1, <3>3, <4>1
      <4> QED
        BY <1>1, <1>5, <3>1, <3>2, <3>3, <4>2
    <3> QED
      BY <1>1, <3>1, <3>2, <3>3
  <2>2. ASSUME NEW i \in DOMAIN Tail(s), Removing(Tail(s)[i]),
               NEW j \in DOMAIN Tail(s), j < i, ~Removing(Tail(s)[j])
        PROVE  Tail(s)[j].rows \cap Tail(s)[i].rows = {}
    <3>1. /\ i + 1 \in DOMAIN s /\ Removing(s[i + 1]) /\ Tail(s)[i] = s[i + 1]
          /\ j + 1 \in DOMAIN s /\ ~Removing(s[j + 1]) /\ Tail(s)[j] = s[j + 1]
      BY <1>4, <2>2
    <3>2. j + 1 < i + 1
      BY <1>4, <2>2
    <3> QED
      BY <1>6, <3>1, <3>2
  <2> QED
    BY <1>1, <2>1, <2>2 DEF Tidy
<1>9. WritesOf(t) \subseteq WritesOf(txn[p])
  <2>1. ASSUME NEW r \in t.add PROVE r \in WritesOf(txn[p])
    <3>1. r \in txn[p].add \/ (~Removing(st) /\ r \in st.rows)
      BY <1>1, <1>5, <2>1
    <3>2. ~Removing(st) => 1 \in Adding(txn[p]) /\ txn[p].left[1] = st
      BY <1>4 DEF Adding, s
    <3> QED
      BY <3>1, <3>2 DEF WritesOf
  <2>2. ASSUME NEW i \in Adding(t), NEW r \in t.left[i].rows
        PROVE  r \in WritesOf(txn[p])
    <3>1. i \in DOMAIN Tail(s) /\ ~Removing(Tail(s)[i]) /\ r \in Tail(s)[i].rows
      BY <1>1, <2>2 DEF Adding
    <3>2. i + 1 \in Adding(txn[p]) /\ r \in txn[p].left[i + 1].rows
      BY <1>4, <3>1 DEF Adding, s
    <3> QED
      BY <3>2 DEF WritesOf
  <2> QED
    BY <2>1, <2>2 DEF WritesOf
<1>10. AddsHomeIn(t)
  BY <1>1, <1>2 DEF AddsHomeIn, RequestFits
<1>11. RequestFits(t)
  BY <1>1, <1>2, <1>7, <1>8, <1>9, <1>10 DEF RequestFits, NamedIn, EventsHomeIn
<1>12. ApartFrom(p, t)
  <2>1. LocksOf(t) \subseteq LocksOf(txn[p]) \cup rows
    BY <1>1 DEF LocksOf
  <2>2. \A q \in Processes \ {p} : LocksOf(txn[q]) \subseteq Locked(p)
    BY DEF Locked, Others, LocksOf
  <2> QED
    BY <1>1, <1>2, <2>1, <2>2 DEF ApartFrom
<1>13. crossed' = crossed /\ UNCHANGED <<episodes, db>> /\ unmade' = unmade
  BY DEF Execute
<1>14. PairedWith(p, t)
  BY <1>1, <1>13, PassIs DEF IInv, Paired, PairedWith
<1>15. p \notin unmade'
  BY <1>3, <1>13 DEF IInv, Unbegun, NoTransaction, s
<1> QED
  BY <1>1, <1>11, <1>12, <1>13, <1>14, <1>15, RequestStep DEF TypeOK

-----------------------------------------------------------------------------
(* A request commits                                                       *)

\* What a request writes of what the pass has in hand is crossed.
LEMMA Overlap ==
    ASSUME IInv, InHand, NEW p \in Requests,
           NEW r \in WritesOf(txn[p]) \cap EpisodeRows, TwinOf[r[3]] \in Homes
    PROVE  HomeFact(r) \in crossed
<1>1. HomeFact(r) \in txn[p].names
  BY DEF IInv, Named
<1>2. txn[Pass].undoes /\ HomeFact(r) \in txn[Pass].names
  BY DEF IInv, Batched
<1> QED
  BY <1>1, <1>2, PassIs DEF IInv, Paired

LEMMA InBatch ==
    ASSUME IInv, NEW c \in pass.batch
    PROVE  InHand /\ TwinOf[c] \in Homes
BY DEF IInv, Batched, Homes

LEMMA BatchIsCopies ==
    ASSUME TypeOK, NEW c \in pass.batch
    PROVE  c \in Copies /\ c \in Episodes /\ TwinOf[c] # c
BY DEF TypeOK, PassState, Copies

LEMMA DoomedInBatch ==
    ASSUME IInv
    PROVE  Doomed \subseteq pass.batch
BY DEF IInv, Handled, Doomed

LEMMA CommitWhole ==
    ASSUME TypeOK, IInv, NEW p \in Requests, Commit(p), pass' = pass,
           txn'[Pass] = txn[Pass]
    PROVE  Whole'
<1> SUFFICES ASSUME InHand, NEW r \in db' \cap EpisodeRows, r[3] \in pass.batch,
                    HomeFact(r) \notin crossed
             PROVE  WholeAt(r)'
  BY DEF Whole, InHand, Commit
<1>1. /\ db' = (db \ txn[p].del) \cup txn[p].add /\ crossed' = crossed
  BY DEF Commit, View
<1>2. ASSUME NEW m \in txn[p].add \cap EpisodeRows, TwinOf[m[3]] = TwinOf[r[3]],
             HomeFact(m) = HomeFact(r)
      PROVE  FALSE
  <2>1. m \in WritesOf(txn[p]) \cap EpisodeRows /\ TwinOf[m[3]] \in Homes
    BY <1>2, InBatch DEF WritesOf
  <2> QED
    BY <1>2, <2>1, Overlap
<1>3. r \in db
  BY <1>1, <1>2
<1>4. WholeAt(r)
  BY <1>3 DEF IInv, Whole
<1>5. Moved(r) \notin txn[p].add
  BY <1>2, MovedParts
<1> QED
  BY <1>1, <1>4, <1>5 DEF WholeAt

LEMMA CommitStep ==
    ASSUME TypeOK, IInv, NEW p \in Requests, Commit(p), pass' = pass
    PROVE  IInv'
<1> USE PassIs
<1>1. /\ db' = (db \ txn[p].del) \cup txn[p].add
      /\ txn' = [txn EXCEPT ![p] = NoTransaction]
      /\ UNCHANGED <<episodes, unmade, crossed>>
  BY DEF Commit, View
<1>2. /\ txn'[p] = NoTransaction
      /\ \A q \in Processes \ {p} : txn'[q] = txn[q]
      /\ txn' \in [Processes -> Transaction]
      /\ txn'[Pass] = txn[Pass]
  BY <1>1, NoTransactionFits DEF TypeOK
<1>3. txn[p] \in Transaction /\ RequestFits(txn[p]) /\ ApartFrom(p, txn[p])
  BY RequestIs
<1>4. TypeOK'
  <2>1. db' \subseteq Rows
    BY <1>1, <1>3 DEF TypeOK, Transaction
  <2>2. ASSUME NEW q \in Processes
        PROVE  txn'[q].del \subseteq db' /\ txn'[q].add \cap db' \subseteq txn'[q].del
    <3>1. CASE q = p
      BY <1>2, <3>1 DEF NoTransaction
    <3>2. CASE q # p
      <4>1. LocksOf(txn[p]) \cap LocksOf(txn[q]) = {} /\ txn'[q] = txn[q]
        BY <1>2, <1>3, <3>2 DEF ApartFrom
      <4>2. txn[q].del \subseteq db /\ txn[q].add \cap db \subseteq txn[q].del
        BY DEF TypeOK
      <4> QED
        BY <1>1, <4>1, <4>2 DEF LocksOf
    <3> QED
      BY <3>1, <3>2
  <2>3. InFlight(Pass)' <=> InFlight(Pass)
    BY <1>2 DEF InFlight
  <2> QED
    BY <1>1, <1>2, <2>1, <2>2, <2>3 DEF TypeOK
<1>5. Apart' /\ Paired'
  <2>1. ApartFrom(p, NoTransaction) /\ PairedWith(p, NoTransaction)
    BY NoTransactionFits DEF ApartFrom, PairedWith, NoTransaction
  <2> QED
    BY <1>1, <2>1, ApartStep, PairedStep, NoTransactionFits DEF IInv
<1>6. Unbegun' /\ AllTidy' /\ Named' /\ AddsHome' /\ EventsHome'
  <2>1. \A q \in Requests : txn'[q] = txn[q] \/ txn'[q] = NoTransaction
    BY <1>2
  <2>2. Unbegun'
    BY <1>1, <1>2 DEF IInv, Unbegun, TypeOK
  <2>3. AllTidy'
    BY <2>1, NoTransactionFits DEF IInv, AllTidy, RequestFits
  <2>4. Named' /\ AddsHome' /\ EventsHome'
    BY <1>1, <1>2, <2>1, NoTransactionFits
       DEF IInv, Named, AddsHome, EventsHome, NoTransaction
  <2> QED
    BY <2>2, <2>3, <2>4
<1>7. Batched' /\ Handled' /\ Kept'
  BY <1>1, <1>2 DEF IInv, Batched, Handled, Kept, InHand, Homes
<1>8. \A r \in View(Pass)' : r \in View(Pass) \/ r \in txn[p].add
  BY <1>1, <1>2 DEF View
<1>9. Clean'
  <2>1. Doomed' = Doomed
    BY <1>2 DEF Doomed
  <2>2. ASSUME NEW r \in View(Pass)' \cap EpisodeRows, r[3] \in Doomed
        PROVE  HomeFact(r) \in crossed
    <3>1. CASE r \in View(Pass)
      BY <2>2, <3>1 DEF IInv, Clean
    <3>2. CASE r \in txn[p].add
      <4>1. InHand /\ TwinOf[r[3]] \in Homes
        BY <2>2, DoomedInBatch, InBatch
      <4> QED
        BY <2>2, <3>2, <4>1, Overlap DEF WritesOf
    <3> QED
      BY <1>8, <3>1, <3>2
  <2> QED
    BY <1>1, <2>1, <2>2 DEF Clean
<1>10. FactsGone'
  BY <1>2, <1>8 DEF IInv, FactsGone, AddsHome
<1>11. RowsHome'
  BY <1>1 DEF IInv, RowsHome, AddsHome, EventsHome, WritesOf
<1>12. Whole'
  BY <1>2, CommitWhole
<1> QED
  BY <1>4, <1>5, <1>6, <1>7, <1>9, <1>10, <1>11, <1>12 DEF IInv

LEMMA HistoryStep ==
    ASSUME TypeOK, IInv, HistoryNext, pass' = pass
    PROVE  IInv'
BY PutStep, DropStep, MarkStep, UnmarkStep, WaitStep, ExecuteStep, CommitStep,
   RollbackStep DEF HistoryNext, Request

-----------------------------------------------------------------------------
(* The pass between two batches, and what it selects                       *)

PassParts == Batched /\ Handled /\ Clean /\ FactsGone /\ Kept /\ Whole

\* What the requests rely on, while the pass changes its own transaction only.
LEMMA RequestsUntouched ==
    ASSUME TypeOK, IInv, UNCHANGED <<episodes, db, unmade>>, NEW t \in Transaction,
           txn' = [txn EXCEPT ![Pass] = t], InDb(t),
           crossed \subseteq crossed', crossed' \subseteq FactRows,
           ApartFrom(Pass, t), PairedWith(Pass, t),
           \A p \in Requests : \A f \in txn[p].add \cap EpisodeFacts :
              f[3] \notin t.drops,
           pass' \in PassState,
           t # NoTransaction <=> pass'.at \notin {"idle", "next"},
           PassParts'
    PROVE  TypeOK' /\ IInv'
<1> USE PassIs
<1>1. /\ txn'[Pass] = t
      /\ \A q \in Requests : txn'[q] = txn[q]
      /\ txn' \in [Processes -> Transaction]
  BY DEF TypeOK
<1>2. TypeOK'
  <2>1. ASSUME NEW q \in Processes
        PROVE  txn'[q].del \subseteq db /\ txn'[q].add \cap db \subseteq txn'[q].del
    <3>1. CASE q = Pass
      BY <1>1, <3>1 DEF InDb
    <3>2. CASE q # Pass
      BY <3>2 DEF TypeOK
    <3> QED
      BY <3>1, <3>2
  <2>2. InFlight(Pass)' <=> t # NoTransaction
    BY <1>1 DEF InFlight
  <2> QED
    BY <1>1, <2>1, <2>2 DEF TypeOK
<1>3. Apart' /\ Paired'
  BY ApartStep, PairedStep DEF IInv
<1>4. Unbegun'
  BY <1>1 DEF IInv, Unbegun, TypeOK
<1>5. AllTidy' /\ Named'
  BY <1>1 DEF IInv, AllTidy, Named
<1>6. AddsHome'
  BY <1>1 DEF IInv, AddsHome
<1>7. EventsHome' /\ RowsHome'
  BY <1>1 DEF IInv, EventsHome, RowsHome
<1> QED
  BY <1>2, <1>3, <1>4, <1>5, <1>6, <1>7 DEF IInv, PassParts

LEMMA NothingInHand ==
    ASSUME pass'.at \in {"idle", "next"}, pass'.batch = {}, ~pass'.waits,
           txn'[Pass] = NoTransaction
    PROVE  PassParts'
<1>1. ~InHand' /\ Homes' = {} /\ Doomed' = {}
  BY DEF InHand, Homes, Doomed, NoTransaction
<1>2. Batched' /\ Handled'
  BY <1>1 DEF Batched, Handled, NoTransaction
<1>3. Clean' /\ FactsGone' /\ Kept' /\ Whole'
  BY <1>1 DEF Clean, FactsGone, Kept, Whole, NoTransaction
<1> QED
  BY <1>2, <1>3 DEF PassParts

LEMMA NoPassType ==
    /\ NoPass \in PassState /\ NoPass.at = "idle" /\ NoPass.batch = {} /\ ~NoPass.waits
    /\ [NoPass EXCEPT !.at = "next"] \in PassState
BY DEF NoPass, PassState, Stages

LEMMA EmptyHands ==
    /\ NoTransaction \in Transaction /\ InDb(NoTransaction)
    /\ ApartFrom(Pass, NoTransaction) /\ PairedWith(Pass, NoTransaction)
    /\ \A f : f \notin NoTransaction.drops
BY NoTransactionFits DEF InDb, ApartFrom, PairedWith, NoTransaction

LEMMA StartFinishAbort ==
    ASSUME TypeOK, IInv, Start \/ Finish \/ Abort
    PROVE  TypeOK' /\ IInv'
<1>1. txn' = [txn EXCEPT ![Pass] = NoTransaction]
  <2>1. CASE Start \/ Finish
    <3>1. txn[Pass] = NoTransaction /\ txn' = txn
      BY <2>1 DEF Start, Finish, historyVars, TypeOK, InFlight
    <3> QED
      BY <3>1, PassIs DEF TypeOK
  <2>2. CASE Abort
    BY <2>2 DEF Abort
  <2> QED
    BY <2>1, <2>2
<1>2. /\ UNCHANGED <<episodes, db, unmade, crossed>>
      /\ pass' \in {NoPass, [NoPass EXCEPT !.at = "next"]}
  BY DEF Start, Finish, Abort, historyVars
<1>3. /\ pass' \in PassState /\ pass'.at \in {"idle", "next"} /\ pass'.batch = {}
      /\ ~pass'.waits
  BY <1>2, NoPassType DEF PassState, NoPass
<1>4. txn'[Pass] = NoTransaction
  BY <1>1, PassIs DEF TypeOK
<1>5. PassParts'
  BY <1>3, <1>4, NothingInHand
<1>6. crossed' \subseteq FactRows
  BY <1>2 DEF TypeOK
<1> QED
  BY <1>1, <1>2, <1>3, <1>5, <1>6, EmptyHands, RequestsUntouched

LEMMA SelectStep ==
    ASSUME TypeOK, IInv, Select
    PROVE  TypeOK' /\ IInv'
<1>1. PICK batch \in SUBSET (Candidates \ pass.done) :
        LET homes == {TwinOf[c] : c \in batch}
            names == {f \in EpisodeFacts : f[3] \in homes}
        IN /\ batch # {} /\ Cardinality(batch) <= BatchSize
           /\ pass' = [pass EXCEPT !.at = "watch", !.batch = batch,
                                   !.withheld = Colliding(batch)]
           /\ txn' = [txn EXCEPT ![Pass].names = names, ![Pass].undoes = TRUE]
           /\ crossed' = crossed \cup Crossing(names, TRUE)
  BY DEF Select
<1> DEFINE homes == {TwinOf[c] : c \in batch}
           names == {f \in EpisodeFacts : f[3] \in homes}
           t == [NoTransaction EXCEPT !.names = names, !.undoes = TRUE]
<1>2. /\ pass.at = "next" /\ UNCHANGED <<episodes, db, unmade>>
      /\ txn[Pass] = NoTransaction /\ pass.batch = {} /\ ~pass.waits
  BY DEF Select, TypeOK, InFlight, IInv, Batched, InHand
<1>3. /\ txn' = [txn EXCEPT ![Pass] = t]
      /\ crossed' = crossed \cup Crossing(names, TRUE)
      /\ pass' = [pass EXCEPT !.at = "watch", !.batch = batch,
                              !.withheld = Colliding(batch)]
  BY <1>1, <1>2, PassIs DEF TypeOK
<1>4. names \in SUBSET FactRows
  BY DEF FactRows
<1>5. ASSUME NEW r \in EpisodeRows, TwinOf[r[3]] \in homes
      PROVE  HomeFact(r) \in names
  <2>1. HomeFact(r) = <<FactKind[r[1]], r[2], TwinOf[r[3]]>>
    BY DEF HomeFact
  <2>2. FactKind[r[1]] \in {"watch", "rating"}
    BY RowParts DEF FactKind, Kinds
  <2>3. r[2] \in Users /\ TwinOf[r[3]] \in Episodes
    BY RowParts, MovedParts
  <2> QED
    BY <1>5, <2>1, <2>2, <2>3 DEF EpisodeFacts
<1> HIDE DEF names
<1>6. /\ t \in Transaction /\ t.left = <<>> /\ ~t.waits /\ t.add = {} /\ t.del = {}
      /\ t.hold = {} /\ t.drops = {} /\ t.names = names /\ t.undoes = TRUE
      /\ t # NoTransaction
  <2>1. /\ t.left = <<>> /\ t.waits = FALSE /\ t.add = {} /\ t.del = {}
        /\ t.hold = {} /\ t.drops = {} /\ t.names = names /\ t.undoes = TRUE
    BY DEF NoTransaction
  <2>2. t \in Transaction
    BY <1>4, NoTransactionFits DEF Transaction
  <2>3. NoTransaction.undoes = FALSE
    BY DEF NoTransaction
  <2>4. t # NoTransaction
    BY <2>1, <2>3
  <2> QED
    BY <2>1, <2>2, <2>4
<1> HIDE DEF t
<1>7. batch \subseteq Candidates
  OBVIOUS
<1>8. Colliding(batch) \in SUBSET (Users \X Copies)
  <2>1. ASSUME NEW r \in EpisodeRows, r[3] \in batch
        PROVE  <<r[2], r[3]>> \in Users \X Copies
    BY <1>7, <2>1, RowParts DEF Candidates
  <2> QED
    BY <2>1 DEF Colliding
<1>9. pass' \in PassState
  BY <1>3, <1>7, <1>8 DEF TypeOK, PassState, Stages, Candidates
<1>10. /\ pass'.at = "watch" /\ pass'.batch = batch /\ ~pass'.waits
       /\ pass'.withheld = Colliding(batch)
  BY <1>2, <1>3 DEF TypeOK, PassState
<1>11. txn'[Pass] = t
  BY <1>3, PassIs DEF TypeOK
<1>12. InHand' /\ Homes' = homes /\ Doomed' = {}
  BY <1>6, <1>10, <1>11 DEF InHand, Homes, Doomed
<1>13. Batched'
  <2>1. \A c \in batch : c \in episodes /\ TwinOf[c] \in episodes
    BY <1>7 DEF Candidates
  <2>2. \A c, d \in batch : TwinOf[c] = TwinOf[d] => c = d
    BY <1>7 DEF Candidates
  <2> QED
    BY <1>2, <1>5, <1>6, <1>10, <1>11, <1>12, <2>1, <2>2 DEF Batched
<1>14. Handled'
  BY <1>6, <1>10, <1>11 DEF Handled
<1>15. Clean' /\ FactsGone' /\ Kept'
  BY <1>6, <1>11, <1>12 DEF Clean, FactsGone, Kept
<1>16. Whole'
  <2>1. ASSUME NEW r \in db \cap EpisodeRows, r[3] \in batch
        PROVE  WholeAt(r)'
    <3>1. CASE <<r[2], r[3]>> \in Colliding(batch)
      BY <1>6, <1>10, <1>11, <3>1 DEF WholeAt
    <3>2. CASE <<r[2], r[3]>> \notin Colliding(batch)
      <4>1. Moved(r) \notin db
        BY <2>1, <3>2 DEF Colliding
      <4>2. Passed["watch"] = {}
        BY DEF Passed
      <4> QED
        BY <1>2, <1>10, <3>2, <4>1, <4>2 DEF WholeAt
    <3> QED
      BY <3>1, <3>2
  <2> QED
    BY <1>2, <1>10, <2>1 DEF Whole
<1>17. InDb(t) /\ ApartFrom(Pass, t)
  BY <1>6 DEF InDb, ApartFrom, LocksOf
<1>18. PairedWith(Pass, t) /\ crossed' \subseteq FactRows
  BY <1>3, <1>4, <1>6, CrossingPairs, CrossingIn, PassIs DEF TypeOK
<1>19. PassParts'
  BY <1>13, <1>14, <1>15, <1>16 DEF PassParts
<1> QED
  BY <1>2, <1>3, <1>6, <1>9, <1>10, <1>17, <1>18, <1>19, RequestsUntouched

\* The pass looks or waits: its transaction stays as it is.
LEMMA PassOnly ==
    ASSUME TypeOK, IInv, UNCHANGED historyVars, pass' \in PassState,
           pass'.at = pass.at, PassParts'
    PROVE  TypeOK' /\ IInv'
<1>1. txn' = [txn EXCEPT ![Pass] = txn[Pass]] /\ txn[Pass] \in Transaction
  BY PassIs DEF historyVars, TypeOK
<1>2. InDb(txn[Pass]) /\ ApartFrom(Pass, txn[Pass]) /\ PairedWith(Pass, txn[Pass])
  BY PassIs DEF TypeOK, InDb, IInv, Apart, ApartFrom, Paired, PairedWith, historyVars
<1>3. /\ UNCHANGED <<episodes, db, unmade>> /\ crossed' = crossed
      /\ crossed' \subseteq FactRows
  BY DEF historyVars, TypeOK
<1>4. \A p \in Requests : \A f \in txn[p].add \cap EpisodeFacts :
        f[3] \notin txn[Pass].drops
  BY DEF IInv, AddsHome
<1>5. txn[Pass] # NoTransaction <=> pass'.at \notin {"idle", "next"}
  BY DEF TypeOK, InFlight
<1> QED
  BY <1>1, <1>2, <1>3, <1>4, <1>5, RequestsUntouched

LEMMA MovableRows ==
    ASSUME TypeOK, pass.at \in DOMAIN TableOf
    PROVE  \A r \in Movable :
             /\ r \in EpisodeRows /\ r \in Rows /\ r[1] \in TableOf[pass.at]
             /\ r[3] \in pass.batch /\ <<r[2], r[3]>> \notin pass.withheld
             /\ Moved(r) \notin View(Pass) /\ r \in View(Pass)
BY RowKinds DEF Movable

\* Where the rows of the batch go, nothing of the batch is.
LEMMA AddedAreMoved ==
    ASSUME TypeOK, IInv, NEW m \in txn[Pass].add
    PROVE  /\ m \in EpisodeRows /\ TwinOf[m[3]] = m[3] /\ m[3] \notin pass.batch
           /\ \E r \in txn[Pass].del : r \in EpisodeRows /\ r[3] \in pass.batch
                                       /\ m = Moved(r)
<1>1. PICK r \in txn[Pass].del : m = Moved(r)
  BY DEF IInv, Handled
<1>2. r \in EpisodeRows /\ r[3] \in pass.batch
  BY <1>1 DEF IInv, Handled
<1>3. m \in EpisodeRows /\ TwinOf[m[3]] = m[3]
  BY <1>1, <1>2, MovedParts
<1> QED
  BY <1>1, <1>2, <1>3, BatchIsCopies

\* A row of the batch that the statement finds in place, and is not withheld,
\* can move: the ingested episode's place is free.
LEMMA Found ==
    ASSUME TypeOK, IInv, InHand, pass.at \in DOMAIN TableOf,
           NEW r \in db \cap EpisodeRows, r[3] \in pass.batch,
           HomeFact(r) \notin crossed, <<r[2], r[3]>> \notin pass.withheld,
           r[1] \in TableOf[pass.at], r \notin txn[Pass].del
    PROVE  r \in Movable
<1>1. WholeAt(r)
  BY DEF IInv, Whole
<1>2. Moved(r) \notin db
  BY <1>1 DEF WholeAt
<1>3. Moved(r) \notin txn[Pass].add
  <2> SUFFICES ASSUME Moved(r) \in txn[Pass].add PROVE FALSE
    OBVIOUS
  <2>1. PICK m \in txn[Pass].del : m \in EpisodeRows /\ m[3] \in pass.batch
                                   /\ Moved(r) = Moved(m)
    BY AddedAreMoved
  <2>2. r[1] = m[1] /\ r[2] = m[2] /\ TwinOf[r[3]] = TwinOf[m[3]]
    BY <2>1, MovedApart
  <2>3. r[3] = m[3]
    BY <2>1, <2>2 DEF IInv, Batched
  <2>4. r = m
    BY <2>1, <2>2, <2>3, SameRow
  <2> QED
    BY <2>1, <2>4
<1> QED
  BY <1>2, <1>3 DEF Movable, View

LEMMA MoveWaitsStep ==
    ASSUME TypeOK, IInv, MoveWaits
    PROVE  TypeOK' /\ IInv'
<1>1. /\ pass.at \in DOMAIN TableOf /\ ~pass.waits /\ UNCHANGED historyVars
      /\ pass' = [pass EXCEPT !.waits = TRUE, !.moving = Movable]
  BY DEF MoveWaits
<1>2. /\ pass'.at = pass.at /\ pass'.waits /\ pass'.moving = Movable
      /\ pass'.batch = pass.batch /\ pass'.withheld = pass.withheld
      /\ pass' \in PassState
  BY <1>1, MovableRows DEF TypeOK, PassState
<1>3. txn' = txn /\ db' = db /\ crossed' = crossed /\ episodes' = episodes
  BY <1>1 DEF historyVars
<1>4. pass.at \in {"watch", "rating", "event"} /\ InHand
  BY <1>1 DEF TableOf, InHand
<1>5. InHand' /\ Homes' = Homes /\ Doomed' = txn[Pass].drops
  BY <1>2, <1>3, <1>4 DEF InHand, Homes, Doomed
<1>6. Batched'
  BY <1>2, <1>3, <1>4, <1>5 DEF IInv, Batched
<1>7. Handled'
  BY <1>1, <1>2, <1>3, <1>4, MovableRows DEF IInv, Handled
<1>8. Clean' /\ FactsGone' /\ Kept'
  BY <1>3, <1>5 DEF IInv, Clean, FactsGone, Kept, View, Doomed
<1>9. Whole'
  <2> SUFFICES ASSUME NEW r \in db \cap EpisodeRows, r[3] \in pass.batch,
                      HomeFact(r) \notin crossed
               PROVE  WholeAt(r)'
    BY <1>2, <1>3 DEF Whole
  <2>1. WholeAt(r)
    BY <1>4 DEF IInv, Whole
  <2>2. CASE <<r[2], r[3]>> \in pass.withheld
    BY <1>2, <1>3, <2>1, <2>2 DEF WholeAt
  <2>3. CASE <<r[2], r[3]>> \notin pass.withheld
    <3>1. r[1] \in TableOf[pass.at] => r \in Movable \cup txn[Pass].del
      BY <1>1, <1>4, <2>3, Found
    <3> QED
      BY <1>2, <1>3, <2>1, <2>3, <3>1 DEF WholeAt
  <2> QED
    BY <2>2, <2>3
<1>10. PassParts'
  BY <1>6, <1>7, <1>8, <1>9 DEF PassParts
<1> QED
  BY <1>1, <1>2, <1>10, PassOnly

-----------------------------------------------------------------------------
(* The statements of the pass                                              *)

LEMMA PassIn ==
    ASSUME TypeOK, IInv
    PROVE  /\ txn[Pass] \in Transaction /\ InDb(txn[Pass])
           /\ ApartFrom(Pass, txn[Pass])
           /\ \A q \in Processes \ {Pass} : LocksOf(txn[q]) \subseteq Locked(Pass)
BY PassIs DEF TypeOK, InDb, IInv, Apart, ApartFrom, Locked, Others, LocksOf

LEMMA MoveStep ==
    ASSUME TypeOK, IInv, Move
    PROVE  TypeOK' /\ IInv'
<1> DEFINE rows == Moving \cap db
           homes == {Moved(r) : r \in rows}
           t == [txn[Pass] EXCEPT !.del = @ \cup rows, !.add = @ \cup homes]
<1>1. /\ pass.at \in DOMAIN TableOf /\ ~MoveBlocked /\ homes \cap View(Pass) = {}
      /\ txn' = [txn EXCEPT ![Pass].del = @ \cup rows, ![Pass].add = @ \cup homes]
      /\ pass' = [pass EXCEPT !.at = After[@], !.waits = FALSE, !.moving = {}]
      /\ UNCHANGED <<episodes, db, unmade, crossed>>
  BY DEF Move
<1>2. pass.at \in {"watch", "rating", "event"} /\ InHand
  BY <1>1 DEF TableOf, InHand
<1>3. \A r \in rows : /\ r \in db /\ r \in EpisodeRows
                      /\ r[1] \in TableOf[pass.at] /\ r[3] \in pass.batch
                      /\ <<r[2], r[3]>> \notin pass.withheld
  BY <1>1, MovableRows DEF Moving, IInv, Handled
<1>4. /\ rows \subseteq db /\ rows \subseteq Rows /\ homes \subseteq Rows
      /\ (rows \cup homes) \cap Locked(Pass) = {}
  BY <1>1, <1>3, MovedParts, RowKinds DEF MoveBlocked
<1>5. /\ txn[Pass] \in Transaction /\ InDb(txn[Pass])
      /\ ApartFrom(Pass, txn[Pass])
  BY PassIn
<1>6. txn' = [txn EXCEPT ![Pass] = t]
  BY <1>1, PassIs DEF TypeOK
<1> HIDE DEF rows, homes
<1>7. /\ t \in Transaction
      /\ t.del = txn[Pass].del \cup rows /\ t.add = txn[Pass].add \cup homes
      /\ t.left = txn[Pass].left /\ t.waits = txn[Pass].waits
      /\ t.hold = txn[Pass].hold /\ t.drops = txn[Pass].drops
      /\ t.names = txn[Pass].names /\ t.undoes = txn[Pass].undoes
  BY <1>4, <1>5 DEF Transaction
<1> HIDE DEF t
<1>8. t.drops = {} /\ t.undoes
  BY <1>2, <1>7 DEF IInv, Handled, Batched
<1>9. t # NoTransaction
  BY <1>8 DEF NoTransaction
<1>10. InDb(t)
  BY <1>1, <1>4, <1>5, <1>7 DEF InDb, View
<1>11. ApartFrom(Pass, t)
  <2>1. LocksOf(t) = LocksOf(txn[Pass]) \cup rows \cup homes
    BY <1>7 DEF LocksOf
  <2> QED
    BY <1>4, <1>5, <2>1, PassIn DEF ApartFrom
<1>12. PairedWith(Pass, t)
  BY <1>1, <1>7, PassIs DEF IInv, Paired, PairedWith
<1>13. txn'[Pass] = t
  BY <1>6, PassIs DEF TypeOK
<1>14. /\ pass'.at = After[pass.at] /\ ~pass'.waits /\ pass' \in PassState
       /\ pass'.batch = pass.batch /\ pass'.withheld = pass.withheld
       /\ pass'.at \in {"rating", "event", "retire"}
  <2>1. After[pass.at] \in {"rating", "event", "retire"}
    BY <1>2 DEF After
  <2> QED
    BY <1>1, <2>1 DEF TypeOK, PassState, Stages
<1>15. InHand' /\ Homes' = Homes /\ Doomed' = {}
  BY <1>8, <1>13, <1>14 DEF InHand, Homes, Doomed
<1>16. Batched'
  BY <1>1, <1>2, <1>7, <1>13, <1>14, <1>15 DEF IInv, Batched
<1>17. Handled'
  <2>1. t.del \subseteq {r \in EpisodeRows : r[3] \in pass.batch}
    BY <1>3, <1>7 DEF IInv, Handled
  <2>2. t.add \subseteq {Moved(r) : r \in t.del}
    BY <1>7 DEF IInv, Handled, homes
  <2> QED
    BY <1>8, <1>13, <1>14, <2>1, <2>2 DEF Handled
<1>18. Clean' /\ FactsGone'
  BY <1>8, <1>13, <1>15 DEF Clean, FactsGone
<1>19. Kept'
  BY <1>1, <1>7, <1>13 DEF IInv, Kept, homes
<1>20. Whole'
  <2> SUFFICES ASSUME NEW r \in db \cap EpisodeRows, r[3] \in pass.batch,
                      HomeFact(r) \notin crossed
               PROVE  WholeAt(r)'
    BY <1>1, <1>14 DEF Whole
  <2>1. WholeAt(r)
    BY <1>2 DEF IInv, Whole
  <2>2. CASE <<r[2], r[3]>> \in pass.withheld
    BY <1>3, <1>7, <1>13, <1>14, <2>1, <2>2 DEF WholeAt
  <2>3. CASE <<r[2], r[3]>> \notin pass.withheld
    <3>1. ASSUME r[1] \in Passed[After[pass.at]] PROVE r \in t.del
      <4>1. r[1] \in Passed[pass.at] \/ r[1] \in TableOf[pass.at]
        BY <1>2, <3>1 DEF Passed, After, TableOf, Kinds
      <4>2. CASE r[1] \in Passed[pass.at]
        BY <1>7, <2>1, <2>3, <4>2 DEF WholeAt
      <4>3. CASE r[1] \in TableOf[pass.at] /\ pass.waits
        <5>1. r \in pass.moving \cup txn[Pass].del
          BY <1>1, <2>1, <2>3, <4>3 DEF WholeAt
        <5> QED
          BY <1>7, <4>3, <5>1 DEF rows, Moving
      <4>4. CASE r[1] \in TableOf[pass.at] /\ ~pass.waits
        <5>1. r \in Movable \cup txn[Pass].del
          BY <1>1, <1>2, <2>3, <4>4, Found
        <5> QED
          BY <1>7, <4>4, <5>1 DEF rows, Moving
      <4> QED
        BY <4>1, <4>2, <4>3, <4>4
    <3>2. Moved(r) \notin db
      BY <2>1, <2>3 DEF WholeAt
    <3> QED
      BY <1>1, <1>13, <1>14, <2>3, <3>1, <3>2 DEF WholeAt
  <2> QED
    BY <2>2, <2>3
<1>21. PassParts'
  BY <1>16, <1>17, <1>18, <1>19, <1>20 DEF PassParts
<1>22. crossed' \subseteq FactRows /\ pass'.at \notin {"idle", "next"}
  BY <1>1, <1>14 DEF TypeOK
<1> QED
  BY <1>1, <1>6, <1>7, <1>8, <1>9, <1>10, <1>11, <1>12, <1>14, <1>21, <1>22,
     RequestsUntouched

\* What is seen on an episode that is about to go came with an overlap.
LEMMA RetiringClean ==
    ASSUME TypeOK, IInv, pass.at = "retire"
    PROVE  /\ Retiring \subseteq pass.batch
           /\ \A r \in View(Pass) \cap EpisodeRows :
                r[3] \in Retiring => HomeFact(r) \in crossed
<1>1. CASE pass.waits
  BY <1>1 DEF Retiring, IInv, Handled, Clean, Doomed
<1>2. CASE ~pass.waits
  BY <1>2 DEF Retiring, Referenced, On
<1> QED
  BY <1>1, <1>2

LEMMA RetireWaitsStep ==
    ASSUME TypeOK, IInv, RetireWaits
    PROVE  TypeOK' /\ IInv'
<1>1. /\ pass.at = "retire" /\ ~pass.waits /\ UNCHANGED historyVars
      /\ pass' = [pass EXCEPT !.waits = TRUE, !.retiring = Retiring]
  BY DEF RetireWaits
<1>2. Retiring \subseteq pass.batch
  BY <1>1, RetiringClean
<1>3. /\ pass'.at = pass.at /\ pass'.waits /\ pass'.retiring = Retiring
      /\ pass'.batch = pass.batch /\ pass'.withheld = pass.withheld
      /\ pass' \in PassState
  BY <1>1, <1>2 DEF TypeOK, PassState
<1>4. txn' = txn /\ db' = db /\ crossed' = crossed /\ episodes' = episodes
  BY <1>1 DEF historyVars
<1>5. InHand' /\ InHand /\ Homes' = Homes /\ Doomed' = txn[Pass].drops \cup Retiring
  BY <1>1, <1>3, <1>4 DEF InHand, Homes, Doomed
<1>6. Batched'
  BY <1>3, <1>4, <1>5 DEF IInv, Batched
<1>7. "retire" \notin DOMAIN TableOf
  BY DEF TableOf
<1>8. Handled'
  BY <1>1, <1>2, <1>3, <1>4, <1>7 DEF IInv, Handled
<1>9. Clean'
  BY <1>1, <1>4, <1>5, RetiringClean DEF IInv, Clean, View, Doomed
<1>10. FactsGone' /\ Kept'
  BY <1>4 DEF IInv, FactsGone, Kept, View
<1>11. Whole'
  BY <1>1, <1>3, <1>4, <1>5, <1>7 DEF IInv, Whole, WholeAt
<1>12. PassParts'
  BY <1>6, <1>8, <1>9, <1>10, <1>11 DEF PassParts
<1> QED
  BY <1>1, <1>3, <1>12, PassOnly

LEMMA RetireStep ==
    ASSUME TypeOK, IInv, Retire
    PROVE  TypeOK' /\ IInv'
<1> DEFINE gone == Cascade \cap View(Pass)
           t == [txn[Pass] EXCEPT !.drops = Retiring, !.del = @ \cup gone]
<1>1. /\ pass.at = "retire" /\ ~RetireBlocked
      /\ txn' = [txn EXCEPT ![Pass].drops = Retiring, ![Pass].del = @ \cup gone]
      /\ pass' = [pass EXCEPT !.at = "count", !.waits = FALSE, !.retiring = {}]
      /\ UNCHANGED <<episodes, db, unmade, crossed>>
  BY DEF Retire
<1>2. /\ Retiring \subseteq pass.batch
      /\ \A r \in View(Pass) \cap EpisodeRows :
           r[3] \in Retiring => HomeFact(r) \in crossed
  BY <1>1, RetiringClean
<1>3. \A r \in gone : /\ r \in db /\ r \in EpisodeRows /\ r \in Rows
                      /\ r[3] \in Retiring /\ HomeFact(r) \in crossed
  BY <1>2, FactParts, RowKinds DEF Cascade
<1>4. gone \cap Locked(Pass) = {}
  BY <1>1 DEF RetireBlocked
<1>5. \A p \in Requests : \A f \in txn[p].add \cap EpisodeFacts : f[3] \notin Retiring
  <2> SUFFICES ASSUME NEW p \in Requests, NEW f \in txn[p].add \cap EpisodeFacts,
                      f[3] \in Retiring
               PROVE  FALSE
    OBVIOUS
  <2>1. p \in Others(Pass)
    BY PassIs DEF Others
  <2>2. f \in On(f[3], txn[p].add \cap FactRows)
    BY FactParts DEF On, FactRows
  <2> QED
    BY <1>1, <2>1, <2>2 DEF RetireBlocked
<1>6. \A r \in View(Pass) \cap EpisodeFacts : r[3] \in Retiring => r \in gone
  <2> SUFFICES ASSUME NEW r \in View(Pass) \cap EpisodeFacts, r[3] \in Retiring
               PROVE  r \in gone
    OBVIOUS
  <2>1. r \notin txn[Pass].add
    BY <1>2, AddedAreMoved
  <2> QED
    BY <2>1 DEF View, Cascade
<1>7. /\ txn[Pass] \in Transaction /\ InDb(txn[Pass])
      /\ ApartFrom(Pass, txn[Pass])
  BY PassIn
<1>8. txn' = [txn EXCEPT ![Pass] = t]
  BY <1>1, PassIs DEF TypeOK
<1>9. Retiring \subseteq Episodes
  BY <1>2, BatchIsCopies
<1> HIDE DEF gone
<1>10. /\ t \in Transaction
       /\ t.del = txn[Pass].del \cup gone /\ t.add = txn[Pass].add
       /\ t.left = txn[Pass].left /\ t.waits = txn[Pass].waits
       /\ t.hold = txn[Pass].hold /\ t.drops = Retiring
       /\ t.names = txn[Pass].names /\ t.undoes = txn[Pass].undoes
  BY <1>3, <1>7, <1>9 DEF Transaction
<1> HIDE DEF t
<1>11. InHand
  BY <1>1 DEF InHand
<1>12. t.undoes
  BY <1>10, <1>11 DEF IInv, Batched
<1>13. t # NoTransaction
  BY <1>12 DEF NoTransaction
<1>14. InDb(t)
  BY <1>3, <1>7, <1>10 DEF InDb
<1>15. ApartFrom(Pass, t)
  <2>1. LocksOf(t) = LocksOf(txn[Pass]) \cup gone
    BY <1>10 DEF LocksOf
  <2> QED
    BY <1>4, <1>7, <2>1, PassIn DEF ApartFrom
<1>16. PairedWith(Pass, t)
  BY <1>1, <1>10, PassIs DEF IInv, Paired, PairedWith
<1>17. txn'[Pass] = t
  BY <1>8, PassIs DEF TypeOK
<1>18. /\ pass'.at = "count" /\ ~pass'.waits /\ pass' \in PassState
       /\ pass'.batch = pass.batch /\ pass'.withheld = pass.withheld
  BY <1>1 DEF TypeOK, PassState, Stages
<1>19. InHand' /\ Homes' = Homes /\ Doomed' = Retiring
  BY <1>10, <1>17, <1>18 DEF InHand, Homes, Doomed
<1>20. \A r \in View(Pass)' : r \in View(Pass) /\ (r \in txn[Pass].add \/ r \notin gone)
  BY <1>1, <1>10, <1>17 DEF View
<1>21. Batched'
  BY <1>1, <1>10, <1>11, <1>17, <1>18, <1>19 DEF IInv, Batched
<1>22. Handled'
  <2>1. t.del \subseteq {r \in EpisodeRows : r[3] \in pass.batch}
    BY <1>2, <1>3, <1>10 DEF IInv, Handled
  <2>2. t.add \subseteq {Moved(r) : r \in t.del}
    BY <1>10 DEF IInv, Handled
  <2> QED
    BY <1>2, <1>10, <1>17, <1>18, <2>1, <2>2 DEF Handled
<1>23. Clean'
  BY <1>1, <1>2, <1>19, <1>20 DEF Clean
<1>24. FactsGone'
  <2> SUFFICES ASSUME NEW r \in View(Pass)' \cap EpisodeFacts, r[3] \in Retiring
               PROVE  FALSE
    BY <1>10, <1>17 DEF FactsGone
  <2>1. r \in View(Pass) /\ r \in gone
    BY <1>6, <1>20
  <2>2. r \in txn[Pass].add
    BY <1>20, <2>1
  <2> QED
    BY <1>2, <2>2, AddedAreMoved
<1>25. Kept'
  BY <1>1, <1>3, <1>10, <1>17 DEF IInv, Kept
<1>26. Whole'
  <2> SUFFICES ASSUME NEW r \in db \cap EpisodeRows, r[3] \in pass.batch,
                      HomeFact(r) \notin crossed
               PROVE  WholeAt(r)'
    BY <1>1, <1>18 DEF Whole
  <2>1. WholeAt(r) /\ r \notin gone
    BY <1>3, <1>11 DEF IInv, Whole
  <2>2. Passed["count"] = Passed["retire"]
    BY DEF Passed
  <2> QED
    BY <1>1, <1>10, <1>17, <1>18, <2>1, <2>2 DEF WholeAt
<1>27. PassParts'
  BY <1>21, <1>22, <1>23, <1>24, <1>25, <1>26 DEF PassParts
<1>28. crossed' \subseteq FactRows /\ pass'.at \notin {"idle", "next"}
  BY <1>1, <1>18 DEF TypeOK
<1> QED
  BY <1>1, <1>5, <1>8, <1>10, <1>13, <1>14, <1>15, <1>16, <1>18, <1>27, <1>28,
     RequestsUntouched

LEMMA RepointCommitStep ==
    ASSUME TypeOK, IInv, RepointCommit
    PROVE  TypeOK' /\ IInv'
<1> USE PassIs
<1>1. /\ pass.at = "count" /\ db' = (db \ txn[Pass].del) \cup txn[Pass].add
      /\ db' = View(Pass)
      /\ episodes' = episodes \ txn[Pass].drops
      /\ txn' = [txn EXCEPT ![Pass] = NoTransaction]
      /\ pass' = [NoPass EXCEPT !.at = "next", !.done = pass.done \cup pass.batch]
      /\ UNCHANGED <<unmade, crossed>>
  BY DEF RepointCommit, View
<1>2. /\ txn'[Pass] = NoTransaction
      /\ \A q \in Requests : txn'[q] = txn[q]
      /\ txn' \in [Processes -> Transaction]
  BY <1>1, NoTransactionFits DEF TypeOK
<1>3. txn[Pass] \in Transaction /\ InDb(txn[Pass]) /\ ApartFrom(Pass, txn[Pass])
  BY PassIn
<1>4. /\ pass'.at = "next" /\ pass'.batch = {} /\ ~pass'.waits /\ pass' \in PassState
  BY <1>1 DEF TypeOK, PassState, NoPass, Stages
<1>5. PassParts'
  BY <1>2, <1>4, NothingInHand
<1>6. TypeOK'
  <2>1. db' \subseteq Rows /\ episodes' \subseteq Episodes
    BY <1>1, <1>3 DEF TypeOK, Transaction
  <2>2. ASSUME NEW q \in Processes
        PROVE  txn'[q].del \subseteq db' /\ txn'[q].add \cap db' \subseteq txn'[q].del
    <3>1. CASE q = Pass
      BY <1>2, <3>1 DEF NoTransaction
    <3>2. CASE q # Pass
      <4>1. LocksOf(txn[Pass]) \cap LocksOf(txn[q]) = {} /\ txn'[q] = txn[q]
        BY <1>1, <1>3, <3>2 DEF ApartFrom, TypeOK
      <4>2. txn[q].del \subseteq db /\ txn[q].add \cap db \subseteq txn[q].del
        BY DEF TypeOK
      <4> QED
        BY <1>1, <4>1, <4>2 DEF LocksOf
    <3> QED
      BY <3>1, <3>2
  <2>3. ~InFlight(Pass)'
    BY <1>2 DEF InFlight
  <2> QED
    BY <1>1, <1>2, <1>4, <2>1, <2>2, <2>3 DEF TypeOK
<1>7. Apart' /\ Paired'
  <2>1. ApartFrom(Pass, NoTransaction) /\ PairedWith(Pass, NoTransaction)
    BY EmptyHands
  <2> QED
    BY <1>1, <2>1, ApartStep, PairedStep, NoTransactionFits DEF IInv
<1>8. Unbegun' /\ AllTidy' /\ Named'
  BY <1>1, <1>2 DEF IInv, Unbegun, AllTidy, Named, TypeOK
<1>9. AddsHome'
  BY <1>1, <1>2 DEF IInv, AddsHome, NoTransaction
<1>10. InHand /\ txn[Pass].drops \subseteq pass.batch
  BY <1>1 DEF InHand, IInv, Handled
<1>11. EventsHome'
  <2> SUFFICES ASSUME NEW p \in Requests, NEW r \in WritesOf(txn[p]) \cap EpisodeRows
               PROVE  r \in EpisodeFacts \/ r[3] \in episodes' \/ HomeFact(r) \in crossed
    BY <1>1, <1>2 DEF EventsHome
  <2>1. CASE r[3] \in txn[Pass].drops
    <3>1. TwinOf[r[3]] \in Homes
      BY <1>10, <2>1, InBatch
    <3> QED
      BY <1>10, <3>1, Overlap
  <2>2. CASE r[3] \notin txn[Pass].drops
    BY <1>1, <2>2 DEF IInv, EventsHome
  <2> QED
    BY <2>1, <2>2
<1>12. RowsHome'
  <2> SUFFICES ASSUME NEW r \in View(Pass) \cap EpisodeRows
               PROVE  \/ r[3] \in episodes'
                      \/ r \notin EpisodeFacts /\ HomeFact(r) \in crossed
    BY <1>1 DEF RowsHome
  <2>1. CASE r[3] \in txn[Pass].drops
    BY <2>1 DEF IInv, Clean, FactsGone, Doomed
  <2>2. CASE r[3] \notin txn[Pass].drops /\ r \in db
    BY <1>1, <2>2 DEF IInv, RowsHome
  <2>3. CASE r[3] \notin txn[Pass].drops /\ r \in txn[Pass].add
    <3>1. PICK m \in txn[Pass].del : m \in EpisodeRows /\ m[3] \in pass.batch
                                     /\ r = Moved(m)
      BY <2>3, AddedAreMoved
    <3>2. r[3] = TwinOf[m[3]]
      BY <3>1, MovedParts
    <3> QED
      BY <1>1, <2>3, <3>1, <3>2 DEF IInv, Batched
  <2> QED
    BY <2>1, <2>2, <2>3 DEF View
<1> QED
  BY <1>5, <1>6, <1>7, <1>8, <1>9, <1>11, <1>12 DEF IInv, PassParts

-----------------------------------------------------------------------------
(* What follows                                                            *)

LEMMA BeginsFit == Init => TypeOK /\ IInv
<1> SUFFICES ASSUME Init PROVE TypeOK /\ IInv
  OBVIOUS
<1>1. /\ episodes = Episodes /\ txn = [p \in Processes |-> NoTransaction]
      /\ unmade = Requests /\ crossed = {} /\ pass = NoPass
  BY DEF Init, HistoryInit
<1>2. PICK past \in SUBSET Facts, full \in SUBSET (Users \X Seasons) :
        db = past \cup {EventOf(f) : f \in past}
             \cup {w \in FactRows : /\ w[1] = "watch" /\ w[3] \notin CopiedSpecials
                                    /\ <<w[2], SeasonOf[w[3]]>> \in full}
             \cup {WatchedSeason(us[1], us[2]) : us \in full}
  BY DEF Init, HistoryInit
<1>3. db \subseteq Rows
  BY <1>2, FactsAreRows, RowKinds
<1>4. \A p \in Processes : txn[p] = NoTransaction
  BY <1>1
<1>5. TypeOK
  <2>1. \A p \in Processes : txn[p].del \subseteq db /\ txn[p].add \cap db \subseteq txn[p].del
    BY <1>4 DEF NoTransaction
  <2>2. ~InFlight(Pass) /\ pass.at = "idle" /\ pass \in PassState
    BY <1>1, <1>4, PassIs, NoPassType DEF InFlight
  <2> QED
    BY <1>1, <1>3, <2>1, <2>2, NoTransactionFits DEF TypeOK
<1>6. Apart /\ Unbegun /\ Paired
  BY <1>1, <1>4, PassIs, NoTransactionFits DEF Apart, Unbegun, Paired, NoTransaction
<1>7. AllTidy /\ Named /\ AddsHome /\ EventsHome
  BY <1>4, PassIs, NoTransactionFits
     DEF AllTidy, Named, AddsHome, EventsHome, RequestFits, NoTransaction
<1>8. PassParts
  <2>1. pass.at = "idle" /\ pass.batch = {} /\ ~pass.waits /\ txn[Pass] = NoTransaction
    BY <1>1, <1>4, PassIs, NoPassType
  <2>2. ~InHand /\ Homes = {} /\ Doomed = {}
    BY <2>1 DEF InHand, Homes, Doomed, NoTransaction
  <2>3. Batched /\ Handled
    BY <2>1, <2>2 DEF Batched, Handled, NoTransaction
  <2>4. Clean /\ FactsGone /\ Kept /\ Whole
    BY <2>1, <2>2 DEF Clean, FactsGone, Kept, Whole, NoTransaction
  <2> QED
    BY <2>3, <2>4 DEF PassParts
<1>9. RowsHome
  BY <1>1, RowParts DEF RowsHome
<1> QED
  BY <1>5, <1>6, <1>7, <1>8, <1>9 DEF IInv, PassParts

LEMMA StutterFits ==
    ASSUME TypeOK, IInv, UNCHANGED vars
    PROVE  IInv'
<1>1. UNCHANGED historyVars /\ pass' = pass
  BY DEF vars
<1>2. pass' \in PassState /\ pass'.at = pass.at
  BY <1>1 DEF TypeOK
<1>3. Batched' /\ Handled' /\ Clean' /\ FactsGone' /\ Kept' /\ Whole'
  BY <1>1, PassUntouched DEF historyVars
<1> QED
  BY <1>1, <1>2, <1>3, PassOnly DEF PassParts

LEMMA RepointInvariant == Spec => [](TypeOK /\ IInv)
<1>1. TypeOK /\ IInv /\ [Next]_vars => TypeOK' /\ IInv'
  <2> SUFFICES ASSUME TypeOK, IInv, [Next]_vars PROVE IInv'
    BY DEF IInv
  <2>1. CASE HistoryNext /\ UNCHANGED pass
    BY <2>1, HistoryStep
  <2>2. CASE PassNext
    BY <2>2, StartFinishAbort, SelectStep, MoveWaitsStep, MoveStep,
       RetireWaitsStep, RetireStep, RepointCommitStep DEF PassNext
  <2>3. CASE UNCHANGED vars
    BY <2>3, StutterFits
  <2> QED
    BY <2>1, <2>2, <2>3 DEF Next
<1> QED
  BY <1>1, BeginsFit, PTL DEF Spec

\* Whatever requests and the pass do, tables, transactions and the pass keep
\* their shape, and the pass has locks only while a batch is in hand.
THEOREM Typed == Spec => []TypeOK
BY RepointInvariant, PTL

\* No row is on an episode the pass has deleted (episode_repoint.py
\* EPISODE_STILL_REFERENCED), but an event of a fact that was crossed.
THEOREM NobodyOrphaned == Spec => []NoOrphans
<1>1. TypeOK /\ IInv => NoOrphans
  <2> SUFFICES ASSUME IInv, NEW r \in db \cap EpisodeRows
               PROVE  \/ r[3] \in episodes
                      \/ r \in EventRows
                         /\ \E f \in EpisodeFacts : EventOf(f) = r /\ Home(f) \in crossed
    BY DEF NoOrphans
  <2>1. \/ r[3] \in episodes
        \/ r \notin EpisodeFacts /\ HomeFact(r) \in crossed
    BY DEF IInv, RowsHome
  <2> QED
    BY <2>1, EventTells DEF EventRows, FactRows
<1> QED
  BY <1>1, RepointInvariant, PTL

\* A batch that commits has lost no watch and no rating (user_history.py): each
\* is where it was or on the ingested episode, or was crossed.
THEOREM BatchesKeep == Spec => BatchKeeps
<1>1. TypeOK /\ IInv =>
        [RepointCommit =>
           \A f \in db \cap EpisodeFacts :
              Home(f) \in crossed \/ f \in db' \/ Moved(f) \in db']_vars
  <2> SUFFICES ASSUME TypeOK, IInv, RepointCommit, NEW f \in db \cap EpisodeFacts
               PROVE  Home(f) \in crossed \/ f \in db' \/ Moved(f) \in db'
    OBVIOUS
  <2>1. db' = (db \ txn[Pass].del) \cup txn[Pass].add
    BY DEF RepointCommit, View
  <2>2. f \in txn[Pass].del => Moved(f) \in txn[Pass].add \/ HomeFact(f) \in crossed
    BY DEF IInv, Kept
  <2> QED
    BY <2>1, <2>2, FactParts
<1> QED
  BY <1>1, RepointInvariant, PTL DEF BatchKeeps

\* Nobody else has had u's rows on c, or on its ingested episode, in hand.
Calm(u, c) ==
    \A r \in EpisodeRows :
        r[2] = u /\ TwinOf[r[3]] = TwinOf[c] => HomeFact(r) \notin crossed

LEMMA NotCalm ==
    ASSUME TypeOK, NEW u \in Users, NEW c, ~Calm(u, c)
    PROVE  \E f \in EpisodeFacts : f[2] = u /\ f[3] = TwinOf[c] /\ f \in crossed
<1>1. PICK r \in EpisodeRows : r[2] = u /\ TwinOf[r[3]] = TwinOf[c]
                               /\ HomeFact(r) \in crossed
  BY DEF Calm
<1>2. FactKind[r[1]] \in {"watch", "rating"} /\ TwinOf[c] \in Episodes
  BY <1>1, RowParts, MovedParts DEF FactKind, Kinds
<1>3. HomeFact(r) = <<FactKind[r[1]], u, TwinOf[c]>>
  BY <1>1 DEF HomeFact
<1>4. HomeFact(r) \in EpisodeFacts
  BY <1>2, <1>3 DEF EpisodeFacts
<1> QED
  BY <1>1, <1>3, <1>4

\* One person's rows on a copy move together or stay together (_COLLIDING),
\* though three statements move them and each reads afresh.
THEOREM HistoryMovesTogether == Spec => MovesWhole
<1>1. TypeOK /\ IInv =>
        [RepointCommit =>
           \A u \in Users, c \in pass.batch :
              \/ \E f \in EpisodeFacts : f[2] = u /\ f[3] = TwinOf[c] /\ f \in crossed
              \/ {r \in On(c, db) : r[2] = u} \subseteq db'
              \/ {r \in On(c, db) : r[2] = u} \cap db' = {}]_vars
  <2> SUFFICES ASSUME TypeOK, IInv, RepointCommit, NEW u \in Users,
                      NEW c \in pass.batch, Calm(u, c)
               PROVE  \/ {r \in On(c, db) : r[2] = u} \subseteq db'
                      \/ {r \in On(c, db) : r[2] = u} \cap db' = {}
    BY NotCalm
  <2>1. db' = (db \ txn[Pass].del) \cup txn[Pass].add /\ pass.at = "count"
    BY DEF RepointCommit, View
  <2>2. \A r \in On(c, db) : r \in db /\ r \in EpisodeRows /\ r[3] = c
    BY DEF On
  <2>3. \A r \in On(c, db) : r[2] = u => WholeAt(r)
    BY <2>1, <2>2 DEF IInv, Whole, InHand, Calm
  <2>4. CASE <<u, c>> \in pass.withheld
    BY <2>1, <2>2, <2>3, <2>4 DEF WholeAt
  <2>5. CASE <<u, c>> \notin pass.withheld
    <3>1. \A r \in On(c, db) : r[2] = u => r \in txn[Pass].del
      BY <2>1, <2>2, <2>3, <2>5, RowParts DEF WholeAt, Passed
    <3>2. \A r \in txn[Pass].add : r[3] # c
      BY AddedAreMoved
    <3> QED
      BY <2>1, <2>2, <3>1, <3>2
  <2> QED
    BY <2>4, <2>5
<1> QED
  BY <1>1, RepointInvariant, PTL DEF MovesWhole

-----------------------------------------------------------------------------
(* The ledger: of every fact and every watch that no two transactions have *)
(* crossed, what a request has done and is about to do keeps the row and   *)
(* its event in step.                                                      *)

\* The rows of the statements of some kinds.
Written == {"insert", "upsert"}
Removed == {"delete", "collapse"}
RowsOf(s, kinds) == UNION {s[i].rows : i \in {j \in DOMAIN s : s[j].does \in kinds}}

\* What a transaction sees; what it has taken away or will; what it has locked or
\* will write for sure; and what it has to do with at all.
Sees(t) == (db \ t.del) \cup t.add
Struck(t) == t.del \cup RowsOf(t.left, Removed)
Secured(t) == t.add \cup t.hold \cup RowsOf(t.left, {"upsert"})
Touched(t) == t.add \cup t.del \cup RowsOf(t.left, Written \cup Removed)

\* What a row comes to when the statements that are left have run.
Goes(t, r) == /\ r \notin WritesOf(t)
              /\ r \in Sees(t) => r \in RowsOf(t.left, {"delete"})
Stays(t, r) == /\ r \notin Struck(t)
               /\ r \in Sees(t) \cup WritesOf(t)

\* A request leaves a fact and its event alone, or puts both, or takes both back.
Leaves(t, f) == Touched(t) \cap {f, EventOf(f)} = {}
Puts(t, f) == Home(f) \in t.names /\ Stays(t, f) /\ Stays(t, EventOf(f))
TakesBack(t, f) == t.undoes /\ Home(f) \in t.names /\ Goes(t, f)
AccordIn(t) ==
    \A f \in FactRows :
        f[1] # "watch" /\ Home(f) \notin crossed =>
            \/ Leaves(t, f)
            \/ Puts(t, f)
            \/ TakesBack(t, f) /\ Goes(t, EventOf(f))

\* The events that answer for a watch: those that tell of it, and the show mark's,
\* which takes those away of every episode but the copied specials.
Answering(w) ==
    {EventOf(w)} \cup
       (IF w[3] \in CopiedSpecials THEN {}
        ELSE {WatchedSeason(w[2], SeasonOf[w[3]]), WatchedShow(w[2])})

\* Who puts a watch, or takes an event away that answers for it, has locked one
\* that does, or is about to; unless the watch goes as well.
Tells(t, w) == \E e \in Answering(w) : e \in Secured(t) \ Struck(t)
TaleIn(t) ==
    \A w \in EpisodeFacts :
        /\ w[1] = "watch" /\ w[3] \in episodes /\ Home(w) \notin crossed
        /\ Answering(w) \cap Struck(t) # {} \/ w \in WritesOf(t)
        => Tells(t, w) \/ TakesBack(t, w)

\* A row updated in place is there until its transaction ends.
HoldsStay == \A p \in Requests : txn[p].hold \subseteq db
Accord == \A p \in Requests : AccordIn(txn[p])
Tale == \A p \in Requests : TaleIn(txn[p])
Answered == \A w \in db \cap EpisodeFacts :
                w[1] = "watch" /\ Home(w) \notin crossed => Answering(w) \cap db # {}
LInv == HoldsStay /\ Accord /\ Tale /\ LedgerAgrees /\ Answered

-----------------------------------------------------------------------------
(* Facts, events and the rows of a program                                 *)

\* Which events tell of which facts.
LEMMA EventKinds ==
    /\ \A f \in FactRows :
         /\ f[1] \in {"watch", "rating", "membership"}
         /\ f = <<f[1], f[2], f[3]>>
         /\ EventOf(f) \notin FactRows
         /\ EventOf(f)[2] = f[2] /\ EventOf(f)[3] = f[3]
         /\ EventOf(f)[1] \in {"watched_episode", "rated", "added_show"}
         /\ f[1] = "watch" <=> EventOf(f)[1] = "watched_episode"
    /\ \A f, g \in FactRows : EventOf(f) = EventOf(g) => f = g
<1>1. ASSUME NEW f \in FactRows
      PROVE  /\ f[1] \in {"watch", "rating", "membership"}
             /\ f = <<f[1], f[2], f[3]>>
  BY DEF FactRows, EpisodeFacts, ShowFacts
<1>2. ASSUME NEW f \in FactRows
      PROVE  /\ EventOf(f)[2] = f[2] /\ EventOf(f)[3] = f[3]
             /\ \/ f[1] = "watch" /\ EventOf(f)[1] = "watched_episode"
                \/ f[1] = "rating" /\ EventOf(f)[1] = "rated"
                \/ f[1] = "membership" /\ EventOf(f)[1] = "added_show"
  BY <1>1 DEF EventOf
<1>3. ASSUME NEW f \in FactRows PROVE EventOf(f) \notin FactRows
  BY <1>1, <1>2
<1>4. ASSUME NEW f \in FactRows, NEW g \in FactRows, EventOf(f) = EventOf(g)
      PROVE  f = g
  <2>1. f[1] = g[1] /\ f[2] = g[2] /\ f[3] = g[3]
    BY <1>2, <1>4
  <2> QED
    BY <1>1, <2>1
<1> QED
  BY <1>1, <1>2, <1>3, <1>4

LEMMA AnsweringKinds ==
    ASSUME NEW w \in EpisodeFacts, w[1] = "watch"
    PROVE  /\ w \in FactRows /\ EventOf(w) \in Answering(w)
           /\ \A e \in Answering(w) :
                /\ e \notin FactRows
                /\ \/ e = EventOf(w)
                   \/ /\ w[3] \notin CopiedSpecials
                      /\ e \in {WatchedSeason(w[2], SeasonOf[w[3]]), WatchedShow(w[2])}
<1>1. w \in FactRows
  BY DEF FactRows
<1>2. \A f \in FactRows : f[1] \notin {"watched_season", "watched_show"}
  BY EventKinds
<1>3. \A u, s : WatchedSeason(u, s) \notin FactRows
  BY <1>2 DEF WatchedSeason
<1>4. \A u : WatchedShow(u) \notin FactRows
  BY <1>2 DEF WatchedShow
<1>5. EventOf(w) \notin FactRows
  BY <1>1, EventKinds
<1>6. \A e \in Answering(w) : e \notin FactRows
  BY <1>3, <1>4, <1>5 DEF Answering
<1> QED
  BY <1>1, <1>6 DEF Answering

-----------------------------------------------------------------------------
(* Statement by statement                                                  *)

LEMMA RowsOfTail ==
    ASSUME NEW s \in Seq(Statement), s # <<>>, NEW kinds
    PROVE  RowsOf(s, kinds) = RowsOf(Tail(s), kinds)
                              \cup (IF Head(s).does \in kinds THEN Head(s).rows ELSE {})
<1>1. /\ DOMAIN s = 1 .. Len(s) /\ Len(s) \in Nat \ {0} /\ Head(s) = s[1]
      /\ DOMAIN Tail(s) = 1 .. Len(s) - 1
      /\ \A i \in 1 .. Len(s) - 1 : Tail(s)[i] = s[i + 1]
  OBVIOUS
<1>2. ASSUME NEW r \in RowsOf(s, kinds), r \notin RowsOf(Tail(s), kinds)
      PROVE  Head(s).does \in kinds /\ r \in Head(s).rows
  <2>1. PICK i \in DOMAIN s : s[i].does \in kinds /\ r \in s[i].rows
    BY DEF RowsOf
  <2>2. CASE i = 1
    BY <1>1, <2>1, <2>2
  <2>3. CASE i # 1
    <3>1. i - 1 \in DOMAIN Tail(s) /\ Tail(s)[i - 1] = s[i]
      BY <1>1, <2>3
    <3> QED
      BY <1>2, <2>1, <3>1 DEF RowsOf
  <2> QED
    BY <2>2, <2>3
<1>3. ASSUME NEW r \in RowsOf(Tail(s), kinds) PROVE r \in RowsOf(s, kinds)
  <2>1. PICK i \in DOMAIN Tail(s) : Tail(s)[i].does \in kinds /\ r \in Tail(s)[i].rows
    BY DEF RowsOf
  <2>2. i + 1 \in DOMAIN s /\ Tail(s)[i] = s[i + 1]
    BY <1>1
  <2> QED
    BY <2>1, <2>2 DEF RowsOf
<1>4. Head(s).does \in kinds => Head(s).rows \subseteq RowsOf(s, kinds)
  <2>1. 1 \in DOMAIN s
    BY <1>1
  <2> QED
    BY <1>1, <2>1 DEF RowsOf
<1> QED
  BY <1>2, <1>3, <1>4

LEMMA NoRowsLeft ==
    ASSUME NEW kinds
    PROVE  RowsOf(<<>>, kinds) = {}
BY DEF RowsOf

LEMMA WritesAre ==
    ASSUME NEW t \in Transaction
    PROVE  WritesOf(t) = t.add \cup RowsOf(t.left, Written)
<1>1. t.left \in Seq(Statement)
  BY DEF Transaction
<1>2. ASSUME NEW i \in DOMAIN t.left
      PROVE  t.left[i].does \in Written \cup Removed
  <2>1. t.left[i] \in Statement
    BY <1>1
  <2> QED
    BY <2>1 DEF Statement, Written, Removed
<1>3. Adding(t) = {j \in DOMAIN t.left : t.left[j].does \in Written}
  BY <1>2 DEF Adding, Removing, Written, Removed
<1> QED
  BY <1>3 DEF WritesOf, RowsOf

\* n is t some statements later: what goes or stays under t does so under n.
Carries(t, n) ==
    /\ n.names = t.names /\ n.undoes = t.undoes
    /\ Touched(n) \subseteq Touched(t) /\ Struck(n) \subseteq Struck(t)
    /\ WritesOf(n) \subseteq WritesOf(t)
    /\ \A r : /\ Goes(t, r) => Goes(n, r)
              /\ Stays(t, r) => Stays(n, r)
    /\ Secured(t) \ Struck(t) \subseteq Secured(n)

LEMMA Carried ==
    ASSUME NEW t, NEW n, Carries(t, n), AccordIn(t), TaleIn(t)
    PROVE  AccordIn(n) /\ TaleIn(n)
<1>1. ASSUME NEW f, Leaves(t, f) PROVE Leaves(n, f)
  BY <1>1 DEF Carries, Leaves
<1>2. ASSUME NEW f, Puts(t, f) PROVE Puts(n, f)
  BY <1>2 DEF Carries, Puts
<1>3. ASSUME NEW f, TakesBack(t, f) PROVE TakesBack(n, f)
  BY <1>3 DEF Carries, TakesBack
<1>4. ASSUME NEW f, Goes(t, EventOf(f)) PROVE Goes(n, EventOf(f))
  BY <1>4 DEF Carries
<1>5. AccordIn(n)
  BY <1>1, <1>2, <1>3, <1>4 DEF AccordIn
<1>6. ASSUME NEW w, Tells(t, w) PROVE Tells(n, w)
  BY <1>6 DEF Carries, Tells
<1>7. TaleIn(n)
  BY <1>3, <1>6 DEF TaleIn, Carries
<1> QED
  BY <1>5, <1>7

-----------------------------------------------------------------------------
(* A statement that runs, or waits, does what its program said             *)

LEMMA KindsOf ==
    ASSUME NEW st \in Statement
    PROVE  /\ Removing(st) <=> st.does \in Removed
           /\ ~Removing(st) <=> st.does \in Written
           /\ st.does = "delete" => Removing(st)
           /\ st.does = "upsert" => ~Removing(st)
           /\ st.does \in Written \cup Removed
BY DEF Statement, Removing, Removed, Written

LEMMA Prepended ==
    ASSUME NEW st \in Statement, NEW rest \in Seq(Statement)
    PROVE  /\ <<st>> \o rest \in Seq(Statement) /\ <<st>> \o rest # <<>>
           /\ Head(<<st>> \o rest) = st /\ Tail(<<st>> \o rest) = rest
<1> DEFINE new == <<st>> \o rest
<1>1. /\ new \in Seq(Statement) /\ Len(new) = Len(rest) + 1 /\ Len(rest) \in Nat
      /\ new[1] = st /\ \A i \in 1 .. Len(rest) : new[i + 1] = rest[i]
  OBVIOUS
<1>2. new # <<>> /\ Head(new) = st
  BY <1>1
<1>3. Tail(new) \in Seq(Statement) /\ Len(Tail(new)) = Len(rest)
  BY <1>1, <1>2
<1>4. \A i \in 1 .. Len(rest) : Tail(new)[i] = rest[i]
  BY <1>1, <1>2
<1>5. Tail(new) = rest
  BY <1>3, <1>4
<1> QED
  BY <1>1, <1>2, <1>5

LEMMA ExecuteCarries ==
    ASSUME TypeOK, IInv, NEW p \in Requests, Execute(p)
    PROVE  \E n \in Transaction : /\ txn' = [txn EXCEPT ![p] = n]
                                  /\ Carries(txn[p], n)
                                  /\ n.hold \subseteq txn[p].hold \cup db
<1> DEFINE t == txn[p]
           s == t.left
           st == Head(s)
           rows == Matched(p, st)
<1>1. PICK n \in Transaction :
        /\ txn' = [txn EXCEPT ![p] = n]
        /\ n.left = Tail(s) /\ n.drops = t.drops
        /\ n.names = t.names /\ n.undoes = t.undoes
        /\ IF Removing(st)
           THEN n.add = t.add /\ n.del = t.del \cup rows /\ n.hold = t.hold
           ELSE /\ n.add = t.add \cup (rows \ View(p))
                /\ n.del = t.del
                /\ n.hold \in {t.hold, t.hold \cup (rows \cap db)}
                /\ st.does = "upsert" => n.hold = t.hold \cup (rows \cap db)
  BY ExecuteFacts
<1>2. s # <<>>
  BY DEF Execute
<1>3. t \in Transaction /\ s \in Seq(Statement) /\ st \in Statement
  BY <1>2, HeadOf, RequestIs
<1>4. /\ rows \subseteq st.rows
      /\ ~Removing(st) => rows = st.rows
      /\ st.does = "delete" => rows = st.rows \cap Sees(t)
  BY <1>3, MatchedIn DEF View, Sees
<1>5. /\ Removing(st) <=> st.does \in Removed
      /\ ~Removing(st) <=> st.does \in Written
      /\ st.does = "delete" => Removing(st)
      /\ st.does = "upsert" => ~Removing(st)
      /\ st.does \in Written \cup Removed
  BY <1>3, KindsOf
<1>6. \A kinds : RowsOf(s, kinds) = RowsOf(n.left, kinds)
                   \cup (IF st.does \in kinds THEN st.rows ELSE {})
  BY <1>1, <1>2, <1>3, RowsOfTail
<1>7. /\ WritesOf(t) = t.add \cup RowsOf(s, Written)
      /\ WritesOf(n) = n.add \cup RowsOf(n.left, Written)
  BY <1>1, <1>3, WritesAre
<1>8. View(p) = Sees(t)
  BY DEF View, Sees
<1> DEFINE WN == RowsOf(n.left, Written)
           RN == RowsOf(n.left, Removed)
           AN == RowsOf(n.left, Written \cup Removed)
           DN == RowsOf(n.left, {"delete"})
           UN == RowsOf(n.left, {"upsert"})
<1>9. /\ RowsOf(s, Written) = WN \cup (IF ~Removing(st) THEN st.rows ELSE {})
      /\ RowsOf(s, Removed) = RN \cup (IF Removing(st) THEN st.rows ELSE {})
      /\ RowsOf(s, Written \cup Removed) = AN \cup st.rows
      /\ RowsOf(s, {"delete"}) = DN \cup (IF st.does = "delete" THEN st.rows ELSE {})
      /\ RowsOf(s, {"upsert"}) = UN \cup (IF st.does = "upsert" THEN st.rows ELSE {})
  BY <1>5, <1>6
<1> HIDE DEF WN, RN, AN, DN, UN, rows, st, s
<1>10. /\ WritesOf(n) = n.add \cup WN
       /\ Struck(n) = n.del \cup RN
       /\ Touched(n) = n.add \cup n.del \cup AN
       /\ Secured(n) = n.add \cup n.hold \cup UN
       /\ Sees(n) = (db \ n.del) \cup n.add
       /\ \A r : Goes(n, r) <=> r \notin WritesOf(n) /\ (r \in Sees(n) => r \in DN)
  BY <1>7 DEF WN, RN, AN, DN, UN, Struck, Touched, Secured, Sees, Goes
<1>11. /\ WritesOf(t) = t.add \cup RowsOf(s, Written)
       /\ Struck(t) = t.del \cup RowsOf(s, Removed)
       /\ Touched(t) = t.add \cup t.del \cup RowsOf(s, Written \cup Removed)
       /\ Secured(t) = t.add \cup t.hold \cup RowsOf(s, {"upsert"})
       /\ Sees(t) = (db \ t.del) \cup t.add
       /\ \A r : Goes(t, r) <=>
                   r \notin WritesOf(t) /\ (r \in Sees(t) => r \in RowsOf(s, {"delete"}))
  BY <1>7 DEF Struck, Touched, Secured, Sees, Goes, s
<1> HIDE DEF t
<1>12. CASE Removing(st)
  <2>1. /\ n.add = t.add /\ n.del = t.del \cup rows /\ n.hold = t.hold
        /\ st.does # "upsert"
    BY <1>1, <1>5, <1>12
  <2>2. /\ Touched(n) \subseteq Touched(t) /\ Struck(n) \subseteq Struck(t)
        /\ WritesOf(n) = WritesOf(t) /\ Secured(n) = Secured(t)
    BY <1>4, <1>9, <1>10, <1>11, <1>12, <2>1
  <2>3. ASSUME NEW r, Goes(t, r) PROVE Goes(n, r)
    <3> SUFFICES ASSUME r \in Sees(n) PROVE r \in DN
      BY <1>10, <1>11, <2>2, <2>3
    <3>1. r \notin t.add /\ r \in Sees(t) /\ r \notin rows
      BY <1>10, <1>11, <2>1, <2>3
    <3>2. r \in RowsOf(s, {"delete"})
      BY <1>11, <2>3, <3>1
    <3> QED
      BY <1>4, <1>9, <3>1, <3>2
  <2>4. ASSUME NEW r, Stays(t, r) PROVE Stays(n, r)
    <3>1. r \notin Struck(t) /\ r \in Sees(t) \cup WritesOf(t)
      BY <2>4 DEF Stays
    <3>2. r \notin rows
      BY <1>4, <1>9, <1>11, <1>12, <3>1
    <3> QED
      BY <1>10, <1>11, <2>1, <2>2, <3>1, <3>2 DEF Stays
  <2> QED
    BY <1>1, <2>1, <2>2, <2>3, <2>4 DEF Carries, t
<1>13. CASE ~Removing(st)
  <2>1. /\ n.add = t.add \cup (rows \ Sees(t)) /\ n.del = t.del
        /\ n.hold \in {t.hold, t.hold \cup (rows \cap db)}
        /\ st.does = "upsert" => n.hold = t.hold \cup (rows \cap db)
        /\ st.does # "delete" /\ rows = st.rows
    BY <1>1, <1>4, <1>5, <1>8, <1>13
  <2>2. /\ Touched(n) \subseteq Touched(t) /\ Struck(n) \subseteq Struck(t)
        /\ WritesOf(n) \subseteq WritesOf(t)
    BY <1>9, <1>10, <1>11, <1>13, <2>1
  <2>3. Sees(n) = Sees(t) \cup rows
    BY <1>10, <1>11, <2>1
  <2>4. ASSUME NEW r, Goes(t, r) PROVE Goes(n, r)
    <3>1. r \notin WritesOf(t) /\ r \notin rows
      BY <1>9, <1>11, <1>13, <2>1, <2>4
    <3> QED
      BY <1>9, <1>10, <1>11, <2>1, <2>2, <2>3, <2>4, <3>1
  <2>5. ASSUME NEW r, Stays(t, r) PROVE Stays(n, r)
    <3>1. r \notin Struck(t) /\ r \in Sees(t) \cup WritesOf(t)
      BY <2>5 DEF Stays
    <3>2. r \in Sees(n) \cup WritesOf(n)
      BY <1>9, <1>10, <1>11, <1>13, <2>1, <2>3, <3>1
    <3> QED
      BY <2>2, <3>1, <3>2 DEF Stays
  <2>6. ASSUME NEW e \in Secured(t) PROVE e \in Secured(n)
    <3>1. CASE e \in st.rows /\ st.does = "upsert"
      BY <1>10, <1>11, <2>1, <3>1
    <3>2. CASE e \in t.add \cup t.hold \cup UN
      BY <1>10, <2>1, <3>2
    <3> QED
      BY <1>9, <1>11, <3>1, <3>2
  <2> QED
    BY <1>1, <2>1, <2>2, <2>4, <2>5, <2>6 DEF Carries, t
<1> QED
  BY <1>12, <1>13

LEMMA WaitCarries ==
    ASSUME TypeOK, IInv, NEW p \in Requests, Wait(p)
    PROVE  \E n \in Transaction : /\ txn' = [txn EXCEPT ![p] = n]
                                  /\ Carries(txn[p], n)
                                  /\ n.hold = txn[p].hold
<1> DEFINE t == txn[p]
           s == t.left
           st == Head(s)
           found == [does |-> IF st.does = "collapse" THEN "delete" ELSE st.does,
                     rows |-> Matched(p, st)]
           new == <<found>> \o Tail(s)
           n == [t EXCEPT !.left = new, !.waits = TRUE]
<1>1. s # <<>> /\ txn' = [txn EXCEPT ![p] = n]
  BY PassIs DEF Wait, TypeOK
<1>2. /\ t \in Transaction /\ s \in Seq(Statement) /\ st \in Statement
      /\ Tail(s) \in Seq(Statement)
  BY <1>1, HeadOf, RequestIs
<1>3. /\ found.rows \subseteq st.rows
      /\ ~Removing(st) => found.rows = st.rows
      /\ st.does = "delete" => found.rows = st.rows \cap Sees(t)
      /\ found \in Statement
  BY <1>2, MatchedIn DEF View, Sees, Statement
<1>4. /\ Removing(st) <=> st.does \in Removed
      /\ ~Removing(st) <=> st.does \in Written
      /\ st.does = "delete" => Removing(st)
      /\ st.does = "upsert" => ~Removing(st)
      /\ st.does \in Written \cup Removed
  BY <1>2, KindsOf
<1>5. /\ found.does \in Removed <=> Removing(st)
      /\ found.does \in Written <=> ~Removing(st)
      /\ ~Removing(st) => found.does = st.does
      /\ found.does \in Written \cup Removed
      /\ st.does = "delete" => found.does = "delete"
      /\ found.does = "upsert" <=> st.does = "upsert"
  BY <1>4 DEF Removed, Written
<1> HIDE DEF found
<1>6. /\ new \in Seq(Statement) /\ new # <<>> /\ Head(new) = found
      /\ Tail(new) = Tail(s)
  BY <1>2, <1>3, Prepended
<1> HIDE DEF new, st
<1>7. /\ n \in Transaction /\ n.left = new /\ n.add = t.add
      /\ n.del = t.del /\ n.hold = t.hold
      /\ n.names = t.names /\ n.undoes = t.undoes
  BY <1>2, <1>6 DEF Transaction
<1>8. \A kinds :
        /\ RowsOf(s, kinds) = RowsOf(Tail(s), kinds)
                   \cup (IF st.does \in kinds THEN st.rows ELSE {})
        /\ RowsOf(new, kinds) = RowsOf(Tail(s), kinds)
                   \cup (IF found.does \in kinds THEN found.rows ELSE {})
  BY <1>1, <1>2, <1>6, RowsOfTail DEF st
<1> HIDE DEF s
<1>9. /\ RowsOf(new, Written) = RowsOf(s, Written)
      /\ RowsOf(new, {"upsert"}) = RowsOf(s, {"upsert"})
      /\ RowsOf(new, Removed) \subseteq RowsOf(s, Removed)
      /\ RowsOf(new, Written \cup Removed) \subseteq RowsOf(s, Written \cup Removed)
  <2>1. RowsOf(new, Written) = RowsOf(s, Written)
    BY <1>3, <1>4, <1>5, <1>8
  <2>2. RowsOf(new, {"upsert"}) = RowsOf(s, {"upsert"})
    BY <1>3, <1>4, <1>5, <1>8
  <2>3. RowsOf(new, Removed) \subseteq RowsOf(s, Removed)
    BY <1>3, <1>4, <1>5, <1>8
  <2>4. RowsOf(new, Written \cup Removed) \subseteq RowsOf(s, Written \cup Removed)
    BY <1>3, <1>4, <1>8
  <2> QED
    BY <2>1, <2>2, <2>3, <2>4
<1>10. \A r \in Sees(t) : r \in RowsOf(s, {"delete"}) => r \in RowsOf(new, {"delete"})
  BY <1>3, <1>5, <1>8
<1>11. /\ WritesOf(t) = t.add \cup RowsOf(s, Written)
       /\ WritesOf(n) = t.add \cup RowsOf(new, Written)
  BY <1>2, <1>7, WritesAre DEF s
<1> HIDE DEF n
<1>12. Sees(n) = Sees(t) /\ WritesOf(n) = WritesOf(t)
  BY <1>7, <1>9, <1>11 DEF Sees
<1>13. Struck(n) \subseteq Struck(t) /\ Touched(n) \subseteq Touched(t)
       /\ Secured(n) = Secured(t)
  BY <1>7, <1>9 DEF Struck, Touched, Secured, s
<1>14. ASSUME NEW r, Goes(t, r) PROVE Goes(n, r)
  BY <1>7, <1>10, <1>12, <1>14 DEF Goes, s
<1>15. ASSUME NEW r, Stays(t, r) PROVE Stays(n, r)
  BY <1>12, <1>13, <1>15 DEF Stays
<1>16. Carries(t, n)
  BY <1>7, <1>12, <1>13, <1>14, <1>15 DEF Carries
<1> QED
  BY <1>1, <1>7, <1>16

-----------------------------------------------------------------------------
(* A request commits: the others keep their word, and the ledger agrees    *)

\* What q relies on stands when the rows gone are deleted and the rows come are
\* inserted by another, who crosses what q names and takes back, or puts and
\* sees taken.
LEMMA StandsBy ==
    ASSUME NEW q \in Requests, txn'[q] = txn[q], NEW gone, NEW come,
           db' = (db \ gone) \cup come, crossed' = crossed, episodes' \subseteq episodes,
           AccordIn(txn[q]), TaleIn(txn[q]),
           \A f \in FactRows :
              Home(f) \notin crossed /\ Home(f) \in txn[q].names =>
                 /\ f[1] # "watch" => {f, EventOf(f)} \cap gone = {}
                 /\ txn[q].undoes => f \notin come
                 /\ txn[q].undoes /\ f[1] # "watch" => EventOf(f) \notin come
    PROVE  AccordIn(txn[q])' /\ TaleIn(txn[q])'
<1>1. /\ Sees(txn[q]) = (db \ txn[q].del) \cup txn[q].add
      /\ Sees(txn[q])' = (((db \ gone) \cup come) \ txn[q].del) \cup txn[q].add
      /\ WritesOf(txn[q])' = WritesOf(txn[q])
      /\ Struck(txn[q])' = Struck(txn[q]) /\ Secured(txn[q])' = Secured(txn[q])
      /\ Touched(txn[q])' = Touched(txn[q])
      /\ RowsOf(txn'[q].left, {"delete"}) = RowsOf(txn[q].left, {"delete"})
  BY DEF Sees, WritesOf, Adding, Struck, Secured, Touched
<1>2. ASSUME NEW r, r \notin come, Goes(txn[q], r) PROVE Goes(txn[q], r)'
  BY <1>1, <1>2 DEF Goes
<1>3. ASSUME NEW r, r \notin gone, Stays(txn[q], r) PROVE Stays(txn[q], r)'
  BY <1>1, <1>3 DEF Stays
<1>4. AccordIn(txn[q])'
  <2> SUFFICES ASSUME NEW f \in FactRows, f[1] # "watch", Home(f) \notin crossed
               PROVE  \/ Leaves(txn[q], f)'
                      \/ Puts(txn[q], f)'
                      \/ TakesBack(txn[q], f)' /\ Goes(txn[q], EventOf(f))'
    BY DEF AccordIn
  <2>1. CASE Leaves(txn[q], f)
    BY <1>1, <2>1 DEF Leaves
  <2>2. CASE Puts(txn[q], f)
    BY <1>3, <2>2 DEF Puts
  <2>3. CASE TakesBack(txn[q], f) /\ Goes(txn[q], EventOf(f))
    BY <1>2, <2>3 DEF TakesBack
  <2> QED
    BY <2>1, <2>2, <2>3 DEF AccordIn
<1>5. TaleIn(txn[q])'
  <2> SUFFICES ASSUME NEW w \in EpisodeFacts,
                      w[1] = "watch", w[3] \in episodes, Home(w) \notin crossed,
                      Answering(w) \cap Struck(txn[q]) # {} \/ w \in WritesOf(txn[q])
               PROVE  Tells(txn[q], w)' \/ TakesBack(txn[q], w)'
    BY <1>1 DEF TaleIn
  <2>1. w \in FactRows
    BY DEF FactRows
  <2>2. CASE Tells(txn[q], w)
    BY <1>1, <2>2 DEF Tells
  <2>3. CASE TakesBack(txn[q], w)
    BY <1>2, <2>1, <2>3 DEF TakesBack
  <2> QED
    BY <2>2, <2>3 DEF TaleIn
<1> QED
  BY <1>4, <1>5

\* A fact of which a request has the watch, or a row that is not one, in hand, is
\* named by it.
LEMMA RequestNames ==
    ASSUME TypeOK, IInv, LInv, NEW p \in Requests, NEW f \in FactRows,
           Home(f) \notin crossed
    PROVE  /\ f[1] # "watch" /\ {f, EventOf(f)} \cap (txn[p].add \cup txn[p].del) # {} =>
                Home(f) \in txn[p].names
           /\ f[1] # "watch" /\ {f, EventOf(f)} \cap txn[p].del # {} => txn[p].undoes
           /\ f \in txn[p].add => Home(f) \in txn[p].names
<1>1. CASE f[1] # "watch"
  <2>1. \/ Leaves(txn[p], f)
        \/ Puts(txn[p], f)
        \/ TakesBack(txn[p], f) /\ Goes(txn[p], EventOf(f))
    BY <1>1 DEF LInv, Accord, AccordIn
  <2>2. CASE Leaves(txn[p], f)
    BY <2>2 DEF Leaves, Touched
  <2>3. CASE Puts(txn[p], f)
    BY <2>3 DEF Puts, Stays, Struck
  <2>4. CASE TakesBack(txn[p], f)
    BY <2>4 DEF TakesBack
  <2> QED
    BY <2>1, <2>2, <2>3, <2>4
<1>2. CASE f[1] = "watch"
  <2>1. f \in EpisodeFacts
    BY <1>2 DEF FactRows, ShowFacts
  <2>2. f \in txn[p].add => f \in WritesOf(txn[p]) \cap EpisodeRows
    BY <2>1, FactParts DEF WritesOf
  <2> QED
    BY <1>2, <2>1, <2>2, FactParts DEF IInv, Named
<1> QED
  BY <1>1, <1>2

LEMMA PassNames ==
    ASSUME TypeOK, IInv, InHand, NEW f \in FactRows,
           {f, EventOf(f)} \cap (txn[Pass].add \cup txn[Pass].del) # {}
    PROVE  Home(f) \in txn[Pass].names /\ txn[Pass].undoes
<1>1. ASSUME NEW r \in txn[Pass].add \cup txn[Pass].del
      PROVE  r \in EpisodeRows /\ HomeFact(r) \in txn[Pass].names
  <2>1. ASSUME NEW m \in txn[Pass].del
        PROVE  m \in EpisodeRows /\ HomeFact(m) \in txn[Pass].names
    <3>1. m \in EpisodeRows /\ m[3] \in pass.batch
      BY <2>1 DEF IInv, Handled
    <3> QED
      BY <3>1, InBatch DEF IInv, Batched
  <2>2. CASE r \in txn[Pass].del
    BY <2>1, <2>2
  <2>3. CASE r \in txn[Pass].add
    <3>1. PICK m \in txn[Pass].del : r = Moved(m)
      BY <2>3, AddedAreMoved
    <3> QED
      BY <2>1, <3>1, MovedParts
  <2> QED
    BY <1>1, <2>2, <2>3
<1>2. f \in EpisodeFacts
  BY <1>1, RowKinds DEF FactRows
<1>3. Home(f) \in txn[Pass].names
  BY <1>1, <1>2, FactParts
<1> QED
  BY <1>3 DEF IInv, Batched

LEMMA IdleAgrees ==
    AccordIn(NoTransaction)' /\ TaleIn(NoTransaction)'
<1>1. /\ NoTransaction.left = <<>> /\ NoTransaction.add = {}
      /\ NoTransaction.del = {} /\ NoTransaction \in Transaction
  BY NoTransactionFits DEF NoTransaction
<1>2. /\ Touched(NoTransaction) = {} /\ Struck(NoTransaction) = {}
      /\ WritesOf(NoTransaction) = {}
  BY <1>1, NoRowsLeft, NoTransactionFits DEF Touched, Struck
<1> QED
  BY <1>2 DEF AccordIn, TaleIn, Leaves

LEMMA AnsweredThen ==
    ASSUME NEW w \in EpisodeFacts
    PROVE  Answering(w)' = Answering(w)
BY DEF Answering

-----------------------------------------------------------------------------

LEMMA HoldsStand ==
    ASSUME TypeOK, IInv, LInv, NEW p \in Processes, NEW q \in Requests, p # q,
           db' = (db \ txn[p].del) \cup txn[p].add, txn'[q] = txn[q]
    PROVE  txn'[q].hold \subseteq db'
<1>1. LocksOf(txn[p]) \cap LocksOf(txn[q]) = {}
  BY PassIs DEF IInv, Apart
<1>2. txn[q].hold \subseteq db
  BY DEF LInv, HoldsStay
<1> QED
  BY <1>1, <1>2 DEF LocksOf

LEMMA CommitLedger ==
    ASSUME TypeOK, IInv, LInv, IInv', NEW p \in Requests, Commit(p)
    PROVE  LInv'
<1> USE PassIs
<1>1. /\ db' = (db \ txn[p].del) \cup txn[p].add /\ txn[p].left = <<>>
      /\ txn' = [txn EXCEPT ![p] = NoTransaction]
      /\ UNCHANGED <<episodes, unmade, crossed>>
  BY DEF Commit, View
<1>2. /\ txn'[p] = NoTransaction
      /\ \A q \in Requests \ {p} : txn'[q] = txn[q]
  BY <1>1 DEF TypeOK
<1>3. ASSUME NEW q \in Requests \ {p}
      PROVE  AccordIn(txn[q])' /\ TaleIn(txn[q])'
  <2>1. ASSUME NEW f \in FactRows, Home(f) \notin crossed, Home(f) \in txn[q].names,
               txn[p].undoes \/ txn[q].undoes
        PROVE  Home(f) \notin txn[p].names
    BY <2>1 DEF IInv, Paired
  <2>2. ASSUME NEW f \in FactRows, Home(f) \notin crossed, Home(f) \in txn[q].names
        PROVE  /\ f[1] # "watch" => {f, EventOf(f)} \cap txn[p].del = {}
               /\ txn[q].undoes => f \notin txn[p].add
               /\ txn[q].undoes /\ f[1] # "watch" => EventOf(f) \notin txn[p].add
    BY <2>1, <2>2, RequestNames
  <2> QED
    BY <1>1, <1>2, <2>2, StandsBy DEF LInv, Accord, Tale
<1>4. AccordIn(NoTransaction)' /\ TaleIn(NoTransaction)'
  BY IdleAgrees
<1>5. HoldsStay' /\ Accord' /\ Tale'
  <2>1. HoldsStay'
    BY <1>1, <1>2, HoldsStand DEF HoldsStay, NoTransaction
  <2>2. ASSUME NEW q \in Requests PROVE AccordIn(txn[q])' /\ TaleIn(txn[q])'
    BY <1>2, <1>3, <1>4
  <2> QED
    BY <2>1, <2>2 DEF Accord, Tale
<1>6. /\ Struck(txn[p]) = txn[p].del /\ WritesOf(txn[p]) = txn[p].add
      /\ Secured(txn[p]) = txn[p].add \cup txn[p].hold /\ db' = Sees(txn[p])
      /\ RowsOf(txn[p].left, {"delete"}) = {}
      /\ Touched(txn[p]) = txn[p].add \cup txn[p].del
  BY <1>1, NoRowsLeft, WritesAre, RequestIs
     DEF Struck, Secured, Sees, Touched
<1>7. LedgerAgrees'
  <2> SUFFICES ASSUME NEW f \in FactRows, f[1] # "watch", Home(f) \notin crossed
               PROVE  f \in db' <=> EventOf(f) \in db'
    BY <1>1 DEF LedgerAgrees
  <2>1. \/ Leaves(txn[p], f)
        \/ Puts(txn[p], f)
        \/ TakesBack(txn[p], f) /\ Goes(txn[p], EventOf(f))
    BY DEF LInv, Accord, AccordIn
  <2>2. CASE Leaves(txn[p], f)
    BY <1>1, <1>6, <2>2 DEF Leaves, LInv, LedgerAgrees
  <2>3. CASE Puts(txn[p], f)
    BY <1>1, <1>6, <2>3 DEF Puts, Stays
  <2>4. CASE TakesBack(txn[p], f) /\ Goes(txn[p], EventOf(f))
    BY <1>6, <2>4 DEF TakesBack, Goes
  <2> QED
    BY <2>1, <2>2, <2>3, <2>4
<1>8. Answered'
  <2> SUFFICES ASSUME NEW w \in db' \cap EpisodeFacts, w[1] = "watch",
                      Home(w) \notin crossed
               PROVE  Answering(w) \cap db' # {}
    BY <1>1, AnsweredThen DEF Answered
  <2>1. w[3] \in episodes
    BY <1>1, FactParts DEF IInv, RowsHome
  <2>2. CASE Answering(w) \cap Struck(txn[p]) # {} \/ w \in WritesOf(txn[p])
    <3>1. Tells(txn[p], w) \/ TakesBack(txn[p], w)
      BY <2>1, <2>2 DEF LInv, Tale, TaleIn
    <3>2. ~TakesBack(txn[p], w)
      BY <1>6 DEF TakesBack, Goes
    <3>3. PICK e \in Answering(w) : e \in txn[p].add \cup txn[p].hold /\ e \notin txn[p].del
      BY <1>6, <3>1, <3>2 DEF Tells
    <3> QED
      BY <1>1, <3>3 DEF LInv, HoldsStay
  <2>3. CASE Answering(w) \cap Struck(txn[p]) = {} /\ w \notin WritesOf(txn[p])
    <3>1. w \in db
      BY <1>1, <1>6, <2>3
    <3>2. Answering(w) \cap db # {}
      BY <3>1, AnsweringKinds DEF LInv, Answered
    <3> QED
      BY <1>1, <1>6, <2>3, <3>2
  <2> QED
    BY <2>2, <2>3
<1> QED
  BY <1>5, <1>7, <1>8 DEF LInv

-----------------------------------------------------------------------------
(* The pass commits: a row and its event are moved, or stay, together      *)

\* At the commit: what is not crossed, and not withheld, has left the batch.
LEMMA Gone ==
    ASSUME IInv, pass.at = "count", NEW r \in db \cap EpisodeRows,
           r[3] \in pass.batch, HomeFact(r) \notin crossed
    PROVE  r \in txn[Pass].del <=> <<r[2], r[3]>> \notin pass.withheld
<1>1. WholeAt(r)
  BY DEF IInv, Whole, InHand
<1>2. Passed[pass.at] = Kinds
  BY DEF Passed
<1> QED
  BY <1>1, <1>2, RowParts DEF WholeAt

\* Two rows of one person on one copy go, or stay, together.
LEMMA GoneTogether ==
    ASSUME IInv, pass.at = "count",
           NEW r \in db \cap EpisodeRows, NEW m \in db \cap EpisodeRows,
           r[3] \in pass.batch, m[2] = r[2], m[3] = r[3],
           HomeFact(r) \notin crossed, HomeFact(m) \notin crossed
    PROVE  r \in txn[Pass].del <=> m \in txn[Pass].del
BY Gone

LEMMA MovedEvent ==
    ASSUME NEW f \in EpisodeFacts
    PROVE  /\ Moved(f) \in EpisodeFacts /\ Moved(EventOf(f)) = EventOf(Moved(f))
           /\ Moved(f)[1] = f[1]
<1>1. f \in EpisodeRows /\ EventOf(f) \in EpisodeRows
  BY FactParts
<1>2. /\ Moved(f) = <<f[1], f[2], TwinOf[f[3]]>>
      /\ Moved(f) \in EpisodeRows /\ Moved(f)[1] = f[1]
      /\ Moved(EventOf(f)) = <<EventOf(f)[1], EventOf(f)[2], TwinOf[EventOf(f)[3]]>>
  BY <1>1, MovedParts
<1>3. Moved(f) \in EpisodeFacts
  BY <1>2, FactParts
<1>4. EventOf(f)[2] = f[2] /\ EventOf(f)[3] = f[3]
  BY FactParts
<1>5. EventOf(Moved(f)) = <<EventOf(f)[1], f[2], TwinOf[f[3]]>>
  BY <1>2 DEF EventOf
<1> QED
  BY <1>2, <1>3, <1>4, <1>5

\* What arrives on an ingested episode: a fact and its event came together.
LEMMA Arrived ==
    ASSUME TypeOK, IInv, LedgerAgrees, pass.at = "count",
           NEW f \in EpisodeFacts, f[1] # "watch", Home(f) \notin crossed
    PROVE  f \in txn[Pass].add <=> EventOf(f) \in txn[Pass].add
<1>1. ASSUME NEW g \in EpisodeFacts, HomeFact(g) = Home(f), g[1] # "watch",
             g \in txn[Pass].del \/ EventOf(g) \in txn[Pass].del
      PROVE  Moved(g) \in txn[Pass].add /\ EventOf(Moved(g)) \in txn[Pass].add
  <2>1. /\ Home(g) \notin crossed /\ g \in EpisodeRows /\ EventOf(g) \in EpisodeRows
        /\ HomeFact(g) \notin crossed /\ HomeFact(EventOf(g)) \notin crossed
        /\ EventOf(g)[2] = g[2] /\ EventOf(g)[3] = g[3]
    BY <1>1, FactParts
  <2>2. txn[Pass].del \subseteq db
    BY PassIs DEF TypeOK
  <2>3. g \in db /\ EventOf(g) \in db
    BY <1>1, <2>1, <2>2 DEF LedgerAgrees, FactRows
  <2>4. g[3] \in pass.batch
    BY <1>1, <2>1 DEF IInv, Handled
  <2>5. g \in txn[Pass].del /\ EventOf(g) \in txn[Pass].del
    BY <1>1, <2>1, <2>3, <2>4, GoneTogether
  <2> QED
    BY <2>1, <2>5, MovedEvent DEF IInv, Kept
<1>2. ASSUME f \in txn[Pass].add PROVE EventOf(f) \in txn[Pass].add
  <2>1. PICK r \in txn[Pass].del : r \in EpisodeRows /\ f = Moved(r)
    BY <1>2, AddedAreMoved
  <2>2. r \in EpisodeFacts /\ r[1] # "watch" /\ HomeFact(r) = Home(f)
    BY <2>1, MovedParts, FactParts
  <2> QED
    BY <1>1, <2>1, <2>2
<1>3. ASSUME EventOf(f) \in txn[Pass].add PROVE f \in txn[Pass].add
  <2>1. PICK r \in txn[Pass].del : r \in EpisodeRows /\ EventOf(f) = Moved(r)
    BY <1>3, AddedAreMoved
  <2>2. r \notin EpisodeFacts
    BY <2>1, MovedParts, FactParts
  <2>3. PICK g \in EpisodeFacts : EventOf(g) = r /\ Home(g) = HomeFact(r)
    BY <2>1, <2>2, EventTells
  <2>4. EventOf(Moved(g)) = EventOf(f) /\ Moved(g) \in EpisodeFacts
    BY <2>1, <2>3, MovedEvent
  <2>5. Moved(g) = f
    BY <2>4, EventKinds DEF FactRows
  <2>6. HomeFact(g) = Home(f) /\ g[1] # "watch"
    BY <2>5, MovedEvent, MovedParts, FactParts
  <2> QED
    BY <1>1, <2>1, <2>3, <2>5, <2>6
<1> QED
  BY <1>2, <1>3

LEMMA RepointLedger ==
    ASSUME TypeOK, IInv, LInv, RepointCommit
    PROVE  LedgerAgrees'
<1>1. /\ pass.at = "count" /\ crossed' = crossed
      /\ db' = (db \ txn[Pass].del) \cup txn[Pass].add
  BY DEF RepointCommit, View
<1> SUFFICES ASSUME NEW f \in FactRows, f[1] # "watch", Home(f) \notin crossed
             PROVE  f \in db' <=> EventOf(f) \in db'
  BY <1>1 DEF LedgerAgrees
<1>2. f \in db <=> EventOf(f) \in db
  BY DEF LInv, LedgerAgrees
<1>3. CASE f \in ShowFacts
  <2>1. f \notin EpisodeRows /\ EventOf(f) \notin EpisodeRows
    BY <1>3, RowKinds
  <2>2. txn[Pass].del \subseteq EpisodeRows /\ txn[Pass].add \subseteq EpisodeRows
    BY AddedAreMoved DEF IInv, Handled
  <2> QED
    BY <1>1, <1>2, <2>1, <2>2
<1>4. CASE f \in EpisodeFacts
  <2>1. f \in txn[Pass].add <=> EventOf(f) \in txn[Pass].add
    BY <1>1, <1>4, Arrived DEF LInv
  <2>2. /\ f \in EpisodeRows /\ EventOf(f) \in EpisodeRows
        /\ HomeFact(f) \notin crossed /\ HomeFact(EventOf(f)) \notin crossed
        /\ EventOf(f)[2] = f[2] /\ EventOf(f)[3] = f[3]
    BY <1>4, FactParts
  <2>3. f \in db => (f \in txn[Pass].del <=> EventOf(f) \in txn[Pass].del)
    <3>1. CASE f[3] \in pass.batch
      BY <1>1, <1>2, <2>2, <3>1, GoneTogether
    <3>2. CASE f[3] \notin pass.batch
      BY <2>2, <3>2 DEF IInv, Handled
    <3> QED
      BY <3>1, <3>2
  <2> QED
    BY <1>1, <1>2, <2>1, <2>3
<1> QED
  BY <1>3, <1>4 DEF FactRows

\* A copied special and its ingested row are told of in the same way.
LEMMA TwinAnswering ==
    ASSUME NEW w \in EpisodeFacts
    PROVE  \A e \in Answering(w) : \/ e = EventOf(w)
                                   \/ e \in Answering(Moved(w)) /\ e \notin EpisodeRows
<1>1. /\ w[2] \in Users /\ w[3] \in Episodes /\ w \in EpisodeRows
  BY FactParts
<1>2. Moved(w)[2] = w[2] /\ Moved(w)[3] = TwinOf[w[3]]
  BY <1>1, MovedParts
<1>3. /\ SeasonOf[TwinOf[w[3]]] = SeasonOf[w[3]]
      /\ TwinOf[w[3]] \in CopiedSpecials <=> w[3] \in CopiedSpecials
      /\ SeasonOf[w[3]] \in Seasons
  BY <1>1, HistoryAssumption DEF HistoryAssumption, Seasons
<1>4. /\ WatchedShow(w[2]) \notin EpisodeRows
      /\ WatchedSeason(w[2], SeasonOf[w[3]]) \notin EpisodeRows
  BY <1>1, <1>3, RowKinds
<1> QED
  BY <1>2, <1>3, <1>4 DEF Answering

LEMMA RepointWatches ==
    ASSUME TypeOK, IInv, LInv, RepointCommit
    PROVE  Answered'
<1>1. /\ pass.at = "count" /\ crossed' = crossed
      /\ db' = (db \ txn[Pass].del) \cup txn[Pass].add
  BY DEF RepointCommit, View
<1> SUFFICES ASSUME NEW w \in db' \cap EpisodeFacts, w[1] = "watch",
                    Home(w) \notin crossed
             PROVE  Answering(w) \cap db' # {}
  BY <1>1, AnsweredThen DEF Answered
<1>2. /\ txn[Pass].del \subseteq db /\ txn[Pass].del \subseteq EpisodeRows
      /\ \A r \in txn[Pass].del : r[3] \in pass.batch
  BY PassIs DEF TypeOK, IInv, Handled
<1>3. ASSUME NEW f \in db \cap EpisodeFacts, f[1] = "watch", Home(f) \notin crossed
      PROVE  /\ f \in EpisodeRows /\ HomeFact(f) \notin crossed
             /\ EventOf(f) \in EpisodeRows /\ HomeFact(EventOf(f)) \notin crossed
             /\ EventOf(f)[2] = f[2] /\ EventOf(f)[3] = f[3]
             /\ Answering(f) \cap db # {}
  BY <1>3, FactParts, AnsweringKinds DEF LInv, Answered
<1>4. CASE w \in txn[Pass].add
  <2>1. PICK r \in txn[Pass].del : r \in EpisodeRows /\ w = Moved(r)
    BY <1>4, AddedAreMoved
  <2>2. r \in db \cap EpisodeFacts /\ r[1] = "watch" /\ Home(r) \notin crossed
    BY <1>2, <2>1, MovedParts, FactParts
  <2>3. PICK e \in Answering(r) : e \in db
    BY <1>3, <2>2
  <2>4. CASE e = EventOf(r)
    <3>1. e \in txn[Pass].del
      BY <1>1, <1>2, <1>3, <2>1, <2>2, <2>3, <2>4, GoneTogether
    <3>2. Moved(e) \in txn[Pass].add
      BY <1>3, <2>2, <2>4, <3>1 DEF IInv, Kept
    <3>3. Moved(e) = EventOf(w)
      BY <2>1, <2>2, <2>4, MovedEvent
    <3> QED
      BY <1>1, <3>2, <3>3 DEF Answering
  <2>5. CASE e # EventOf(r)
    <3>1. e \in Answering(w) /\ e \notin EpisodeRows
      BY <2>1, <2>2, <2>3, <2>5, TwinAnswering
    <3> QED
      BY <1>1, <1>2, <2>3, <3>1
  <2> QED
    BY <2>4, <2>5
<1>5. CASE w \notin txn[Pass].add
  <2>1. w \in db \cap EpisodeFacts /\ w \notin txn[Pass].del
    BY <1>1, <1>5
  <2>2. PICK e \in Answering(w) : e \in db
    BY <1>3, <2>1
  <2>3. e \notin txn[Pass].del
    <3> SUFFICES ASSUME e \in txn[Pass].del PROVE FALSE
      OBVIOUS
    <3>1. e = EventOf(w) /\ e[3] \in pass.batch
      BY <1>2, <2>2, TwinAnswering
    <3> QED
      BY <1>1, <1>3, <2>1, <2>2, <3>1, GoneTogether
  <2> QED
    BY <1>1, <2>2, <2>3
<1> QED
  BY <1>4, <1>5

LEMMA RepointCommitLedger ==
    ASSUME TypeOK, IInv, LInv, RepointCommit
    PROVE  LInv'
<1> USE PassIs
<1>1. /\ pass.at = "count" /\ crossed' = crossed /\ episodes' \subseteq episodes
      /\ db' = (db \ txn[Pass].del) \cup txn[Pass].add
      /\ txn' = [txn EXCEPT ![Pass] = NoTransaction]
  BY DEF RepointCommit, View
<1>2. \A q \in Requests : txn'[q] = txn[q]
  BY <1>1 DEF TypeOK
<1>3. InHand
  BY <1>1 DEF InHand
<1>4. ASSUME NEW q \in Requests PROVE AccordIn(txn[q])' /\ TaleIn(txn[q])'
  <2>1. ASSUME NEW f \in FactRows, Home(f) \notin crossed, Home(f) \in txn[q].names
        PROVE  {f, EventOf(f)} \cap (txn[Pass].add \cup txn[Pass].del) = {}
    <3> SUFFICES ASSUME {f, EventOf(f)} \cap (txn[Pass].add \cup txn[Pass].del) # {}
                 PROVE  FALSE
      OBVIOUS
    <3>1. Home(f) \in txn[Pass].names /\ txn[Pass].undoes
      BY <1>3, PassNames
    <3> QED
      BY <2>1, <3>1 DEF IInv, Paired
  <2>2. ASSUME NEW f \in FactRows, Home(f) \notin crossed, Home(f) \in txn[q].names
        PROVE  /\ f[1] # "watch" => {f, EventOf(f)} \cap txn[Pass].del = {}
               /\ txn[q].undoes => f \notin txn[Pass].add
               /\ txn[q].undoes /\ f[1] # "watch" => EventOf(f) \notin txn[Pass].add
    BY <2>1, <2>2
  <2> QED
    BY <1>1, <1>2, <2>2, StandsBy DEF LInv, Accord, Tale
<1>5. HoldsStay'
  BY <1>1, <1>2, HoldsStand DEF HoldsStay
<1>6. Accord' /\ Tale'
  BY <1>4 DEF Accord, Tale
<1> QED
  BY <1>5, <1>6, RepointLedger, RepointWatches DEF LInv

-----------------------------------------------------------------------------
(* The tables stay as they are                                             *)

LEMMA SameView ==
    ASSUME NEW q, NEW t, txn'[q] = t, db' = db, episodes' = episodes,
           crossed \subseteq crossed', AccordIn(t), TaleIn(t)
    PROVE  AccordIn(txn[q])' /\ TaleIn(txn[q])'
<1>1. /\ Sees(txn[q])' = Sees(t) /\ WritesOf(txn[q])' = WritesOf(t)
      /\ Struck(txn[q])' = Struck(t) /\ Secured(txn[q])' = Secured(t)
      /\ Touched(txn[q])' = Touched(t)
      /\ RowsOf(txn'[q].left, {"delete"}) = RowsOf(t.left, {"delete"})
      /\ txn'[q].names = t.names /\ txn'[q].undoes = t.undoes
  BY DEF Sees, WritesOf, Adding, Struck, Secured, Touched
<1>2. ASSUME NEW r, Goes(t, r) PROVE Goes(txn[q], r)'
  BY <1>1, <1>2 DEF Goes
<1>3. ASSUME NEW r, Stays(t, r) PROVE Stays(txn[q], r)'
  BY <1>1, <1>3 DEF Stays
<1>4. AccordIn(txn[q])'
  <2> SUFFICES ASSUME NEW f \in FactRows, f[1] # "watch", Home(f) \notin crossed
               PROVE  \/ Leaves(txn[q], f)'
                      \/ Puts(txn[q], f)'
                      \/ TakesBack(txn[q], f)' /\ Goes(txn[q], EventOf(f))'
    BY DEF AccordIn
  <2>1. CASE Leaves(t, f)
    BY <1>1, <2>1 DEF Leaves
  <2>2. CASE Puts(t, f)
    BY <1>1, <1>3, <2>2 DEF Puts
  <2>3. CASE TakesBack(t, f) /\ Goes(t, EventOf(f))
    BY <1>1, <1>2, <2>3 DEF TakesBack
  <2> QED
    BY <2>1, <2>2, <2>3 DEF AccordIn
<1>5. TaleIn(txn[q])'
  <2> SUFFICES ASSUME NEW w \in EpisodeFacts,
                      w[1] = "watch", w[3] \in episodes, Home(w) \notin crossed,
                      Answering(w) \cap Struck(t) # {} \/ w \in WritesOf(t)
               PROVE  Tells(txn[q], w)' \/ TakesBack(txn[q], w)'
    BY <1>1 DEF TaleIn
  <2>1. CASE Tells(t, w)
    BY <1>1, <2>1 DEF Tells
  <2>2. CASE TakesBack(t, w)
    BY <1>1, <1>2, <2>2 DEF TakesBack
  <2> QED
    BY <2>1, <2>2 DEF TaleIn
<1> QED
  BY <1>4, <1>5

\* The tables stay as they are.
LEMMA TablesStand ==
    ASSUME TypeOK, LInv, NEW p \in Processes, NEW t, txn' = [txn EXCEPT ![p] = t],
           UNCHANGED <<episodes, db>>, crossed \subseteq crossed',
           p \in Requests => AccordIn(t) /\ TaleIn(t) /\ t.hold \subseteq db
    PROVE  LInv'
<1>1. /\ txn'[p] = t
      /\ \A q \in Processes \ {p} : txn'[q] = txn[q]
  BY DEF TypeOK
<1>2. ASSUME NEW q \in Requests
      PROVE  AccordIn(txn[q])' /\ TaleIn(txn[q])' /\ txn'[q].hold \subseteq db'
  <2>1. CASE q = p
    BY <1>1, <2>1, SameView
  <2>2. CASE q # p
    <3>1. txn'[q] = txn[q]
      BY <1>1, <2>2, PassIs
    <3>2. AccordIn(txn[q]) /\ TaleIn(txn[q]) /\ txn[q].hold \subseteq db
      BY DEF LInv, Accord, Tale, HoldsStay
    <3> QED
      BY <3>1, <3>2, SameView
  <2> QED
    BY <2>1, <2>2
<1>3. LedgerAgrees'
  BY DEF LInv, LedgerAgrees
<1>4. Answered'
  BY DEF LInv, Answered, Answering
<1> QED
  BY <1>2, <1>3, <1>4 DEF LInv, Accord, Tale, HoldsStay

LEMMA RowsOfTwo ==
    ASSUME NEW a \in Statement, NEW b \in Statement, NEW kinds
    PROVE  /\ <<a, b>> \in Seq(Statement)
           /\ RowsOf(<<a, b>>, kinds) = (IF a.does \in kinds THEN a.rows ELSE {})
                                        \cup (IF b.does \in kinds THEN b.rows ELSE {})
<1>1. /\ DOMAIN <<a, b>> = {1, 2} /\ <<a, b>>[1] = a /\ <<a, b>>[2] = b
      /\ <<a, b>> \in Seq(Statement)
  OBVIOUS
<1> DEFINE s == <<a, b>>
<1> HIDE DEF s
<1>2. \A r : r \in RowsOf(s, kinds) <=>
               \E i \in {1, 2} : s[i].does \in kinds /\ r \in s[i].rows
  BY <1>1 DEF RowsOf, s
<1>3. \A r : r \in RowsOf(s, kinds) <=> \/ a.does \in kinds /\ r \in a.rows
                                        \/ b.does \in kinds /\ r \in b.rows
  BY <1>1, <1>2 DEF s
<1> QED
  BY <1>1, <1>3 DEF s

LEMMA RowsOfThree ==
    ASSUME NEW a \in Statement, NEW b \in Statement, NEW c \in Statement, NEW kinds
    PROVE  /\ <<a, b, c>> \in Seq(Statement)
           /\ RowsOf(<<a, b, c>>, kinds) = (IF a.does \in kinds THEN a.rows ELSE {})
                                           \cup (IF b.does \in kinds THEN b.rows ELSE {})
                                           \cup (IF c.does \in kinds THEN c.rows ELSE {})
<1> DEFINE s == <<a, b, c>>
<1>1. /\ s # <<>> /\ Head(s) = a /\ Tail(s) = <<b, c>> /\ s \in Seq(Statement)
  OBVIOUS
<1> HIDE DEF s
<1>2. RowsOf(s, kinds) = RowsOf(<<b, c>>, kinds)
                         \cup (IF a.does \in kinds THEN a.rows ELSE {})
  BY <1>1, RowsOfTail
<1>3. RowsOf(<<b, c>>, kinds) = (IF b.does \in kinds THEN b.rows ELSE {})
                                \cup (IF c.does \in kinds THEN c.rows ELSE {})
  BY RowsOfTwo
<1>4. RowsOf(s, kinds) = (IF a.does \in kinds THEN a.rows ELSE {})
                         \cup (IF b.does \in kinds THEN b.rows ELSE {})
                         \cup (IF c.does \in kinds THEN c.rows ELSE {})
  BY <1>2, <1>3
<1> QED
  BY <1>1, <1>4 DEF s

LEMMA RowsOfFour ==
    ASSUME NEW a \in Statement, NEW b \in Statement, NEW c \in Statement,
           NEW d \in Statement, NEW kinds
    PROVE  /\ <<a, b, c, d>> \in Seq(Statement)
           /\ RowsOf(<<a, b, c, d>>, kinds) =
                (IF a.does \in kinds THEN a.rows ELSE {})
                \cup (IF b.does \in kinds THEN b.rows ELSE {})
                \cup (IF c.does \in kinds THEN c.rows ELSE {})
                \cup (IF d.does \in kinds THEN d.rows ELSE {})
<1> DEFINE s == <<a, b, c, d>>
<1>1. /\ s # <<>> /\ Head(s) = a /\ Tail(s) = <<b, c, d>> /\ s \in Seq(Statement)
  OBVIOUS
<1> HIDE DEF s
<1>2. RowsOf(s, kinds) = RowsOf(<<b, c, d>>, kinds)
                         \cup (IF a.does \in kinds THEN a.rows ELSE {})
  BY <1>1, RowsOfTail
<1>3. RowsOf(<<b, c, d>>, kinds) = (IF b.does \in kinds THEN b.rows ELSE {})
                                   \cup (IF c.does \in kinds THEN c.rows ELSE {})
                                   \cup (IF d.does \in kinds THEN d.rows ELSE {})
  BY RowsOfThree
<1>4. RowsOf(s, kinds) = (IF a.does \in kinds THEN a.rows ELSE {})
                         \cup (IF b.does \in kinds THEN b.rows ELSE {})
                         \cup (IF c.does \in kinds THEN c.rows ELSE {})
                         \cup (IF d.does \in kinds THEN d.rows ELSE {})
  BY <1>2, <1>3
<1> QED
  BY <1>1, <1>4 DEF s

-----------------------------------------------------------------------------
(* A request begins                                                        *)

\* What its program means for a fact that is not a watch, and for a watch.
LeavesAlone(s, f) == RowsOf(s, Written \cup Removed) \cap {f, EventOf(f)} = {}
PutsBoth(s, f) == /\ {f, EventOf(f)} \subseteq RowsOf(s, Written)
                  /\ {f, EventOf(f)} \cap RowsOf(s, Removed) = {}
TakesOne(s, r) == r \in RowsOf(s, {"delete"}) \ RowsOf(s, Written)
Agrees(s, names, undoes) ==
    \A f \in FactRows :
        f[1] # "watch" =>
            \/ LeavesAlone(s, f)
            \/ Home(f) \in names /\ PutsBoth(s, f)
            \/ /\ undoes /\ Home(f) \in names
               /\ TakesOne(s, f) /\ TakesOne(s, EventOf(f))
TellsAll(s, names, undoes) ==
    \A w \in EpisodeFacts :
        /\ w[1] = "watch" /\ w[3] \in episodes
        /\ Answering(w) \cap RowsOf(s, Removed) # {} \/ w \in RowsOf(s, Written)
        => \/ Answering(w) \cap (RowsOf(s, {"upsert"}) \ RowsOf(s, Removed)) # {}
           \/ undoes /\ Home(w) \in names /\ TakesOne(s, w)

LEMMA BeginLedger ==
    ASSUME TypeOK, IInv, LInv, NEW p \in Requests, NEW s \in Seq(Statement),
           NEW facts \in SUBSET FactRows, NEW undoes \in BOOLEAN,
           Begin(p, s, facts, undoes), {Home(f) : f \in facts} \subseteq FactRows,
           Agrees(s, {Home(f) : f \in facts}, undoes),
           TellsAll(s, {Home(f) : f \in facts}, undoes)
    PROVE  LInv'
<1> DEFINE names == {Home(f) : f \in facts}
           n == [NoTransaction EXCEPT !.left = s, !.names = names, !.undoes = undoes]
<1> HIDE DEF names
<1>1. /\ p \in unmade /\ UNCHANGED <<episodes, db>>
      /\ txn' = [txn EXCEPT ![p].left = s, ![p].names = names, ![p].undoes = undoes]
      /\ crossed \subseteq crossed'
  BY DEF Begin, names
<1>2. txn[p] = NoTransaction
  BY <1>1 DEF IInv, Unbegun
<1>3. txn' = [txn EXCEPT ![p] = n]
  BY <1>1, <1>2, PassIs DEF TypeOK
<1>4. /\ n \in Transaction /\ n.left = s /\ n.names = names /\ n.undoes = undoes
      /\ n.add = {} /\ n.del = {} /\ n.hold = {}
  BY DEF NoTransaction, Transaction, names
<1> HIDE DEF n
<1>5. /\ WritesOf(n) = RowsOf(s, Written) /\ Struck(n) = RowsOf(s, Removed)
      /\ Touched(n) = RowsOf(s, Written \cup Removed)
      /\ Secured(n) = RowsOf(s, {"upsert"})
  BY <1>4, WritesAre DEF Struck, Touched, Secured
<1>6. \A r : TakesOne(s, r) => Goes(n, r)
  BY <1>4, <1>5 DEF TakesOne, Goes
<1>7. AccordIn(n)
  <2> SUFFICES ASSUME NEW f \in FactRows, f[1] # "watch"
               PROVE  \/ Leaves(n, f)
                      \/ Puts(n, f)
                      \/ TakesBack(n, f) /\ Goes(n, EventOf(f))
    BY DEF AccordIn
  <2>1. CASE LeavesAlone(s, f)
    BY <1>5, <2>1 DEF LeavesAlone, Leaves
  <2>2. CASE Home(f) \in names /\ PutsBoth(s, f)
    BY <1>4, <1>5, <2>2 DEF PutsBoth, Puts, Stays
  <2>3. CASE /\ undoes /\ Home(f) \in names
             /\ TakesOne(s, f) /\ TakesOne(s, EventOf(f))
    BY <1>4, <1>6, <2>3 DEF TakesBack
  <2> QED
    BY <2>1, <2>2, <2>3 DEF Agrees, names
<1>8. TaleIn(n)
  <2> SUFFICES ASSUME NEW w \in EpisodeFacts, w[1] = "watch", w[3] \in episodes,
                      Answering(w) \cap Struck(n) # {} \/ w \in WritesOf(n)
               PROVE  Tells(n, w) \/ TakesBack(n, w)
    BY DEF TaleIn
  <2>1. CASE Answering(w) \cap (RowsOf(s, {"upsert"}) \ RowsOf(s, Removed)) # {}
    BY <1>5, <2>1 DEF Tells
  <2>2. CASE undoes /\ Home(w) \in names /\ TakesOne(s, w)
    BY <1>4, <1>6, <2>2 DEF TakesBack
  <2> QED
    BY <1>5, <2>1, <2>2 DEF TellsAll, names
<1> QED
  BY <1>1, <1>3, <1>4, <1>7, <1>8, PassIs, TablesStand

-----------------------------------------------------------------------------
(* The programs of the requests keep the ledger                            *)

LEMMA RowVerbs ==
    /\ \A f \in FactRows : f[1] # "watch" =>
          \A r \in {f, EventOf(f)} : r[1] \in {"rating", "membership", "rated", "added_show"}
    /\ \A u, es : \A r \in Watches(u, es) : r[1] = "watch" /\ r[2] = u /\ r[3] \in es
    /\ \A u, es : \A r \in WatchedEach(u, es) :
          r[1] = "watched_episode" /\ r[2] = u /\ r[3] \in es
    /\ \A u, s : WatchedSeason(u, s)[1] = "watched_season" /\ WatchedSeason(u, s)[2] = u
    /\ \A u : WatchedShow(u)[1] = "watched_show" /\ WatchedShow(u)[2] = u
<1>1. ASSUME NEW f \in FactRows, f[1] # "watch"
      PROVE  \A r \in {f, EventOf(f)} :
               r[1] \in {"rating", "membership", "rated", "added_show"}
  BY <1>1, EventKinds
<1> QED
  BY <1>1 DEF Watches, Watch, WatchedEach, Watched, WatchedSeason, WatchedShow

\* What an event has to be to tell of a watch.
LEMMA AnsweringVerbs ==
    ASSUME NEW w \in EpisodeFacts, w[1] = "watch", NEW e \in Answering(w)
    PROVE  /\ e[2] = w[2]
           /\ \/ e = EventOf(w) /\ e[1] = "watched_episode"
              \/ /\ w[3] \notin CopiedSpecials
                 /\ \/ e = WatchedSeason(w[2], SeasonOf[w[3]]) /\ e[1] = "watched_season"
                    \/ e = WatchedShow(w[2]) /\ e[1] = "watched_show"
<1>1. EventOf(w)[1] = "watched_episode" /\ EventOf(w)[2] = w[2]
  BY DEF EventOf
<1> QED
  BY <1>1, AnsweringKinds, RowVerbs

\* A watch of u on one of some episodes, which its event tells.
LEMMA WatchAmong ==
    ASSUME NEW u \in Users, NEW es \in SUBSET Episodes,
           NEW w \in EpisodeFacts, w[1] = "watch"
    PROVE  /\ w \in Watches(u, es) <=> w[2] = u /\ w[3] \in es
           /\ EventOf(w) \in WatchedEach(u, es) => w \in Watches(u, es)
           /\ w \in Watches(u, es) => Home(w) \in {Home(f) : f \in Watches(u, es)}
<1>1. w = <<"watch", w[2], w[3]>>
  BY FactParts
<1>2. w \in Watches(u, es) <=> w[2] = u /\ w[3] \in es
  BY <1>1, RowVerbs DEF Watches, Watch
<1>3. ASSUME EventOf(w) \in WatchedEach(u, es) PROVE w \in Watches(u, es)
  <2>1. EventOf(w)[2] = u /\ EventOf(w)[3] \in es
    BY <1>3, RowVerbs
  <2>2. EventOf(w)[2] = w[2] /\ EventOf(w)[3] = w[3]
    BY FactParts
  <2> QED
    BY <1>2, <2>1, <2>2
<1> QED
  BY <1>2, <1>3

LEMMA PutLedger ==
    ASSUME TypeOK, IInv, LInv, NEW p \in Requests, NEW g \in Facts, Put(p, g)
    PROVE  LInv'
<1> DEFINE first == IF g[1] = "rating" THEN Upsert(g) ELSE Insert({g})
           second == Upsert(EventOf(g))
           s == <<first, second>>
<1>1. Begin(p, s, {g}, FALSE)
  BY DEF Put
<1>2. g \in FactRows
  BY FactsAreRows
<1>3. /\ first \in Statement /\ first.rows = {g} /\ first.does \in Written
      /\ second \in Statement /\ second.rows = {EventOf(g)} /\ second.does = "upsert"
  BY <1>2, RowKinds DEF Statement, Upsert, Insert, Written
<1>4. /\ first.does \notin Removed /\ second.does \notin Removed
      /\ second.does \in Written
  BY <1>3 DEF Removed, Written
<1> HIDE DEF first, second
<1>5. /\ s \in Seq(Statement) /\ RowsOf(s, Written) = {g, EventOf(g)}
      /\ RowsOf(s, Removed) = {} /\ RowsOf(s, Written \cup Removed) = {g, EventOf(g)}
      /\ EventOf(g) \in RowsOf(s, {"upsert"})
  <2>1. s \in Seq(Statement) /\ RowsOf(s, Written) = {g, EventOf(g)}
    BY <1>3, <1>4, RowsOfTwo
  <2>2. RowsOf(s, Removed) = {}
    BY <1>3, <1>4, RowsOfTwo
  <2>3. RowsOf(s, Written \cup Removed) = {g, EventOf(g)}
    BY <1>3, <1>4, RowsOfTwo
  <2>4. EventOf(g) \in RowsOf(s, {"upsert"})
    BY <1>3, RowsOfTwo
  <2> QED
    BY <2>1, <2>2, <2>3, <2>4
<1> HIDE DEF s
<1> DEFINE names == {Home(f) : f \in {g}}
<1>6. Agrees(s, names, FALSE)
  <2> SUFFICES ASSUME NEW f \in FactRows, f[1] # "watch"
               PROVE  LeavesAlone(s, f) \/ (Home(f) \in names /\ PutsBoth(s, f))
    BY DEF Agrees
  <2>1. CASE f = g
    BY <1>5, <2>1 DEF PutsBoth
  <2>2. CASE f # g
    <3>1. {f, EventOf(f)} \cap {g, EventOf(g)} = {}
      BY <1>2, <2>2, EventKinds
    <3> QED
      BY <1>5, <3>1 DEF LeavesAlone
  <2> QED
    BY <2>1, <2>2
<1>7. TellsAll(s, names, FALSE)
  <2> SUFFICES ASSUME NEW w \in EpisodeFacts, w[1] = "watch", w \in RowsOf(s, Written)
               PROVE  Answering(w) \cap (RowsOf(s, {"upsert"}) \ RowsOf(s, Removed)) # {}
    BY <1>5 DEF TellsAll
  <2>1. w = g
    BY <1>2, <1>5, EventKinds DEF FactRows
  <2> QED
    BY <1>5, <2>1, AnsweringKinds
<1>8. names \subseteq FactRows /\ {g} \in SUBSET FactRows
  BY <1>2, HomesAreFacts
<1> QED
  BY <1>1, <1>5, <1>6, <1>7, <1>8, BeginLedger

LEMMA DropLedger ==
    ASSUME TypeOK, IInv, LInv, NEW p \in Requests, NEW g \in Facts, Drop(p, g)
    PROVE  LInv'
<1> DEFINE first == Delete({g})
           second == Delete({EventOf(g)})
           s == <<first, second>>
           names == {Home(f) : f \in {g}}
<1>1. Begin(p, s, {g}, TRUE)
  BY DEF Drop
<1>2. g \in FactRows
  BY FactsAreRows
<1>3. /\ first \in Statement /\ first.rows = {g} /\ first.does = "delete"
      /\ second \in Statement /\ second.rows = {EventOf(g)} /\ second.does = "delete"
  BY <1>2, RowKinds DEF Statement, Delete
<1>4. "delete" \in Removed /\ "delete" \notin Written
  BY DEF Removed, Written
<1> HIDE DEF first, second
<1>5. /\ s \in Seq(Statement) /\ RowsOf(s, Written) = {}
      /\ RowsOf(s, Removed) = {g, EventOf(g)}
      /\ RowsOf(s, Written \cup Removed) = {g, EventOf(g)}
      /\ RowsOf(s, {"delete"}) = {g, EventOf(g)}
  <2>1. s \in Seq(Statement) /\ RowsOf(s, Written) = {}
    BY <1>3, <1>4, RowsOfTwo
  <2>2. RowsOf(s, Removed) = {g, EventOf(g)}
    BY <1>3, <1>4, RowsOfTwo
  <2>3. RowsOf(s, Written \cup Removed) = {g, EventOf(g)}
    BY <1>3, <1>4, RowsOfTwo
  <2>4. RowsOf(s, {"delete"}) = {g, EventOf(g)}
    BY <1>3, <1>4, RowsOfTwo
  <2> QED
    BY <2>1, <2>2, <2>3, <2>4
<1> HIDE DEF s
<1>6. Agrees(s, names, TRUE)
  <2> SUFFICES ASSUME NEW f \in FactRows, f[1] # "watch"
               PROVE  \/ LeavesAlone(s, f)
                      \/ Home(f) \in names /\ TakesOne(s, f) /\ TakesOne(s, EventOf(f))
    BY DEF Agrees
  <2>1. CASE f = g
    BY <1>5, <2>1 DEF TakesOne
  <2>2. CASE f # g
    <3>1. {f, EventOf(f)} \cap {g, EventOf(g)} = {}
      BY <1>2, <2>2, EventKinds
    <3> QED
      BY <1>5, <3>1 DEF LeavesAlone
  <2> QED
    BY <2>1, <2>2
<1>7. TellsAll(s, names, TRUE)
  <2> SUFFICES ASSUME NEW w \in EpisodeFacts, w[1] = "watch",
                      NEW e \in Answering(w), e \in {g, EventOf(g)}
               PROVE  Home(w) \in names /\ TakesOne(s, w)
    BY <1>5 DEF TellsAll
  <2>1. w \in FactRows
    BY DEF FactRows
  <2>2. e = EventOf(g)
    BY <1>2, AnsweringKinds
  <2>3. e = EventOf(w)
    BY <1>2, <2>2, AnsweringVerbs, EventKinds
  <2>4. w = g
    BY <1>2, <2>1, <2>2, <2>3, EventKinds
  <2> QED
    BY <1>5, <2>4 DEF TakesOne
<1>8. names \subseteq FactRows /\ {g} \in SUBSET FactRows
  BY <1>2, HomesAreFacts
<1> QED
  BY <1>1, <1>5, <1>6, <1>7, <1>8, BeginLedger

LEMMA UnmarkLedger ==
    ASSUME TypeOK, IInv, LInv, NEW p \in Requests, NEW u \in Users,
           NEW es \in SUBSET Episodes, NEW event \in Rows,
           Begin(p, <<Delete(Watches(u, es)), Delete({event})>>, Watches(u, es), TRUE),
           \/ /\ event = WatchedShow(u) /\ episodes \subseteq es
           \/ \E season \in Seasons : /\ event = WatchedSeason(u, season)
                                      /\ InSeason(season) \subseteq es
    PROVE  LInv'
<1> DEFINE first == Delete(Watches(u, es))
           second == Delete({event})
           s == <<first, second>>
           names == {Home(f) : f \in Watches(u, es)}
           rows == Watches(u, es) \cup {event}
<1>1. /\ first \in Statement /\ first.rows = Watches(u, es) /\ first.does = "delete"
      /\ second \in Statement /\ second.rows = {event} /\ second.does = "delete"
      /\ Begin(p, s, Watches(u, es), TRUE)
  BY WatchRows DEF Statement, Delete
<1>2. "delete" \in Removed /\ "delete" \notin Written
  BY DEF Removed, Written
<1> HIDE DEF first, second
<1>3. /\ s \in Seq(Statement) /\ RowsOf(s, Written) = {}
      /\ RowsOf(s, Removed) = rows /\ RowsOf(s, Written \cup Removed) = rows
      /\ RowsOf(s, {"delete"}) = rows
  <2>1. s \in Seq(Statement) /\ RowsOf(s, Written) = {}
    BY <1>1, <1>2, RowsOfTwo
  <2>2. RowsOf(s, Removed) = rows
    BY <1>1, <1>2, RowsOfTwo
  <2>3. RowsOf(s, Written \cup Removed) = rows
    BY <1>1, <1>2, RowsOfTwo
  <2>4. RowsOf(s, {"delete"}) = rows
    BY <1>1, <1>2, RowsOfTwo
  <2> QED
    BY <2>1, <2>2, <2>3, <2>4
<1>4. event[1] \in {"watched_show", "watched_season"} /\ event[2] = u
  BY RowVerbs
<1> HIDE DEF s
<1>5. Agrees(s, names, TRUE)
  <2> SUFFICES ASSUME NEW f \in FactRows, f[1] # "watch"
               PROVE  LeavesAlone(s, f)
    BY DEF Agrees
  <2>1. \A r \in {f, EventOf(f)} : r \notin rows
    BY <1>4, RowVerbs
  <2> QED
    BY <1>3, <2>1 DEF LeavesAlone
<1>6. TellsAll(s, names, TRUE)
  <2> SUFFICES ASSUME NEW w \in EpisodeFacts, w[1] = "watch", w[3] \in episodes,
                      NEW e \in Answering(w), e \in rows
               PROVE  Home(w) \in names /\ TakesOne(s, w)
    BY <1>3 DEF TellsAll
  <2>1. e = event
    BY AnsweringVerbs, RowVerbs
  <2>2. w[2] = u
    BY <1>4, <2>1, AnsweringVerbs
  <2>3. w[3] \in es
    <3>1. CASE event = WatchedShow(u) /\ episodes \subseteq es
      BY <3>1
    <3>2. ASSUME NEW season \in Seasons, event = WatchedSeason(u, season),
                 InSeason(season) \subseteq es
          PROVE  w[3] \in es
      <4>1. event[1] = "watched_season" /\ event[3] = season
        BY <3>2 DEF WatchedSeason
      <4>2. e = WatchedSeason(w[2], SeasonOf[w[3]])
        BY <2>1, <4>1, AnsweringVerbs
      <4>3. SeasonOf[w[3]] = season
        BY <2>1, <4>1, <4>2 DEF WatchedSeason
      <4> QED
        BY <3>2, <4>3 DEF InSeason
    <3> QED
      BY <3>1, <3>2
  <2>4. w \in Watches(u, es) /\ Home(w) \in names
    BY <2>2, <2>3, WatchAmong
  <2> QED
    BY <1>3, <2>4 DEF TakesOne
<1>7. names \subseteq FactRows /\ Watches(u, es) \in SUBSET FactRows
  BY WatchRows, HomesAreFacts
<1> QED
  BY <1>1, <1>3, <1>5, <1>6, <1>7, BeginLedger

LEMMA MarkSeasonLedger ==
    ASSUME TypeOK, IInv, LInv, NEW p \in Requests, NEW u \in Users,
           NEW season \in Seasons, MarkSeason(p, u, season)
    PROVE  LInv'
<1> DEFINE marked == InSeason(season) \ CopiedSpecials
           one == Insert(Watches(u, marked))
           two == Collapse(WatchedEach(u, marked))
           three == Upsert(WatchedSeason(u, season))
           s == <<one, two, three>>
           names == {Home(f) : f \in Watches(u, marked)}
<1>1. Begin(p, s, Watches(u, marked), FALSE)
  BY DEF MarkSeason
<1>2. /\ marked \in SUBSET Episodes /\ marked \cap CopiedSpecials = {}
      /\ \A e \in marked : SeasonOf[e] = season
  BY DEF InSeason, TypeOK
<1> HIDE DEF marked
<1>3. /\ one \in Statement /\ one.rows = Watches(u, marked) /\ one.does = "insert"
      /\ two \in Statement /\ two.rows = WatchedEach(u, marked) /\ two.does = "collapse"
      /\ three \in Statement /\ three.rows = {WatchedSeason(u, season)}
      /\ three.does = "upsert"
  BY <1>2, WatchRows, RowKinds DEF Statement, Insert, Collapse, Upsert
<1>4. /\ "insert" \in Written \ Removed /\ "upsert" \in Written \ Removed
      /\ "collapse" \in Removed \ Written
  BY DEF Removed, Written
<1> HIDE DEF one, two, three
<1>5. /\ s \in Seq(Statement)
      /\ RowsOf(s, Written) = Watches(u, marked) \cup {WatchedSeason(u, season)}
      /\ RowsOf(s, Removed) = WatchedEach(u, marked)
      /\ RowsOf(s, Written \cup Removed) = Watches(u, marked)
             \cup WatchedEach(u, marked) \cup {WatchedSeason(u, season)}
      /\ RowsOf(s, {"upsert"}) = {WatchedSeason(u, season)}
  <2>1. RowsOf(s, Written) = Watches(u, marked) \cup {WatchedSeason(u, season)}
    BY <1>3, <1>4, RowsOfThree
  <2>2. RowsOf(s, Removed) = WatchedEach(u, marked)
    <3>1. one.does \notin Removed /\ two.does \in Removed /\ three.does \notin Removed
      BY <1>3, <1>4
    <3>2. one \in Statement /\ two \in Statement /\ three \in Statement
      BY <1>3
    <3>3. RowsOf(s, Removed) = (IF one.does \in Removed THEN one.rows ELSE {})
                               \cup (IF two.does \in Removed THEN two.rows ELSE {})
                               \cup (IF three.does \in Removed THEN three.rows ELSE {})
      BY <3>2, RowsOfThree
    <3> HIDE DEF s
    <3> QED
      BY <1>3, <3>1, <3>3
  <2>5. s \in Seq(Statement)
    <3>1. one \in Statement /\ two \in Statement /\ three \in Statement
      BY <1>3
    <3> QED
      BY <3>1
  <2>3. RowsOf(s, Written \cup Removed) = Watches(u, marked)
             \cup WatchedEach(u, marked) \cup {WatchedSeason(u, season)}
    BY <1>3, <1>4, RowsOfThree
  <2>4. RowsOf(s, {"upsert"}) = {WatchedSeason(u, season)}
    BY <1>3, <1>4, RowsOfThree
  <2> QED
    BY <2>1, <2>2, <2>3, <2>4, <2>5
<1> HIDE DEF s
<1>6. Agrees(s, names, FALSE)
  <2> SUFFICES ASSUME NEW f \in FactRows, f[1] # "watch"
               PROVE  LeavesAlone(s, f)
    BY DEF Agrees
  <2>1. ASSUME NEW r \in {f, EventOf(f)} PROVE r \notin RowsOf(s, Written \cup Removed)
    <3>1. r[1] \in {"rating", "membership", "rated", "added_show"}
      BY RowVerbs
    <3>2. /\ r \notin Watches(u, marked) /\ r \notin WatchedEach(u, marked)
          /\ r # WatchedSeason(u, season)
      BY <3>1, RowVerbs
    <3> QED
      BY <1>5, <3>2
  <2> QED
    BY <2>1 DEF LeavesAlone
<1>7. TellsAll(s, names, FALSE)
  <2> SUFFICES ASSUME NEW w \in EpisodeFacts, w[1] = "watch",
                      \/ Answering(w) \cap WatchedEach(u, marked) # {}
                      \/ w \in RowsOf(s, Written)
               PROVE  Answering(w) \cap (RowsOf(s, {"upsert"}) \ RowsOf(s, Removed)) # {}
    BY <1>5 DEF TellsAll
  <2>1. w \in Watches(u, marked)
    <3>1. CASE w \in RowsOf(s, Written)
      BY <1>5, <3>1, RowVerbs
    <3>2. ASSUME NEW e \in Answering(w), e \in WatchedEach(u, marked)
          PROVE  w \in Watches(u, marked)
      <4>1. e = EventOf(w)
        BY <3>2, AnsweringVerbs, RowVerbs
      <4> QED
        BY <1>2, <3>2, <4>1, WatchAmong
    <3> QED
      BY <3>1, <3>2
  <2>2. w[2] = u /\ w[3] \in marked
    BY <2>1, RowVerbs
  <2>3. WatchedSeason(u, season) \in Answering(w)
    BY <1>2, <2>2 DEF Answering
  <2>4. WatchedSeason(u, season) \notin WatchedEach(u, marked)
    BY RowVerbs
  <2> QED
    BY <1>5, <2>3, <2>4
<1>8. names \subseteq FactRows /\ Watches(u, marked) \in SUBSET FactRows
  BY <1>2, WatchRows, HomesAreFacts
<1> QED
  BY <1>1, <1>5, <1>6, <1>7, <1>8, BeginLedger

LEMMA MarkShowLedger ==
    ASSUME TypeOK, IInv, LInv, NEW p \in Requests, NEW u \in Users, MarkShow(p, u)
    PROVE  LInv'
<1> DEFINE marked == episodes \ (Specials \cup Unaired)
           collapsed == episodes \ Specials
           events == {WatchedSeason(u, season) : season \in Seasons}
           one == Insert(Watches(u, marked))
           two == Delete(events)
           three == Collapse(WatchedEach(u, collapsed))
           four == Upsert(WatchedShow(u))
           s == <<one, two, three, four>>
           names == {Home(f) : f \in Watches(u, marked)}
<1>1. Begin(p, s, Watches(u, marked), FALSE)
  BY DEF MarkShow
<1>2. /\ marked \in SUBSET Episodes /\ collapsed \in SUBSET Episodes
      /\ marked \cap CopiedSpecials = {} /\ collapsed \cap CopiedSpecials = {}
  BY HistoryAssumption DEF TypeOK, HistoryAssumption
<1> HIDE DEF marked, collapsed
<1>3. \A e \in events : e[1] = "watched_season" /\ e[2] = u /\ e \in Rows
  BY RowVerbs, RowKinds
<1> HIDE DEF events
<1>4. /\ one \in Statement /\ one.rows = Watches(u, marked) /\ one.does = "insert"
      /\ two \in Statement /\ two.rows = events /\ two.does = "delete"
      /\ three \in Statement /\ three.rows = WatchedEach(u, collapsed)
      /\ three.does = "collapse"
      /\ four \in Statement /\ four.rows = {WatchedShow(u)} /\ four.does = "upsert"
  BY <1>2, <1>3, WatchRows, RowKinds DEF Statement, Insert, Delete, Collapse, Upsert
<1>5. /\ "insert" \in Written \ Removed /\ "upsert" \in Written \ Removed
      /\ "collapse" \in Removed \ Written /\ "delete" \in Removed \ Written
  BY DEF Removed, Written
<1> HIDE DEF one, two, three, four
<1> DEFINE gone == events \cup WatchedEach(u, collapsed)
<1>6. /\ s \in Seq(Statement)
      /\ RowsOf(s, Written) = Watches(u, marked) \cup {WatchedShow(u)}
      /\ RowsOf(s, Removed) = gone
      /\ RowsOf(s, Written \cup Removed) = Watches(u, marked) \cup gone
                                           \cup {WatchedShow(u)}
      /\ RowsOf(s, {"upsert"}) = {WatchedShow(u)}
  <2>1. RowsOf(s, Written) = Watches(u, marked) \cup {WatchedShow(u)}
    BY <1>4, <1>5, RowsOfFour
  <2>2. s \in Seq(Statement) /\ RowsOf(s, Removed) = gone
    BY <1>4, <1>5, RowsOfFour
  <2>3. RowsOf(s, Written \cup Removed) = Watches(u, marked) \cup gone
                                          \cup {WatchedShow(u)}
    BY <1>4, <1>5, RowsOfFour
  <2>4. RowsOf(s, {"upsert"}) = {WatchedShow(u)}
    BY <1>4, <1>5, RowsOfFour
  <2> QED
    BY <2>1, <2>2, <2>3, <2>4
<1> HIDE DEF s
<1>7. Agrees(s, names, FALSE)
  <2> SUFFICES ASSUME NEW f \in FactRows, f[1] # "watch"
               PROVE  LeavesAlone(s, f)
    BY DEF Agrees
  <2>1. ASSUME NEW r \in {f, EventOf(f)} PROVE r \notin RowsOf(s, Written \cup Removed)
    <3>1. r[1] \in {"rating", "membership", "rated", "added_show"}
      BY RowVerbs
    <3>2. /\ r \notin Watches(u, marked) /\ r \notin WatchedEach(u, collapsed)
          /\ r # WatchedShow(u)
      BY <3>1, RowVerbs
    <3>3. r \notin events
      BY <1>3, <3>1
    <3> QED
      BY <1>6, <3>2, <3>3
  <2> QED
    BY <2>1 DEF LeavesAlone
<1>8. TellsAll(s, names, FALSE)
  <2> SUFFICES ASSUME NEW w \in EpisodeFacts, w[1] = "watch",
                      Answering(w) \cap gone # {} \/ w \in RowsOf(s, Written)
               PROVE  Answering(w) \cap (RowsOf(s, {"upsert"}) \ RowsOf(s, Removed)) # {}
    BY <1>6 DEF TellsAll
  <2>1. w[2] = u /\ w[3] \notin CopiedSpecials
    <3>1. CASE w \in RowsOf(s, Written)
      BY <1>2, <1>6, <3>1, RowVerbs
    <3>2. ASSUME NEW e \in Answering(w), e \in WatchedEach(u, collapsed)
          PROVE  w[2] = u /\ w[3] \notin CopiedSpecials
      <4>1. e = EventOf(w)
        BY <3>2, AnsweringVerbs, RowVerbs
      <4>2. w \in Watches(u, collapsed)
        BY <1>2, <3>2, <4>1, WatchAmong
      <4> QED
        BY <1>2, <4>2, RowVerbs
    <3>3. ASSUME NEW e \in Answering(w), e \in events
          PROVE  w[2] = u /\ w[3] \notin CopiedSpecials
      BY <1>3, <3>3, AnsweringVerbs
    <3> QED
      BY <3>1, <3>2, <3>3
  <2>2. WatchedShow(u) \in Answering(w)
    BY <2>1 DEF Answering
  <2>3. WatchedShow(u) \notin gone
    BY <1>3, RowVerbs
  <2> QED
    BY <1>6, <2>2, <2>3
<1>9. names \subseteq FactRows /\ Watches(u, marked) \in SUBSET FactRows
  BY <1>2, WatchRows, HomesAreFacts
<1> QED
  BY <1>1, <1>6, <1>7, <1>8, <1>9, BeginLedger

-----------------------------------------------------------------------------
(* Friends see what was watched                                            *)

LEMMA IdleStands == AccordIn(NoTransaction) /\ TaleIn(NoTransaction)
<1>1. /\ NoTransaction.left = <<>> /\ NoTransaction.add = {}
      /\ NoTransaction.del = {} /\ NoTransaction \in Transaction
  BY NoTransactionFits DEF NoTransaction
<1>2. /\ Touched(NoTransaction) = {} /\ Struck(NoTransaction) = {}
      /\ WritesOf(NoTransaction) = {}
  BY <1>1, NoRowsLeft, NoTransactionFits DEF Touched, Struck
<1> QED
  BY <1>2 DEF AccordIn, TaleIn, Leaves

LEMMA WorkLedger ==
    ASSUME TypeOK, IInv, LInv, NEW p \in Requests,
           Wait(p) \/ Execute(p) \/ Rollback(p)
    PROVE  LInv'
<1>1. AccordIn(txn[p]) /\ TaleIn(txn[p]) /\ txn[p].hold \subseteq db
  BY DEF LInv, Accord, Tale, HoldsStay
<1>2. UNCHANGED <<episodes, db, crossed>> /\ p \in Processes
  BY PassIs DEF Wait, Execute, Rollback
<1>3. CASE Wait(p) \/ Execute(p)
  <2>1. PICK n \in Transaction : /\ txn' = [txn EXCEPT ![p] = n]
                                 /\ Carries(txn[p], n)
                                 /\ n.hold \subseteq txn[p].hold \cup db
    BY <1>3, ExecuteCarries, WaitCarries
  <2>2. AccordIn(n) /\ TaleIn(n) /\ n.hold \subseteq db
    BY <1>1, <2>1, Carried
  <2> QED
    BY <1>2, <2>1, <2>2, TablesStand
<1>4. CASE Rollback(p)
  <2>1. txn' = [txn EXCEPT ![p] = NoTransaction] /\ NoTransaction.hold = {}
    BY <1>4 DEF Rollback, NoTransaction
  <2> QED
    BY <1>2, <2>1, IdleStands, TablesStand
<1> QED
  BY <1>3, <1>4

\* A request, from its first statement to its end.
LEMMA RequestLedger ==
    ASSUME TypeOK, IInv, LInv, IInv', HistoryNext
    PROVE  LInv'
<1>1. PICK p \in Requests : Request(p)
  BY DEF HistoryNext
<1>2. CASE \E f \in Facts : Put(p, f) \/ Drop(p, f)
  BY <1>2, PutLedger, DropLedger
<1>3. CASE \E u \in Users, s \in Seasons : MarkSeason(p, u, s)
  BY <1>3, MarkSeasonLedger
<1>4. CASE \E u \in Users : MarkShow(p, u)
  BY <1>4, MarkShowLedger
<1>5. ASSUME NEW u \in Users, NEW s \in Seasons, UnmarkSeason(p, u, s)
      PROVE  LInv'
  <2>1. InSeason(s) \in SUBSET Episodes /\ WatchedSeason(u, s) \in Rows
    BY RowKinds DEF InSeason, TypeOK
  <2> QED
    BY <1>5, <2>1, UnmarkLedger DEF UnmarkSeason
<1>6. ASSUME NEW u \in Users, UnmarkShow(p, u)
      PROVE  LInv'
  <2>1. episodes \in SUBSET Episodes /\ WatchedShow(u) \in Rows
    BY RowKinds DEF TypeOK
  <2> QED
    BY <1>6, <2>1, UnmarkLedger DEF UnmarkShow
<1>7. CASE Wait(p) \/ Execute(p) \/ Rollback(p)
  BY <1>7, WorkLedger
<1>8. CASE Commit(p)
  BY <1>8, CommitLedger
<1> QED
  BY <1>1, <1>2, <1>3, <1>4, <1>5, <1>6, <1>7, <1>8 DEF Request

\* The pass changes the tables when it commits, and only then.
LEMMA PassLedger ==
    ASSUME TypeOK, IInv, LInv, PassNext
    PROVE  LInv'
<1>1. CASE RepointCommit
  BY <1>1, RepointCommitLedger
<1>2. CASE ~RepointCommit
  <2>1. UNCHANGED <<episodes, db>> /\ crossed \subseteq crossed'
    BY <1>2 DEF PassNext, Start, Select, Finish, MoveWaits, Move, RetireWaits, Retire,
                Abort, historyVars
  <2>2. \E t : txn' = [txn EXCEPT ![Pass] = t]
    <3>1. CASE UNCHANGED historyVars
      <4>1. txn' = [txn EXCEPT ![Pass] = txn[Pass]]
        BY <3>1, PassIs DEF historyVars, TypeOK
      <4> QED
        BY <4>1
    <3>2. CASE Select
      <4>1. PICK names : txn' = [txn EXCEPT ![Pass].names = names,
                                            ![Pass].undoes = TRUE]
        BY <3>2 DEF Select
      <4>2. txn' = [txn EXCEPT ![Pass] = [txn[Pass] EXCEPT !.names = names,
                                                           !.undoes = TRUE]]
        BY <4>1, PassIs DEF TypeOK
      <4> QED
        BY <4>2
    <3>3. CASE Move \/ Retire
      <4>1. txn' = [txn EXCEPT ![Pass] = txn'[Pass]]
        BY <3>3, PassIs DEF Move, Retire, TypeOK
      <4> QED
        BY <4>1
    <3>4. CASE Abort
      BY <3>4 DEF Abort
    <3> QED
      BY <1>2, <3>1, <3>2, <3>3, <3>4
         DEF PassNext, Start, Finish, MoveWaits, RetireWaits
  <2> QED
    BY <2>1, <2>2, PassIs, TablesStand
<1> QED
  BY <1>1, <1>2

LEMMA BeginsTold == Init => LInv
<1> SUFFICES ASSUME Init PROVE LInv
  OBVIOUS
<1>1. /\ txn = [p \in Processes |-> NoTransaction] /\ TypeOK
  BY BeginsFit DEF Init, HistoryInit
<1>2. PICK past \in SUBSET Facts, full \in SUBSET (Users \X Seasons) :
        db = past \cup {EventOf(f) : f \in past}
             \cup {w \in FactRows : /\ w[1] = "watch" /\ w[3] \notin CopiedSpecials
                                    /\ <<w[2], SeasonOf[w[3]]>> \in full}
             \cup {WatchedSeason(us[1], us[2]) : us \in full}
  BY DEF Init, HistoryInit
<1>3. \A p \in Requests : txn[p] = NoTransaction
  BY <1>1, PassIs
<1>4. HoldsStay /\ Accord /\ Tale
  BY <1>3, IdleStands DEF HoldsStay, Accord, Tale, NoTransaction
<1>5. past \subseteq FactRows
  BY FactsAreRows
<1>6. \A us \in full : WatchedSeason(us[1], us[2])[1] = "watched_season"
  BY DEF WatchedSeason
<1>7. LedgerAgrees
  <2> SUFFICES ASSUME NEW f \in FactRows, f[1] # "watch"
               PROVE  f \in db <=> EventOf(f) \in db
    BY DEF LedgerAgrees
  <2>1. f \in db <=> f \in past
    BY <1>2, <1>5, <1>6, EventKinds
  <2>2. EventOf(f) \in db <=> \E g \in past : EventOf(f) = EventOf(g)
    BY <1>2, <1>5, <1>6, EventKinds
  <2> QED
    BY <1>5, <2>1, <2>2, EventKinds
<1>8. Answered
  <2> SUFFICES ASSUME NEW w \in db \cap EpisodeFacts, w[1] = "watch"
               PROVE  Answering(w) \cap db # {}
    BY DEF Answered
  <2>1. w \in FactRows
    BY DEF FactRows
  <2>2. \/ w \in past
        \/ w[3] \notin CopiedSpecials /\ <<w[2], SeasonOf[w[3]]>> \in full
    BY <1>2, <1>5, <1>6, <2>1, EventKinds
  <2>3. CASE w \in past
    <3>1. EventOf(w) \in db /\ EventOf(w) \in Answering(w)
      BY <1>2, <2>3, AnsweringKinds
    <3> QED
      BY <3>1
  <2>4. CASE w[3] \notin CopiedSpecials /\ <<w[2], SeasonOf[w[3]]>> \in full
    <3>1. WatchedSeason(w[2], SeasonOf[w[3]]) \in db
      BY <1>2, <2>4
    <3> QED
      BY <2>4, <3>1 DEF Answering
  <2> QED
    BY <2>2, <2>3, <2>4
<1> QED
  BY <1>4, <1>7, <1>8 DEF LInv

LEMMA StutterTells ==
    ASSUME TypeOK, LInv, UNCHANGED vars
    PROVE  LInv'
<1>1. UNCHANGED <<episodes, db, crossed>> /\ txn' = [txn EXCEPT ![Pass] = txn[Pass]]
  BY PassIs DEF vars, historyVars, TypeOK
<1> QED
  BY <1>1, PassIs, TablesStand

\* What keeps the ledger in step holds of every behaviour.
LEMMA LedgerInvariant == Spec => []LInv
<1>1. TypeOK /\ IInv /\ IInv' /\ LInv /\ [Next]_vars => LInv'
  BY RequestLedger, PassLedger, StutterTells DEF Next
<1> QED
  BY <1>1, BeginsTold, RepointInvariant, PTL DEF Spec

\* A rating or a membership and its event are there together or not at all
\* (set_episode_rating, clear_episode_rating, add, remove), wherever the pass has
\* moved them, unless it was crossed.
THEOREM RatingsAgree == Spec => []LedgerAgrees
<1>1. LInv => LedgerAgrees
  BY DEF LInv
<1> QED
  BY <1>1, LedgerInvariant, PTL

-----------------------------------------------------------------------------
(* Which commits leave a watch with nothing that tells of it               *)

\* The events that tell of a watch answer for it; the one more that may is the
\* show mark's, of an episode it does not cover.
LEMMA TellersAnswer ==
    ASSUME NEW w \in EpisodeFacts
    PROVE  /\ Tellers(w) \subseteq Answering(w)
           /\ \A e \in Answering(w) \ Tellers(w) : e = WatchedShow(w[2]) /\ w[3] \in Uncovered
<1>1. w[3] \in Episodes /\ CopiedSpecials \subseteq Specials
  BY FactParts, HistoryAssumption DEF HistoryAssumption
<1> QED
  BY <1>1 DEF Tellers, Answering, Uncovered

\* A watch that a request's commit leaves untold was so before, or the request has
\* put or renewed a show mark.
LEMMA CommitSilences ==
    ASSUME TypeOK, IInv, LInv, IInv', NEW p \in Requests, Commit(p),
           NEW w \in db' \cap EpisodeFacts, w[1] = "watch", Home(w) \notin crossed,
           ~Told(w)'
    PROVE  \/ w \in db /\ ~Told(w)
           \/ w[3] \in Uncovered /\ WatchedShow(w[2]) \in txn[p].add \cup txn[p].hold
<1>1. /\ db' = (db \ txn[p].del) \cup txn[p].add /\ txn[p].left = <<>>
      /\ UNCHANGED <<episodes, crossed>> /\ p \in Processes
  BY PassIs DEF Commit, View
<1>2. /\ Struck(txn[p]) = txn[p].del /\ WritesOf(txn[p]) = txn[p].add
      /\ Secured(txn[p]) = txn[p].add \cup txn[p].hold
      /\ RowsOf(txn[p].left, {"delete"}) = {} /\ db' = Sees(txn[p])
  BY <1>1, NoRowsLeft, WritesAre, RequestIs DEF Struck, Secured, Sees
<1>3. w[3] \in episodes
  BY <1>1, FactParts DEF IInv, RowsHome
<1>4. Tellers(w) \cap db' = {}
  BY DEF Told, Tellers
<1>5. CASE w \in db /\ Tellers(w) \cap db = {}
  BY <1>5 DEF Told
<1>6. CASE ~(w \in db /\ Tellers(w) \cap db = {})
  <2>1. Answering(w) \cap Struck(txn[p]) # {} \/ w \in WritesOf(txn[p])
    BY <1>1, <1>2, <1>4, <1>6, TellersAnswer
  <2>2. Tells(txn[p], w) \/ TakesBack(txn[p], w)
    BY <1>3, <2>1 DEF LInv, Tale, TaleIn
  <2>3. ~TakesBack(txn[p], w)
    BY <1>2 DEF TakesBack, Goes
  <2>4. PICK e \in Answering(w) : e \in txn[p].add \cup txn[p].hold /\ e \notin txn[p].del
    BY <1>2, <2>2, <2>3 DEF Tells
  <2>5. e \in db'
    BY <1>1, <2>4 DEF LInv, HoldsStay
  <2>6. e \notin Tellers(w)
    BY <1>4, <2>5
  <2> QED
    BY <2>4, <2>6, TellersAnswer
<1> QED
  BY <1>5, <1>6

\* Twins are told of in the same way.
LEMMA TwinTellers ==
    ASSUME NEW w \in EpisodeFacts
    PROVE  \A e \in Tellers(w) : \/ e = EventOf(w)
                                 \/ e \in Tellers(Moved(w)) /\ e \notin EpisodeRows
<1>1. w[2] \in Users /\ w[3] \in Episodes /\ w \in EpisodeRows
  BY FactParts
<1>2. Moved(w)[2] = w[2] /\ Moved(w)[3] = TwinOf[w[3]]
  BY <1>1, MovedParts
<1>3. /\ SeasonOf[TwinOf[w[3]]] = SeasonOf[w[3]]
      /\ TwinOf[w[3]] \in CopiedSpecials <=> w[3] \in CopiedSpecials
      /\ SeasonOf[w[3]] \in Seasons
  BY <1>1, HistoryAssumption DEF HistoryAssumption, Seasons
<1>4. /\ TwinOf[w[3]] \in Specials <=> w[3] \in Specials
      /\ TwinOf[w[3]] \in Unaired <=> w[3] \in Unaired
  BY <1>1, TwinsAlike DEF TwinsAlike
<1>5. /\ WatchedShow(w[2]) \notin EpisodeRows
      /\ WatchedSeason(w[2], SeasonOf[w[3]]) \notin EpisodeRows
  BY <1>1, <1>3, RowKinds
<1> QED
  BY <1>2, <1>3, <1>4, <1>5 DEF Tellers

\* The pass leaves no watch untold that was not so before.
LEMMA RepointSilences ==
    ASSUME TypeOK, IInv, LInv, RepointCommit,
           NEW w \in db' \cap EpisodeFacts, w[1] = "watch", Home(w) \notin crossed,
           ~Told(w)'
    PROVE  WasSilent(w)
<1>1. /\ pass.at = "count"
      /\ db' = (db \ txn[Pass].del) \cup txn[Pass].add
  BY DEF RepointCommit, View
<1>2. /\ txn[Pass].del \subseteq db /\ txn[Pass].del \subseteq EpisodeRows
      /\ \A r \in txn[Pass].del : r[3] \in pass.batch
  BY PassIs DEF TypeOK, IInv, Handled
<1>3. ASSUME NEW f \in EpisodeFacts, f[1] = "watch", Home(f) \notin crossed
      PROVE  /\ f \in EpisodeRows /\ HomeFact(f) \notin crossed
             /\ EventOf(f) \in EpisodeRows /\ HomeFact(EventOf(f)) \notin crossed
             /\ EventOf(f)[2] = f[2] /\ EventOf(f)[3] = f[3]
  BY <1>3, FactParts
<1>4. Tellers(w) \cap db' = {}
  BY DEF Told, Tellers
<1>5. ASSUME NEW r \in txn[Pass].del, w = Moved(r)
      PROVE  r \in db \cap EpisodeFacts /\ ~Told(r)
  <2>1. r \in db \cap EpisodeFacts /\ r[1] = "watch" /\ Home(r) \notin crossed
    BY <1>2, <1>5, MovedParts, FactParts
  <2> SUFFICES ASSUME NEW e \in Tellers(r), e \in db PROVE FALSE
    BY <2>1 DEF Told
  <2>2. CASE e = EventOf(r)
    <3>1. e \in txn[Pass].del
      BY <1>1, <1>2, <1>3, <2>1, <2>2, GoneTogether
    <3>2. Moved(e) \in txn[Pass].add
      BY <1>3, <2>1, <2>2, <3>1 DEF IInv, Kept
    <3>3. Moved(e) = EventOf(w)
      BY <1>5, <2>1, <2>2, MovedEvent
    <3> QED
      BY <1>1, <1>4, <3>2, <3>3 DEF Tellers
  <2>3. CASE e # EventOf(r)
    <3>1. e \in Tellers(w) /\ e \notin EpisodeRows
      BY <1>5, <2>1, <2>3, TwinTellers
    <3> QED
      BY <1>1, <1>2, <1>4, <3>1
  <2> QED
    BY <2>2, <2>3
<1>6. CASE w \notin db
  <2>1. PICK r \in txn[Pass].del : w = Moved(r)
    BY <1>1, <1>6, AddedAreMoved
  <2> QED
    BY <1>5, <1>6, <2>1 DEF WasSilent
<1>7. CASE w \in db
  <2> SUFFICES ASSUME NEW e \in Tellers(w), e \in db PROVE FALSE
    BY <1>7 DEF WasSilent, Told
  <2>1. e \in txn[Pass].del
    BY <1>1, <1>4
  <2>2. e = EventOf(w) /\ e[3] \in pass.batch
    BY <1>2, <2>1, TwinTellers
  <2>3. w \in txn[Pass].del
    BY <1>1, <1>3, <1>7, <2>1, <2>2, GoneTogether
  <2>4. w \in txn[Pass].add
    BY <1>1, <2>3
  <2>5. PICK r \in txn[Pass].del : w = Moved(r) /\ r \in EpisodeRows
    BY <2>4, AddedAreMoved
  <2>6. w[3] = TwinOf[r[3]] /\ r[3] \in pass.batch /\ TwinOf[TwinOf[r[3]]] = TwinOf[r[3]]
    BY <1>2, <2>5, MovedParts
  <2>7. w[3] \in Copies
    BY <1>3, <2>2, BatchIsCopies
  <2> QED
    BY <2>6, <2>7 DEF Copies
<1> QED
  BY <1>6, <1>7

\* A request's first step writes nothing that others see.
LEMMA BeginsKeep ==
    ASSUME NEW p, NEW program, NEW facts, NEW undoes, Begin(p, program, facts, undoes)
    PROVE  db' = db
BY DEF Begin

LEMMA RequestsKeep ==
    ASSUME NEW p \in Requests, Request(p), ~Commit(p)
    PROVE  db' = db
<1>1. CASE \E f \in Facts : Put(p, f) \/ Drop(p, f)
  BY <1>1, BeginsKeep DEF Put, Drop
<1>2. CASE \E u \in Users, s \in Seasons : MarkSeason(p, u, s) \/ UnmarkSeason(p, u, s)
  BY <1>2, BeginsKeep DEF MarkSeason, UnmarkSeason
<1>3. CASE \E u \in Users : MarkShow(p, u) \/ UnmarkShow(p, u)
  BY <1>3, BeginsKeep DEF MarkShow, UnmarkShow
<1>4. CASE Wait(p) \/ Execute(p) \/ Rollback(p)
  BY <1>4 DEF Wait, Execute, Rollback
<1> QED
  BY <1>1, <1>2, <1>3, <1>4 DEF Request

\* Of all steps only the commit of a show mark leaves a watch with no event that
\* tells of it, and only one of an episode it does not cover, whatever collapses
\* and moves overlap, unless the watch was crossed.
THEOREM OnlyMarksSilence == Spec => OnlyShowMarksSilence
<1>1. ASSUME TypeOK, IInv, IInv', LInv, [Next]_vars,
             NEW w \in db' \cap EpisodeFacts, w[1] = "watch", Home(w) \notin crossed,
             ~Told(w)'
      PROVE  \/ WasSilent(w)
             \/ /\ w[3] \in Uncovered
                /\ \E p \in Requests :
                      Commit(p) /\ WatchedShow(w[2]) \in txn[p].add \cup txn[p].hold
  <2>1. CASE RepointCommit
    BY <1>1, <2>1, RepointSilences
  <2>2. CASE \E p \in Requests : Commit(p)
    BY <1>1, <2>2, CommitSilences DEF WasSilent
  <2>3. CASE ~RepointCommit /\ ~\E p \in Requests : Commit(p)
    <3>1. db' = db
      BY <1>1, <2>3, RequestsKeep DEF Next, HistoryNext, PassNext, Start, Select,
            Finish, MoveWaits, Move, RetireWaits, Retire, Abort, vars, historyVars
    <3>2. w \in db /\ ~Told(w)
      BY <1>1, <3>1 DEF Told, Tellers
    <3> QED
      BY <3>2 DEF WasSilent
  <2> QED
    BY <2>1, <2>2, <2>3
<1>2. TypeOK /\ IInv /\ IInv' /\ LInv /\ [Next]_vars =>
        \A w \in db' \cap EpisodeFacts :
          w[1] = "watch" /\ Home(w) \notin crossed /\ ~Told(w)' =>
            \/ WasSilent(w)
            \/ /\ w[3] \in Uncovered
               /\ \E p \in Requests :
                     Commit(p) /\ WatchedShow(w[2]) \in txn[p].add \cup txn[p].hold
  BY <1>1
<1> QED
  BY <1>2, LedgerInvariant, RepointInvariant, PTL DEF Spec, OnlyShowMarksSilence

\* The watches a show mark covers, and those of copied specials, which no bulk mark
\* does, have an event that tells of them after any marks, collapses, unmarks and
\* moves, unless crossed.
CoveredTold ==
    \A w \in db \cap EpisodeFacts :
        w[1] = "watch" /\ Home(w) \notin crossed /\ w[3] \notin Uncovered => Told(w)
THEOREM CoveredWatchesTold == Spec => []CoveredTold
<1>1. LInv => CoveredTold
  <2> SUFFICES ASSUME LInv, NEW w \in db \cap EpisodeFacts, w[1] = "watch",
                      Home(w) \notin crossed, w[3] \notin Uncovered
               PROVE  Told(w)
    BY DEF CoveredTold
  <2>1. PICK e \in Answering(w) : e \in db
    BY DEF LInv, Answered
  <2>2. e \in Tellers(w)
    BY <2>1, TellersAnswer
  <2> QED
    BY <2>1, <2>2 DEF Told
<1> QED
  BY <1>1, LedgerInvariant, PTL

=============================================================================
