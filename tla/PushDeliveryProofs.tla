------------------------- MODULE PushDeliveryProofs -------------------------
(***************************************************************************)
(* What PushDelivery keeps for every set of users, devices and overlapping *)
(* runs, from PushAssumption.                                              *)
(*                                                                         *)
(* A send spans two transactions, so what protects it in between is its    *)
(* row: a worker in flight has a pending row of this very hour, or the     *)
(* device is gone and nobody can claim for it (Logged).  A receipt on      *)
(* record keeps its pair from being claimed as long as its row is there;   *)
(* the row goes only with the device, or in a purge, which comes after the *)
(* last run that could still select the note (Settled, InTime).  Ids are   *)
(* never used again (FreshIds), so what a run remembers of a device is of  *)
(* that device and its one owner, or of none (Owners).                     *)
(***************************************************************************)
EXTENDS PushDelivery, TLAPS

SentIn(log, i) ==
    \E d \in log : d.note = i.note /\ d.sub = i.sub /\ d.status = "sent"
PendingIn(log, i) ==
    \E d \in log : /\ d.note = i.note /\ d.sub = i.sub
                   /\ d.status = "pending" /\ d.at = now

Active(w) == work[w].at \in {"claim", "send", "final"}
KeysOf(w) == IF w \in Runs THEN Notes ELSE TestNotes

\* Every id that is named anywhere has been given out.
FreshIds ==
    /\ \A s \in subs : s.id < nextSub
    /\ \A d \in rows : d.sub < nextSub
    /\ \A i \in told : i.sub < nextSub
    /\ \A w \in Workers : \A i \in work[w].pairs : i.sub < nextSub
    /\ \A w \in Workers : InFlight(w) => work[w].item.sub < nextSub

\* A subscription that is still there belongs to whom the log and the runs
\* took it to belong to.
Owners ==
    /\ \A d \in rows, s \in subs : d.sub = s.id => d.user = s.user
    /\ \A w \in Workers : \A i \in work[w].pairs, s \in subs :
         i.sub = s.id => work[w].user = s.user

\* Runs and tests send under keys of their own.
OwnKeys ==
    /\ \A w \in Workers : \A i \in work[w].pairs : i.note \in KeysOf(w)
    /\ \A w \in Workers : InFlight(w) =>
         work[w].item \in Item /\ work[w].item.note \in KeysOf(w)
    /\ \A i \in told : i.note \in Notes

\* A send in flight has its pending row of this hour, or no device any more.
Logged ==
    \A w \in Workers : InFlight(w) =>
        work[w].item.sub \notin SubIds \/ PendingIn(rows, work[w].item)

\* No run outlives its span, and one with something left to send began while
\* the notes it selected were in their window.
InTime ==
    /\ \A w \in Workers : Active(w) =>
         work[w].began <= now /\ now <= work[w].began + RunSpan
    /\ \A r \in Runs : work[r].todo # {} \/ work[r].pairs # {} =>
         Active(r) /\ work[r].began <= Window

\* A recorded receipt has its row, or its device is gone, or every run that
\* could select the note has ended.
Settled ==
    \A i \in told : \/ i.sub \notin SubIds
                    \/ SentIn(rows, i)
                    \/ now > Window + RunSpan

IInv ==
    /\ TypeOK /\ FreshIds /\ Owners /\ OwnKeys /\ Logged /\ SingleFlight
    /\ InTime /\ Settled

-----------------------------------------------------------------------------
(* What the updates of the two tables keep                                 *)

UniqueRows(log) == \A d, e \in log : d.note = e.note /\ d.sub = e.sub => d = e
UniqueSubs(ss) == \A s, t \in ss : s.id = t.id \/ s.endpoint = t.endpoint => s = t

RowsFrom(new, old) ==
    \A e \in new : \E d \in old :
        e.note = d.note /\ e.sub = d.sub /\ e.user = d.user /\ e.at = d.at
SubsFrom(new, old) ==
    \A s \in new : \E t \in old : s.id = t.id /\ s.user = t.user

LEMMA UnlinkRows ==
    ASSUME rows \subseteq Delivery, UniqueRows(rows), NEW ids
    PROVE  /\ Unlink(ids) \subseteq Delivery /\ UniqueRows(Unlink(ids))
           /\ RowsFrom(Unlink(ids), rows)
           /\ \A i : SentIn(rows, i) => SentIn(Unlink(ids), i)
           /\ \A i : PendingIn(rows, i) => PendingIn(Unlink(ids), i)
<1> DEFINE U(d) == IF d.sub \in ids THEN [d EXCEPT !.linked = FALSE] ELSE d
<1>1. \A d \in rows : /\ U(d) \in Delivery /\ U(d).note = d.note /\ U(d).sub = d.sub
                      /\ U(d).user = d.user /\ U(d).at = d.at /\ U(d).status = d.status
  BY DEF Delivery
<1>2. Unlink(ids) = {U(d) : d \in rows}
  BY DEF Unlink
<1> HIDE DEF U
<1>3. UniqueRows(Unlink(ids))
  BY <1>1, <1>2 DEF UniqueRows
<1>4. Unlink(ids) \subseteq Delivery /\ RowsFrom(Unlink(ids), rows)
  BY <1>1, <1>2 DEF RowsFrom
<1>5. \A i : SentIn(rows, i) => SentIn(Unlink(ids), i)
  BY <1>1, <1>2 DEF SentIn
<1>6. \A i : PendingIn(rows, i) => PendingIn(Unlink(ids), i)
  BY <1>1, <1>2 DEF PendingIn
<1> QED BY <1>3, <1>4, <1>5, <1>6

LEMMA FinishRows ==
    ASSUME NEW from \in SUBSET Delivery, UniqueRows(from), NEW item \in Item,
           NEW status \in {"sent", "failed"}
    PROVE  LET new == Finish(from, item, status)
           IN /\ new \subseteq Delivery /\ UniqueRows(new) /\ RowsFrom(new, from)
              /\ \A i \in Item : SentIn(from, i) => SentIn(new, i)
              /\ \A i \in Item : PendingIn(from, i) /\ i # item => PendingIn(new, i)
              /\ status = "sent" /\ PendingIn(from, item) => SentIn(new, item)
<1> DEFINE F(d) == IF d.note = item.note /\ d.sub = item.sub /\ d.status = "pending"
                  THEN [d EXCEPT !.status = status] ELSE d
<1>1. \A d \in from : /\ F(d) \in Delivery /\ F(d).note = d.note /\ F(d).sub = d.sub
                    /\ F(d).user = d.user /\ F(d).at = d.at
                    /\ F(d).status = IF d.note = item.note /\ d.sub = item.sub /\ d.status = "pending"
                                     THEN status ELSE d.status
  BY DEF Delivery
<1>2. Finish(from, item, status) = {F(d) : d \in from}
  BY DEF Finish
<1>0. \A i \in Item : i.note = item.note /\ i.sub = item.sub => i = item
  BY DEF Item
<1> HIDE DEF F
<1>3. UniqueRows(Finish(from, item, status))
  BY <1>1, <1>2 DEF UniqueRows
<1>4. Finish(from, item, status) \subseteq Delivery /\ RowsFrom(Finish(from, item, status), from)
  BY <1>1, <1>2 DEF RowsFrom
<1>5. \A i \in Item : SentIn(from, i) => SentIn(Finish(from, item, status), i)
  BY <1>1, <1>2 DEF SentIn
<1>6. \A i \in Item : PendingIn(from, i) /\ i # item => PendingIn(Finish(from, item, status), i)
  BY <1>0, <1>1, <1>2 DEF PendingIn
<1>7. status = "sent" /\ PendingIn(from, item) => SentIn(Finish(from, item, status), item)
  BY <1>1, <1>2 DEF PendingIn, SentIn
<1> QED BY <1>3, <1>4, <1>5, <1>6, <1>7

LEMMA FailsSubs ==
    ASSUME subs \subseteq Subscription, UniqueSubs(subs), NEW id,
           NEW n \in 0 .. FailureLimit - 1
    PROVE  /\ SetFails(id, n) \subseteq Subscription /\ UniqueSubs(SetFails(id, n))
           /\ SubsFrom(SetFails(id, n), subs)
<1> DEFINE G(s) == IF s.id = id THEN [s EXCEPT !.fails = n] ELSE s
<1>1. \A s \in subs : /\ G(s) \in Subscription /\ G(s).id = s.id
                      /\ G(s).user = s.user /\ G(s).endpoint = s.endpoint
  BY DEF Subscription
<1>2. SetFails(id, n) = {G(s) : s \in subs}
  BY DEF SetFails
<1> HIDE DEF G
<1> QED BY <1>1, <1>2 DEF UniqueSubs, SubsFrom

LEMMA RefreshedSubs ==
    ASSUME subs \subseteq Subscription, UniqueSubs(subs), FailureLimit \in Nat \ {0},
           NEW kept \in SUBSET subs, NEW held \in SUBSET kept
    PROVE  LET new == (kept \ held) \cup {[s EXCEPT !.fails = 0] : s \in held}
           IN new \subseteq Subscription /\ UniqueSubs(new) /\ SubsFrom(new, subs)
<1> DEFINE G(s) == [s EXCEPT !.fails = 0]
           new == (kept \ held) \cup {G(s) : s \in held}
<1>1. \A s \in subs : /\ G(s) \in Subscription /\ G(s).id = s.id
                      /\ G(s).user = s.user /\ G(s).endpoint = s.endpoint
  BY DEF Subscription
<1>2. SUFFICES new \subseteq Subscription /\ UniqueSubs(new) /\ SubsFrom(new, subs)
  OBVIOUS
<1> HIDE DEF G
<1> QED BY <1>1 DEF UniqueSubs, SubsFrom

-----------------------------------------------------------------------------
(* Steps in which no send begins                                           *)

\* No more pairs, and no send that was not under way.
Calm(w) ==
    /\ work'[w].pairs \subseteq work[w].pairs
    /\ work'[w].pairs # {} => work'[w].user = work[w].user
    /\ work'[w].at = "send" => work[w].at = "send" /\ work'[w].item = work[w].item

LEMMA CalmKeeps ==
    ASSUME IInv, RowsFrom(rows', rows), SubsFrom(subs', subs), nextSub' = nextSub,
           \A w \in Workers : Calm(w),
           \A i \in told' \ told : \E r \in Runs : InFlight(r) /\ work[r].item = i
    PROVE  FreshIds' /\ Owners' /\ OwnKeys' /\ SingleFlight'
<1> USE DEF Calm, IInv, InFlight
<1>1. FreshIds'
  BY DEF FreshIds, RowsFrom, SubsFrom, Workers
<1>2. Owners'
  <2>1. ASSUME NEW d \in rows', NEW s \in subs', d.sub = s.id
        PROVE  d.user = s.user
    BY <2>1 DEF Owners, RowsFrom, SubsFrom
  <2>2. ASSUME NEW w \in Workers, NEW i \in work'[w].pairs, NEW s \in subs', i.sub = s.id
        PROVE  work'[w].user = s.user
    BY <2>2 DEF Owners, SubsFrom
  <2> QED BY <2>1, <2>2 DEF Owners
<1>3. OwnKeys'
  BY DEF OwnKeys, KeysOf, Workers
<1>4. SingleFlight'
  BY DEF SingleFlight
<1> QED BY <1>1, <1>2, <1>3, <1>4

LEMMA CalmLogged ==
    ASSUME IInv, SubsFrom(subs', subs), now' = now, \A w \in Workers : Calm(w),
           \A w \in Workers : work'[w].at = "send" /\ work[w].item.sub \in SubIds'
                /\ PendingIn(rows, work[w].item) => PendingIn(rows, work[w].item)'
    PROVE  Logged'
<1> SUFFICES ASSUME NEW w \in Workers, InFlight(w)', work'[w].item.sub \in SubIds'
             PROVE  PendingIn(rows, work[w].item)'
  BY DEF Logged
<1>1. work[w].item.sub \in SubIds
  BY DEF SubIds, SubsFrom, Calm, InFlight
<1>2. PendingIn(rows, work[w].item)
  BY <1>1 DEF Logged, IInv, Calm, InFlight
<1> QED BY <1>2 DEF Calm, InFlight

LEMMA CalmSettled ==
    ASSUME IInv, SubsFrom(subs', subs), now' = now,
           \A i \in told : i.sub \in SubIds' /\ now <= Window + RunSpan /\ SentIn(rows, i)
                => SentIn(rows', i),
           \A i \in told' \ told : \E r \in Runs :
                /\ InFlight(r) /\ work[r].item = i
                /\ PendingIn(rows, i) => SentIn(rows', i)
    PROVE  Settled'
<1> SUFFICES ASSUME NEW i \in told', i.sub \in SubIds', now <= Window + RunSpan
             PROVE  SentIn(rows', i)
  BY PushAssumption DEF Settled, IInv, TypeOK
<1>1. i.sub \in SubIds
  BY DEF SubIds, SubsFrom
<1>2. CASE i \in told
  BY <1>1, <1>2, PushAssumption DEF Settled, IInv, TypeOK
<1>3. CASE i \notin told
  <2>1. PICK r \in Runs : /\ InFlight(r) /\ work[r].item = i
                          /\ PendingIn(rows, i) => SentIn(rows', i)
    BY <1>3
  <2> QED BY <1>1, <2>1 DEF Logged, IInv, Workers
<1> QED BY <1>2, <1>3

\* No later start, and nothing more to send.
Steady(w) ==
    /\ Active(w)' => Active(w) /\ work'[w].began = work[w].began
    /\ w \in Runs /\ (work'[w].todo # {} \/ work'[w].pairs # {}) =>
         Active(w)' /\ (work[w].todo # {} \/ work[w].pairs # {})

LEMMA SteadyInTime ==
    ASSUME IInv, now' = now, \A w \in Workers : Steady(w)
    PROVE  InTime'
BY DEF InTime, Steady, IInv, Workers

-----------------------------------------------------------------------------
(* What each action does                                                   *)

Others(w) == \A v \in Workers \ {w} : work'[v] = work[v]

LEMMA Rewritten ==
    ASSUME TypeOK, NEW w \in Workers, NEW x \in Worker, work' = [work EXCEPT ![w] = x]
    PROVE  work' \in [Workers -> Worker] /\ Others(w) /\ work'[w] = x
BY DEF TypeOK, Others

LEMMA GatherFacts ==
    ASSUME TypeOK, NEW r \in Runs, Gather(r)
    PROVE  /\ work' \in [Workers -> Worker] /\ Others(r)
           /\ work[r].at = "new"
           /\ work'[r].at = "claim" /\ work'[r].began = now
           /\ work'[r].pairs = work[r].pairs /\ work'[r].user = work[r].user
           /\ work'[r].todo # {} => now <= Window
<1>0. PICK chosen \in SUBSET ({s.user : s \in subs} \X {n \in Notes : now <= Window}) :
      work' = [work EXCEPT ![r].at = "claim", ![r].began = now, ![r].todo = chosen]
  BY DEF Gather
<1>1. chosen \in SUBSET (Users \X Notes) /\ (chosen # {} => now <= Window)
  BY DEF TypeOK, Subscription
<1>2. now \in Nat /\ r \in Workers /\ work[r] \in Worker
  BY PushAssumption DEF TypeOK, Workers
<1> DEFINE x == [work[r] EXCEPT !.at = "claim", !.began = now, !.todo = chosen]
<1>3. work' = [work EXCEPT ![r] = x]
  BY <1>0, <1>2 DEF TypeOK
<1>4. x \in Worker
  BY <1>1, <1>2 DEF Worker, Phases
<1>5. /\ x.at = "claim" /\ x.began = now /\ x.todo = chosen
      /\ x.pairs = work[r].pairs /\ x.user = work[r].user
  BY <1>2 DEF Worker
<1> HIDE DEF x
<1>6. work' \in [Workers -> Worker] /\ Others(r) /\ work'[r] = x
  BY <1>2, <1>3, <1>4, Rewritten
<1> QED BY <1>1, <1>5, <1>6 DEF Gather

LEMMA NextUserFacts ==
    ASSUME TypeOK, NEW r \in Runs, NextUser(r)
    PROVE  /\ work' \in [Workers -> Worker] /\ Others(r)
           /\ work[r].at = "claim" /\ work[r].todo # {}
           /\ work'[r].at = "claim" /\ work'[r].began = work[r].began
           /\ work'[r].todo \subseteq work[r].todo
           /\ \A i \in work'[r].pairs : /\ i.note \in Notes
                /\ \E s \in subs : s.id = i.sub /\ s.user = work'[r].user
<1>2. r \in Workers /\ work[r] \in Worker
  BY DEF TypeOK, Workers
<1>0. PICK u \in {t[1] : t \in work[r].todo} :
      work' = [work EXCEPT ![r].user = u, ![r].todo = {t \in @ : t[1] # u},
                           ![r].pairs = PairsFor(u, work[r].todo)]
  BY DEF NextUser
<1> DEFINE left == {t \in work[r].todo : t[1] # u}
           mine == PairsFor(u, work[r].todo)
           x == [work[r] EXCEPT !.user = u, !.todo = left, !.pairs = mine]
<1>1. work[r].todo \in SUBSET (Users \X Notes)
  BY <1>2 DEF Worker
<1>3. u \in Users
  BY <1>1
<1>4. \A i \in mine : /\ i \in Item /\ i.note \in Notes
                      /\ \E s \in subs : s.id = i.sub /\ s.user = u
  <2> SUFFICES ASSUME NEW t \in work[r].todo, NEW s \in subs, s.user = u
               PROVE  LET i == [note |-> t[2], sub |-> s.id]
                      IN i \in Item /\ i.note \in Notes /\ s.id = i.sub
    BY DEF OfUser, PairsFor
  <2>1. t[2] \in Notes
    BY <1>1
  <2>2. s.id \in 1 .. MaxSub
    BY DEF TypeOK, Subscription
  <2> QED BY <2>1, <2>2 DEF Item
<1>6. left \subseteq work[r].todo
  OBVIOUS
<1>5. work' = [work EXCEPT ![r] = x]
  BY <1>0, <1>2 DEF TypeOK
<1> HIDE DEF left, mine
<1>7. x \in Worker
  BY <1>1, <1>2, <1>3, <1>4, <1>6 DEF Worker
<1>8. /\ x.at = work[r].at /\ x.began = work[r].began /\ x.todo = left
      /\ x.pairs = mine /\ x.user = u
  BY <1>2 DEF Worker
<1> HIDE DEF x
<1>9. work' \in [Workers -> Worker] /\ Others(r) /\ work'[r] = x
  BY <1>2, <1>5, <1>7, Rewritten
<1>10. work[r].at = "claim" /\ work[r].todo # {}
  BY DEF NextUser
<1>11. work'[r].pairs = mine /\ work'[r].user = u
  BY <1>8, <1>9
<1>12. \A i \in work'[r].pairs : /\ i.note \in Notes
            /\ \E s \in subs : s.id = i.sub /\ s.user = work'[r].user
  BY <1>4, <1>11
<1> QED BY <1>6, <1>8, <1>9, <1>10, <1>12

\* What a worker still in its run keeps of it.
Keeps(w) ==
    /\ work' \in [Workers -> Worker] /\ Others(w)
    /\ work'[w].began = work[w].began /\ work'[w].todo = work[w].todo
    /\ work'[w].user = work[w].user /\ work'[w].pairs \subseteq work[w].pairs

LEMMA Kept ==
    ASSUME TypeOK, NEW w \in Workers, NEW x \in Worker, work' = [work EXCEPT ![w] = x],
           x.began = work[w].began, x.todo = work[w].todo, x.user = work[w].user,
           x.pairs \subseteq work[w].pairs
    PROVE  Keeps(w) /\ work'[w] = x
BY Rewritten DEF Keeps

LEMMA ClaimFacts ==
    ASSUME TypeOK, NEW r \in Runs, Claim(r)
    PROVE  /\ Keeps(r) /\ work[r].at = "claim"
           /\ \/ work'[r].at = "claim" /\ rows' = rows
              \/ /\ work'[r].at = "send" /\ work'[r].item \in work[r].pairs
                 /\ work'[r].item.sub \in SubIds
                 /\ \A d \in RowOf(work'[r].item) : Claimable(d)
                 /\ rows' = Reclaim(work'[r].item, work[r].user, r)
<1>1. r \in Workers /\ work[r] \in Worker
  BY DEF TypeOK, Workers
<1>2. PICK item \in work[r].pairs :
         \/ /\ work' = [work EXCEPT ![r].pairs = Drop(@, item.sub)]
            /\ rows' = rows
         \/ /\ work' = [work EXCEPT ![r].pairs = @ \ {item}]
            /\ rows' = rows
         \/ /\ item.sub \in SubIds
            /\ \A d \in RowOf(item) : Claimable(d)
            /\ rows' = Reclaim(item, work[r].user, r)
            /\ work' = [work EXCEPT ![r].at = "send", ![r].item = item,
                                    ![r].pairs = @ \ {item}]
  BY DEF Claim
<1>3. item \in Item /\ work[r].at = "claim" /\ Drop(work[r].pairs, item.sub) \subseteq work[r].pairs
  BY <1>1 DEF Worker, Claim, Drop
<1>4. ASSUME NEW left \in SUBSET work[r].pairs, work' = [work EXCEPT ![r].pairs = left]
      PROVE  Keeps(r) /\ work'[r].at = "claim"
  <2> DEFINE x == [work[r] EXCEPT !.pairs = left]
  <2>1. work' = [work EXCEPT ![r] = x]
    BY <1>1, <1>4 DEF TypeOK
  <2>2. /\ x \in Worker /\ x.at = work[r].at /\ x.began = work[r].began /\ x.todo = work[r].todo
        /\ x.user = work[r].user /\ x.pairs = left
    BY <1>1 DEF Worker
  <2> HIDE DEF x
  <2> QED BY <1>1, <1>3, <2>1, <2>2, Kept
<1>5. CASE work' = [work EXCEPT ![r].pairs = Drop(@, item.sub)] /\ rows' = rows
  BY <1>3, <1>4, <1>5
<1>6. CASE work' = [work EXCEPT ![r].pairs = @ \ {item}] /\ rows' = rows
  BY <1>3, <1>4, <1>6
<1>7. CASE /\ item.sub \in SubIds
           /\ \A d \in RowOf(item) : Claimable(d)
           /\ rows' = Reclaim(item, work[r].user, r)
           /\ work' = [work EXCEPT ![r].at = "send", ![r].item = item,
                                   ![r].pairs = @ \ {item}]
  <2> DEFINE x == [work[r] EXCEPT !.at = "send", !.item = item, !.pairs = @ \ {item}]
  <2>1. work' = [work EXCEPT ![r] = x]
    BY <1>1, <1>7 DEF TypeOK
  <2>2. /\ x \in Worker /\ x.at = "send" /\ x.began = work[r].began /\ x.todo = work[r].todo
        /\ x.user = work[r].user /\ x.pairs \subseteq work[r].pairs /\ x.item = item
    BY <1>1, <1>3 DEF Worker, Phases
  <2> HIDE DEF x
  <2>3. Keeps(r) /\ work'[r] = x
    BY <1>1, <2>1, <2>2, Kept
  <2> QED BY <1>3, <1>7, <2>2, <2>3
<1> QED BY <1>2, <1>5, <1>6, <1>7

LEMMA RecordedFacts ==
    ASSUME TypeOK, NEW r \in Runs, NEW left \in SUBSET work[r].pairs
    PROVE  LET x == [Recorded(r) EXCEPT !.pairs = left]
               y == [Recorded(r) EXCEPT !.pairs = left, !.outage = TRUE]
               z == [Recorded(r) EXCEPT !.sentAny = TRUE]
           IN \A v \in {x, y, z} :
                /\ v \in Worker /\ v.at = "claim" /\ v.began = work[r].began
                /\ v.todo = work[r].todo /\ v.user = work[r].user
                /\ v.pairs \subseteq work[r].pairs
<1>1. r \in Workers /\ work[r] \in Worker
  BY DEF TypeOK, Workers
<1> DEFINE b == Recorded(r)
<1>2. /\ b \in Worker /\ b.at = "claim" /\ b.began = work[r].began
      /\ b.todo = work[r].todo /\ b.user = work[r].user /\ b.pairs = work[r].pairs
  BY <1>1 DEF Worker, Recorded, Phases
<1>3. left \in SUBSET Item
  BY <1>1 DEF Worker
<1> HIDE DEF b
<1> DEFINE x == [b EXCEPT !.pairs = left]
           y == [b EXCEPT !.pairs = left, !.outage = TRUE]
           z == [b EXCEPT !.sentAny = TRUE]
<1>4. x \in Worker /\ y \in Worker /\ z \in Worker
  BY <1>2, <1>3 DEF Worker
<1>5. /\ x.at = "claim" /\ x.began = work[r].began /\ x.todo = work[r].todo
      /\ x.user = work[r].user /\ x.pairs = left
  BY <1>2 DEF Worker
<1>6. /\ y.at = "claim" /\ y.began = work[r].began /\ y.todo = work[r].todo
      /\ y.user = work[r].user /\ y.pairs = left
  BY <1>2 DEF Worker
<1>7. /\ z.at = "claim" /\ z.began = work[r].began /\ z.todo = work[r].todo
      /\ z.user = work[r].user /\ z.pairs = work[r].pairs
  BY <1>2 DEF Worker
<1> HIDE DEF x, y, z
<1>8. \A v \in {x, y, z} :
                /\ v \in Worker /\ v.at = "claim" /\ v.began = work[r].began
                /\ v.todo = work[r].todo /\ v.user = work[r].user
                /\ v.pairs \subseteq work[r].pairs
  BY <1>4, <1>5, <1>6, <1>7
<1> QED BY <1>8 DEF x, y, z, b

-----------------------------------------------------------------------------
\* What every update of the log but a claim, a purge and a cascade keeps, item
\* being the pair whose outcome it may record.
RowsKept(item) ==
    /\ rows' \subseteq Delivery /\ UniqueRows(rows') /\ RowsFrom(rows', rows)
    /\ \A i \in Item : SentIn(rows, i) => SentIn(rows', i)
    /\ \A i \in Item : PendingIn(rows, i) /\ i # item => PendingIn(rows', i)
SubsKept ==
    subs' \subseteq Subscription /\ UniqueSubs(subs') /\ SubsFrom(subs', subs)

LEMMA Uniques ==
    ASSUME TypeOK
    PROVE  /\ rows \subseteq Delivery /\ UniqueRows(rows)
           /\ subs \subseteq Subscription /\ UniqueSubs(subs)
BY DEF TypeOK, UniqueRows, UniqueSubs

LEMMA SameRows ==
    ASSUME TypeOK, NEW item, rows' = rows
    PROVE  RowsKept(item)
<1>1. RowsFrom(rows, rows)
  BY DEF RowsFrom
<1> QED BY <1>1, Uniques DEF RowsKept

LEMMA UnlinkKeeps ==
    ASSUME TypeOK, NEW item, NEW ids, rows' = Unlink(ids)
    PROVE  RowsKept(item)
BY UnlinkRows, Uniques DEF RowsKept

LEMMA FinishKeeps ==
    ASSUME TypeOK, NEW item \in Item, NEW status \in {"sent", "failed"},
           \/ rows' = Finish(rows, item, status)
           \/ \E ids : rows' = Finish(Unlink(ids), item, status)
    PROVE  /\ RowsKept(item)
           /\ status = "sent" /\ PendingIn(rows, item) => SentIn(rows', item)
<1>1. CASE rows' = Finish(rows, item, status)
  <2>1. rows \in SUBSET Delivery /\ UniqueRows(rows)
    BY Uniques
  <2> QED BY <1>1, <2>1, FinishRows DEF RowsKept
<1>2. ASSUME NEW ids, rows' = Finish(Unlink(ids), item, status)
      PROVE  /\ RowsKept(item)
             /\ status = "sent" /\ PendingIn(rows, item) => SentIn(rows', item)
  <2> DEFINE mid == Unlink(ids)
  <2>1. /\ mid \in SUBSET Delivery /\ UniqueRows(mid) /\ RowsFrom(mid, rows)
        /\ \A i : SentIn(rows, i) => SentIn(mid, i)
        /\ \A i : PendingIn(rows, i) => PendingIn(mid, i)
    BY Uniques, UnlinkRows
  <2> HIDE DEF mid
  <2>2. /\ rows' \subseteq Delivery /\ UniqueRows(rows') /\ RowsFrom(rows', mid)
        /\ \A i \in Item : SentIn(mid, i) => SentIn(rows', i)
        /\ \A i \in Item : PendingIn(mid, i) /\ i # item => PendingIn(rows', i)
        /\ status = "sent" /\ PendingIn(mid, item) => SentIn(rows', item)
    BY <1>2, <2>1, FinishRows DEF mid
  <2>3. RowsFrom(rows', rows)
    BY <2>1, <2>2 DEF RowsFrom
  <2> QED BY <2>1, <2>2, <2>3 DEF RowsKept
<1> QED BY <1>1, <1>2

LEMMA FewerSubs ==
    ASSUME TypeOK, subs' \subseteq subs
    PROVE  SubsKept
BY Uniques DEF SubsKept, UniqueSubs, SubsFrom

LEMMA FailsKeeps ==
    ASSUME TypeOK, NEW id, NEW n \in 0 .. FailureLimit - 1, subs' = SetFails(id, n)
    PROVE  SubsKept
BY FailsSubs, Uniques DEF SubsKept

-----------------------------------------------------------------------------
\* A run's second transaction, whatever the push service answered.
Records(r) == RecordSent(r) \/ RecordGone(r) \/ RecordFailed(r)

LEMMA RecordFacts ==
    ASSUME TypeOK, OwnKeys, NEW r \in Runs, Records(r)
    PROVE  /\ Keeps(r) /\ work[r].at = "send" /\ work'[r].at = "claim"
           /\ RowsKept(work[r].item) /\ SubsKept
           /\ UNCHANGED <<accounts, join, nextSub, now>>
           /\ \/ told' = told
              \/ /\ told' = told \cup {work[r].item}
                 /\ PendingIn(rows, work[r].item) => SentIn(rows', work[r].item)
<1>1. r \in Workers /\ work[r] \in Worker /\ FailureLimit \in Nat \ {0}
  BY PushAssumption DEF TypeOK, Workers
<1>2. work[r].at = "send" /\ work[r].item \in Item
  BY <1>1 DEF Records, RecordSent, RecordGone, RecordFailed, OwnKeys, InFlight
<1> DEFINE item == work[r].item
           x(left) == [Recorded(r) EXCEPT !.pairs = left]
           y(left) == [Recorded(r) EXCEPT !.pairs = left, !.outage = TRUE]
           z == [Recorded(r) EXCEPT !.sentAny = TRUE]
           id == work[r].item.sub
<1>3. \A pairs, n : Drop(pairs, n) \subseteq pairs
  BY DEF Drop
<1>4. ASSUME NEW left \in SUBSET work[r].pairs,
             \/ work' = [work EXCEPT ![r] = x(left)]
             \/ work' = [work EXCEPT ![r] = y(left)]
             \/ work' = [work EXCEPT ![r] = z]
      PROVE  Keeps(r) /\ work'[r].at = "claim"
  <2>1. PICK v \in {x(left), y(left), z} : work' = [work EXCEPT ![r] = v]
    BY <1>4
  <2>2. /\ v \in Worker /\ v.at = "claim" /\ v.began = work[r].began
        /\ v.todo = work[r].todo /\ v.user = work[r].user
        /\ v.pairs \subseteq work[r].pairs
    BY RecordedFacts
  <2> QED BY <1>1, <2>1, <2>2, Kept
<1> HIDE DEF x, y, z
<1>5. CASE RecordSent(r)
  <2>1. /\ rows' = Finish(rows, item, "sent") /\ subs' = SetFails(id, 0)
        /\ work' = [work EXCEPT ![r] = z] /\ told' = told \cup {item}
        /\ UNCHANGED <<accounts, join, nextSub, now>>
    BY <1>5 DEF RecordSent, people, z
  <2>2. Keeps(r) /\ work'[r].at = "claim"
    BY <1>4, <2>1
  <2>3. RowsKept(item) /\ (PendingIn(rows, item) => SentIn(rows', item))
    BY <1>2, <2>1, FinishKeeps
  <2>4. SubsKept
    BY <1>1, <2>1, FailsKeeps
  <2> QED BY <1>2, <2>1, <2>2, <2>3, <2>4
<1>6. CASE RecordGone(r)
  <2>1. /\ rows' = Finish(Unlink({id}), item, "failed") /\ subs' \subseteq subs
        /\ work' = [work EXCEPT ![r] = [Recorded(r) EXCEPT !.pairs = Drop(@, id)]]
        /\ told' = told /\ UNCHANGED <<accounts, join, nextSub, now>>
    BY <1>6 DEF RecordGone, people
  <2>2. Recorded(r).pairs = work[r].pairs
    BY <1>1 DEF Recorded, Worker
  <2>6. Recorded(r) \in Worker
    BY <1>1 DEF Recorded, Worker, Phases
  <2>7. work' = [work EXCEPT ![r] = x(Drop(work[r].pairs, id))]
    BY <2>1, <2>2, <2>6 DEF x
  <2>8. PICK left \in SUBSET work[r].pairs : work' = [work EXCEPT ![r] = x(left)]
    BY <1>3, <2>7
  <2>3. Keeps(r) /\ work'[r].at = "claim"
    BY <1>4, <2>8
  <2>4. RowsKept(item)
    BY <1>2, <2>1, FinishKeeps
  <2>5. SubsKept
    BY <2>1, FewerSubs
  <2> QED BY <1>2, <2>1, <2>3, <2>4, <2>5
<1>7. CASE RecordFailed(r)
  <2>1. /\ told' = told /\ UNCHANGED <<accounts, join, nextSub, now>>
    BY <1>7 DEF RecordFailed, people
  <2>2. \/ /\ rows' = Finish(rows, item, "failed") /\ subs' = subs
           /\ work' = [work EXCEPT ![r] = y(Drop(work[r].pairs, id))]
        \/ \E s \in ById(id) :
             \/ /\ rows' = Finish(Unlink({id}), item, "failed") /\ subs' = subs \ {s}
                /\ work' = [work EXCEPT ![r] = y(Drop(work[r].pairs, id))]
             \/ /\ ~AtLimit(s.fails + 1)
                /\ rows' = Finish(rows, item, "failed") /\ subs' = SetFails(id, s.fails + 1)
                /\ work' = [work EXCEPT ![r] = y(work[r].pairs)]
    BY <1>7 DEF RecordFailed, y
  <2>3. Keeps(r) /\ work'[r].at = "claim"
    BY <1>3, <1>4, <2>2
  <2>4. RowsKept(item)
    BY <1>2, <2>2, FinishKeeps
  <2>5. ASSUME NEW s \in ById(id), ~AtLimit(s.fails + 1) PROVE s.fails + 1 \in 0 .. FailureLimit - 1
    BY <1>1, <2>5 DEF AtLimit, ById, TypeOK, Subscription
  <2>6. SubsKept
    BY <2>2, <2>5, FewerSubs, FailsKeeps
  <2> QED BY <1>2, <2>1, <2>3, <2>4, <2>6
<1> QED BY <1>5, <1>6, <1>7 DEF Records

\* A worker that ended, and has nothing left to send.
Stops(w) ==
    /\ work' \in [Workers -> Worker] /\ Others(w)
    /\ work'[w].at \in {"new", "done", "dead"}
    /\ work'[w].pairs = {} /\ work'[w].todo = {}

LEMMA Stopped ==
    ASSUME TypeOK, NEW w \in Workers,
           \/ work' = [work EXCEPT ![w] = Fresh]
           \/ \E how \in {"done", "dead"}, v \in Verdicts :
                 work' = [work EXCEPT ![w] = Ended(how, v)]
    PROVE  Stops(w)
<1>1. Fresh \in Worker /\ Fresh.at = "new" /\ Fresh.pairs = {} /\ Fresh.todo = {}
  BY DEF Worker, Fresh, Phases, Verdicts, NoItem, Item
<1>2. \A how \in {"done", "dead"}, v \in Verdicts :
         LET e == Ended(how, v)
         IN e \in Worker /\ e.at = how /\ e.pairs = {} /\ e.todo = {}
  BY DEF Worker, Ended, Fresh, Phases, Verdicts, NoItem, Item
<1>3. PICK x \in Worker : /\ work' = [work EXCEPT ![w] = x]
                          /\ x.at \in {"new", "done", "dead"} /\ x.pairs = {} /\ x.todo = {}
  BY <1>1, <1>2
<1> QED BY <1>3, Rewritten DEF Stops

LEMMA PurgeFacts ==
    ASSUME TypeOK, NEW r \in Runs, Purge(r)
    PROVE  /\ Keeps(r) /\ work[r].at = "claim" /\ work'[r].at = "final"
           /\ work[r].pairs = {} /\ work[r].todo = {}
           /\ rows' = {d \in rows : d.at >= work[r].began - Retention}
           /\ UNCHANGED <<accounts, join, subs, nextSub, now, told>>
<1>1. r \in Workers /\ work[r] \in Worker
  BY DEF TypeOK, Workers
<1> DEFINE x == [work[r] EXCEPT !.at = "final"]
<1>2. work' = [work EXCEPT ![r] = x]
  BY <1>1 DEF TypeOK, Purge
<1>3. /\ x \in Worker /\ x.at = "final" /\ x.began = work[r].began /\ x.todo = work[r].todo
      /\ x.user = work[r].user /\ x.pairs = work[r].pairs
  BY <1>1 DEF Worker, Phases
<1> HIDE DEF x
<1>4. Keeps(r) /\ work'[r] = x
  BY <1>1, <1>2, <1>3, Kept
<1> QED BY <1>3, <1>4 DEF Purge, AllSent, people

LEMMA FinalizeFacts ==
    ASSUME TypeOK, NEW r \in Runs, Finalize(r)
    PROVE  Stops(r) /\ UNCHANGED <<accounts, join, subs, rows, nextSub, now, told>>
<1>1. \E v \in Verdicts : work' = [work EXCEPT ![r] = Ended("done", v)]
  BY DEF Finalize, Verdicts
<1> QED BY <1>1, Stopped DEF Finalize, people, Workers

LEMMA CrashFacts ==
    ASSUME TypeOK, NEW w \in Workers, Crash(w)
    PROVE  Stops(w) /\ UNCHANGED <<accounts, join, subs, rows, nextSub, now, told>>
<1>1. \/ work' = [work EXCEPT ![w] = Fresh]
      \/ \E how \in {"done", "dead"}, v \in Verdicts :
                 work' = [work EXCEPT ![w] = Ended(how, v)]
  BY DEF Crash, Verdicts
<1> QED BY <1>1, Stopped DEF Crash, people

LEMMA TestReadFacts ==
    ASSUME TypeOK, NEW t \in Tests, TestRead(t)
    PROVE  /\ work' \in [Workers -> Worker] /\ Others(t)
           /\ work[t].at = "new" /\ work'[t].at = "claim" /\ work'[t].began = now
           /\ \A i \in work'[t].pairs : /\ i.note \in TestNotes
                /\ \E s \in subs : s.id = i.sub /\ s.user = work'[t].user
           /\ UNCHANGED <<accounts, join, subs, rows, nextSub, now, told>>
<1>1. t \in Workers /\ work[t] \in Worker /\ now \in Nat
  BY PushAssumption DEF TypeOK, Workers
<1>2. PICK u \in accounts : \E s \in OfUser(u) :
         work' = [work EXCEPT ![t].at = "claim", ![t].began = now,
              ![t].user = u, ![t].pairs = {[note |-> m, sub |-> s.id] : m \in TestNotes}]
  BY DEF TestRead
<1>9. PICK s \in OfUser(u) :
         work' = [work EXCEPT ![t].at = "claim", ![t].began = now,
              ![t].user = u, ![t].pairs = {[note |-> m, sub |-> s.id] : m \in TestNotes}]
  BY <1>2
<1> DEFINE mine == {[note |-> m, sub |-> s.id] : m \in TestNotes}
           x == [work[t] EXCEPT !.at = "claim", !.began = now, !.user = u, !.pairs = mine]
<1>3. work' = [work EXCEPT ![t] = x]
  BY <1>1, <1>9 DEF TypeOK
<1>4. s \in subs /\ s.user = u /\ s.id \in 1 .. MaxSub /\ u \in Users
  BY DEF OfUser, TypeOK, Subscription
<1>5. mine \subseteq Item /\ \A i \in mine : i.note \in TestNotes /\ s.id = i.sub
  BY <1>4 DEF Item
<1> HIDE DEF mine
<1>6. /\ x \in Worker /\ x.at = "claim" /\ x.began = now /\ x.user = u /\ x.pairs = mine
  BY <1>1, <1>4, <1>5 DEF Worker, Phases
<1> HIDE DEF x
<1>7. work' \in [Workers -> Worker] /\ Others(t) /\ work'[t] = x
  BY <1>1, <1>3, <1>6, Rewritten
<1>8. work[t].at = "new" /\ UNCHANGED <<accounts, join, subs, rows, nextSub, now, told>>
  BY DEF TestRead, people
<1> QED BY <1>4, <1>5, <1>6, <1>7, <1>8

LEMMA TestClaimFacts ==
    ASSUME TypeOK, NEW t \in Tests, TestClaim(t)
    PROVE  /\ UNCHANGED <<accounts, join, subs, nextSub, now, told>>
           /\ work[t].at = "claim"
           /\ \/ Stops(t) /\ rows' = rows
              \/ /\ Keeps(t) /\ work'[t].at = "send" /\ work'[t].item \in work[t].pairs
                 /\ work'[t].item.sub \in SubIds
                 /\ RowOf(work'[t].item) = {}
                 /\ rows' = rows \cup {NewDelivery(work'[t].item, work[t].user, t)}
<1>1. t \in Workers /\ work[t] \in Worker
  BY DEF TypeOK, Workers
<1>2. work[t].at = "claim" /\ UNCHANGED <<accounts, join, subs, nextSub, now, told>>
  BY DEF TestClaim, people
<1>3. PICK item \in work[t].pairs :
         \/ work' = [work EXCEPT ![t] = Fresh] /\ rows' = rows
         \/ /\ item.sub \in SubIds /\ RowOf(item) = {}
            /\ rows' = rows \cup {NewDelivery(item, work[t].user, t)}
            /\ work' = [work EXCEPT ![t].at = "send", ![t].item = item, ![t].pairs = {}]
  BY DEF TestClaim
<1>4. CASE work' = [work EXCEPT ![t] = Fresh] /\ rows' = rows
  BY <1>1, <1>2, <1>4, Stopped
<1>5. CASE /\ item.sub \in SubIds /\ RowOf(item) = {}
           /\ rows' = rows \cup {NewDelivery(item, work[t].user, t)}
           /\ work' = [work EXCEPT ![t].at = "send", ![t].item = item, ![t].pairs = {}]
  <2> DEFINE x == [work[t] EXCEPT !.at = "send", !.item = item, !.pairs = {}]
  <2>1. work' = [work EXCEPT ![t] = x]
    BY <1>1, <1>5 DEF TypeOK
  <2>2. /\ x \in Worker /\ x.at = "send" /\ x.began = work[t].began /\ x.todo = work[t].todo
        /\ x.user = work[t].user /\ x.pairs = {} /\ x.item = item
    BY <1>1 DEF Worker, Phases
  <2> HIDE DEF x
  <2>3. Keeps(t) /\ work'[t] = x
    BY <1>1, <2>1, <2>2, Kept
  <2> QED BY <1>2, <1>5, <2>2, <2>3
<1> QED BY <1>3, <1>4, <1>5

LEMMA TestRecordFacts ==
    ASSUME TypeOK, OwnKeys, NEW t \in Tests, TestRecord(t)
    PROVE  /\ Stops(t) /\ work[t].at = "send"
           /\ RowsKept(work[t].item) /\ SubsKept
           /\ UNCHANGED <<accounts, join, nextSub, now, told>>
<1>1. t \in Workers /\ FailureLimit \in Nat \ {0}
  BY PushAssumption DEF Workers
<1>2. work[t].at = "send" /\ work[t].item \in Item
  BY <1>1 DEF TestRecord, OwnKeys, InFlight
<1>3. Stops(t) /\ UNCHANGED <<accounts, join, nextSub, now, told>>
  BY <1>1, Stopped DEF TestRecord, people
<1>4. \/ rows' = Finish(rows, work[t].item, "sent") /\ subs' = SetFails(work[t].item.sub, 0)
      \/ /\ rows' = Finish(Unlink({work[t].item.sub}), work[t].item, "failed")
         /\ subs' \subseteq subs
      \/ rows' = Finish(rows, work[t].item, "failed") /\ subs' = subs
  BY DEF TestRecord
<1>5. RowsKept(work[t].item)
  BY <1>2, <1>4, FinishKeeps
<1>6. SubsKept
  BY <1>1, <1>4, FewerSubs, FailsKeeps
<1> QED BY <1>2, <1>3, <1>5, <1>6

-----------------------------------------------------------------------------
(* What each action keeps                                                  *)

LEMMA TypedStep ==
    ASSUME TypeOK, work' \in [Workers -> Worker], rows' \subseteq Delivery, UniqueRows(rows'),
           subs' \subseteq Subscription, UniqueSubs(subs'), nextSub' \in 1 .. MaxSub + 1,
           now' \in 0 .. MaxTime, accounts' \subseteq Users, join' \in [Joins -> Joining],
           told' \subseteq Item
    PROVE  TypeOK'
BY DEF TypeOK, UniqueRows, UniqueSubs

LEMMA QuietStep ==
    ASSUME IInv, work' \in [Workers -> Worker], \A w \in Workers : Calm(w) /\ Steady(w),
           rows' \subseteq Delivery, UniqueRows(rows'), RowsFrom(rows', rows), SubsKept,
           \A i \in Item : i.sub \in SubIds' /\ now <= Window + RunSpan /\ SentIn(rows, i)
                => SentIn(rows', i),
           \A w \in Workers : work'[w].at = "send" /\ work[w].item.sub \in SubIds'
                /\ PendingIn(rows, work[w].item) => PendingIn(rows', work[w].item),
           told' \subseteq Item,
           \A i \in told' \ told : \E r \in Runs :
                /\ InFlight(r) /\ work[r].item = i
                /\ PendingIn(rows, i) => SentIn(rows', i),
           nextSub' = nextSub, now' = now, accounts' \subseteq accounts,
           join' \in [Joins -> Joining]
    PROVE  IInv'
<1>1. TypeOK'
  BY TypedStep DEF IInv, TypeOK, SubsKept
<1>2. FreshIds' /\ Owners' /\ OwnKeys' /\ SingleFlight'
  BY CalmKeeps DEF SubsKept
<1>3. Logged'
  <2>1. \A i : PendingIn(rows', i) => PendingIn(rows, i)'
    BY DEF PendingIn
  <2> QED BY <2>1, CalmLogged DEF SubsKept, Calm
<1>4. InTime'
  BY SteadyInTime
<1>5. told \subseteq Item
  BY DEF IInv, TypeOK
<1>6. Settled'
  BY <1>5, CalmSettled DEF SubsKept
<1> QED BY <1>1, <1>2, <1>3, <1>4, <1>6 DEF IInv

LEMMA KeptCalm ==
    ASSUME InTime, NEW w \in Workers, Keeps(w), work[w].at \in {"claim", "send"},
           work'[w].at \in {"claim", "final"}
    PROVE  \A v \in Workers : Calm(v) /\ Steady(v)
BY DEF Keeps, Others, Calm, Steady, Active, InTime

LEMMA StoppedCalm ==
    ASSUME InTime, NEW w \in Workers, Stops(w)
    PROVE  \A v \in Workers : Calm(v) /\ Steady(v)
BY DEF Stops, Others, Calm, Steady, Active, InTime

LEMMA SameCalm ==
    ASSUME InTime, work' = work
    PROVE  \A v \in Workers : Calm(v) /\ Steady(v)
BY DEF Calm, Steady, Active, InTime

\* The rows as RowsKept leaves them, in a step in which the sends that go on
\* are not the one it records.
LEMMA KeptStep ==
    ASSUME IInv, work' \in [Workers -> Worker], \A w \in Workers : Calm(w) /\ Steady(w),
           NEW item, RowsKept(item), SubsKept,
           \A w \in Workers : work'[w].at = "send" => work[w].item # item,
           told' \subseteq Item,
           \A i \in told' \ told : \E r \in Runs :
                /\ InFlight(r) /\ work[r].item = i
                /\ PendingIn(rows, i) => SentIn(rows', i),
           nextSub' = nextSub, now' = now, accounts' \subseteq accounts,
           join' \in [Joins -> Joining]
    PROVE  IInv'
<1>1. \A w \in Workers : work'[w].at = "send" => work[w].item \in Item
  BY DEF IInv, OwnKeys, Calm, InFlight
<1>2. \A w \in Workers : work'[w].at = "send" /\ PendingIn(rows, work[w].item)
           => PendingIn(rows', work[w].item)
  BY <1>1 DEF RowsKept
<1> QED BY <1>2, QuietStep DEF RowsKept

LEMMA RecordStep ==
    ASSUME IInv, NEW r \in Runs, Records(r)
    PROVE  IInv'
<1>1. TypeOK /\ OwnKeys /\ InTime /\ r \in Workers
  BY DEF IInv, Workers
<1>2. /\ Keeps(r) /\ work[r].at = "send" /\ work'[r].at = "claim"
      /\ RowsKept(work[r].item) /\ SubsKept
      /\ UNCHANGED <<accounts, join, nextSub, now>>
      /\ \/ told' = told
         \/ /\ told' = told \cup {work[r].item}
            /\ PendingIn(rows, work[r].item) => SentIn(rows', work[r].item)
  BY <1>1, RecordFacts
<1>3. \A v \in Workers : Calm(v) /\ Steady(v)
  BY <1>1, <1>2, KeptCalm
<1>4. work[r].item \in Item
  BY <1>1, <1>2 DEF OwnKeys, InFlight
<1>5. \A w \in Workers : work'[w].at = "send" => work[w].item # work[r].item
  BY <1>1, <1>2, <1>3 DEF IInv, SingleFlight, InFlight, Calm
<1>6. told' \subseteq Item /\ join' \in [Joins -> Joining] /\ work' \in [Workers -> Worker]
  BY <1>1, <1>2, <1>4 DEF TypeOK, Keeps
<1>7. \A i \in told' \ told : \E v \in Runs :
                /\ InFlight(v) /\ work[v].item = i
                /\ PendingIn(rows, i) => SentIn(rows', i)
  BY <1>2 DEF InFlight
<1> QED BY <1>2, <1>3, <1>5, <1>6, <1>7, KeptStep

LEMMA TestRecordStep ==
    ASSUME IInv, NEW t \in Tests, TestRecord(t)
    PROVE  IInv'
<1>1. TypeOK /\ OwnKeys /\ InTime /\ t \in Workers
  BY DEF IInv, Workers
<1>2. /\ Stops(t) /\ work[t].at = "send"
      /\ RowsKept(work[t].item) /\ SubsKept
      /\ UNCHANGED <<accounts, join, nextSub, now, told>>
  BY <1>1, TestRecordFacts
<1>3. \A v \in Workers : Calm(v) /\ Steady(v)
  BY <1>1, <1>2, StoppedCalm
<1>5. \A w \in Workers : work'[w].at = "send" => work[w].item # work[t].item
  BY <1>1, <1>2, <1>3 DEF IInv, SingleFlight, InFlight, Calm, Stops
<1>6. told' \subseteq Item /\ join' \in [Joins -> Joining] /\ work' \in [Workers -> Worker]
  BY <1>1, <1>2 DEF TypeOK, Stops
<1> QED BY <1>2, <1>3, <1>5, <1>6, KeptStep

\* Steps that leave the log alone.
LEMMA UnloggedStep ==
    ASSUME IInv, work' \in [Workers -> Worker], \A w \in Workers : Calm(w) /\ Steady(w),
           UNCHANGED <<accounts, rows, subs, nextSub, now, told>>, join' \in [Joins -> Joining]
    PROVE  IInv'
<1>1. RowsKept(NoItem) /\ SubsKept
  BY SameRows, FewerSubs DEF IInv
<1>2. NoItem \notin Item
  BY PushAssumption DEF NoItem, Item
<1>3. \A w \in Workers : work'[w].at = "send" => work[w].item # NoItem
  BY <1>2 DEF IInv, OwnKeys, InFlight, Calm
<1>4. told' \subseteq Item
  BY DEF IInv, TypeOK
<1> QED BY <1>1, <1>3, <1>4, KeptStep

LEMMA PurgeStep ==
    ASSUME IInv, NEW r \in Runs, Purge(r)
    PROVE  IInv'
<1>1. TypeOK /\ InTime /\ r \in Workers
  BY DEF IInv, Workers
<1>2. /\ Keeps(r) /\ work[r].at = "claim" /\ work'[r].at = "final"
      /\ rows' = {d \in rows : d.at >= work[r].began - Retention}
      /\ UNCHANGED <<accounts, join, subs, nextSub, now, told>>
  BY <1>1, PurgeFacts
<1>3. \A v \in Workers : Calm(v) /\ Steady(v)
  BY <1>1, <1>2, KeptCalm
<1>4. work[r].began \in Nat /\ work[r].began <= now /\ now \in Nat
  BY <1>1, <1>2, PushAssumption DEF InTime, Active, TypeOK, Worker
<1>5. now <= Window + RunSpan => rows' = rows
  BY <1>1, <1>2, <1>4, PushAssumption DEF TypeOK, Delivery
<1>6. \A i : PendingIn(rows, i) => PendingIn(rows', i)
  BY <1>2, <1>4, PushAssumption DEF PendingIn
<1>7. rows' \subseteq Delivery /\ UniqueRows(rows') /\ RowsFrom(rows', rows)
  BY <1>1, <1>2 DEF TypeOK, UniqueRows, RowsFrom
<1>8. SubsKept
  BY <1>1, <1>2, FewerSubs
<1>9. work' \in [Workers -> Worker] /\ told' \subseteq Item /\ join' \in [Joins -> Joining]
  BY <1>1, <1>2 DEF Keeps, TypeOK
<1> QED BY <1>2, <1>3, <1>5, <1>6, <1>7, <1>8, <1>9, QuietStep

\* A worker reads what it has to send, and nothing else happens.
LEMMA ReadStep ==
    ASSUME IInv, NEW w \in Workers, work' \in [Workers -> Worker], Others(w),
           work'[w].at = "claim",
           work'[w].began = now \/ (Active(w) /\ work'[w].began = work[w].began),
           w \in Runs /\ (work'[w].todo # {} \/ work'[w].pairs # {})
                => work'[w].began <= Window,
           \A i \in work'[w].pairs : /\ i.note \in KeysOf(w)
                /\ \E s \in subs : s.id = i.sub /\ s.user = work'[w].user,
           UNCHANGED <<accounts, join, subs, rows, nextSub, now, told>>
    PROVE  IInv'
<1> USE DEF IInv
<1>0. RunSpan \in Nat /\ now \in Nat
  BY PushAssumption DEF TypeOK
<1>1. TypeOK'
  BY TypedStep, Uniques DEF TypeOK
<1>2. FreshIds'
  BY DEF FreshIds, Others, InFlight
<1>3. Owners'
  <2>1. ASSUME NEW v \in Workers, NEW i \in work'[v].pairs, NEW s \in subs, i.sub = s.id
        PROVE  work'[v].user = s.user
    BY <2>1, Uniques DEF Owners, Others, UniqueSubs
  <2> QED BY <2>1 DEF Owners
<1>4. OwnKeys'
  BY DEF OwnKeys, Others, InFlight, KeysOf
<1>5. Logged'
  <2>1. \A i : PendingIn(rows, i)' <=> PendingIn(rows, i)
    BY DEF PendingIn
  <2> QED BY <2>1 DEF Logged, Others, InFlight, SubIds
<1>6. SingleFlight'
  BY DEF SingleFlight, Others, InFlight
<1>7. InTime'
  BY <1>0 DEF InTime, Others, Active, Workers
<1>8. Settled'
  BY DEF Settled, SubIds, SentIn
<1> QED BY <1>1, <1>2, <1>3, <1>4, <1>5, <1>6, <1>7, <1>8

LEMMA GatherStep ==
    ASSUME IInv, NEW r \in Runs, Gather(r)
    PROVE  IInv'
<1>1. /\ r \in Workers /\ work' \in [Workers -> Worker] /\ Others(r) /\ work[r].at = "new"
      /\ work'[r].at = "claim" /\ work'[r].began = now
      /\ work'[r].pairs = work[r].pairs /\ (work'[r].todo # {} => now <= Window)
  BY GatherFacts DEF IInv, Workers
<1>2. work[r].pairs = {}
  BY <1>1 DEF IInv, InTime, Active
<1>3. UNCHANGED <<accounts, join, subs, rows, nextSub, now, told>>
  BY DEF Gather, people
<1> QED BY <1>1, <1>2, <1>3, ReadStep

LEMMA NextUserStep ==
    ASSUME IInv, NEW r \in Runs, NextUser(r)
    PROVE  IInv'
<1>1. /\ r \in Workers /\ work' \in [Workers -> Worker] /\ Others(r)
      /\ work[r].at = "claim" /\ work[r].todo # {}
      /\ work'[r].at = "claim" /\ work'[r].began = work[r].began
      /\ \A i \in work'[r].pairs : /\ i.note \in Notes
           /\ \E s \in subs : s.id = i.sub /\ s.user = work'[r].user
  BY NextUserFacts DEF IInv, Workers
<1>2. Active(r) /\ work[r].began <= Window
  BY <1>1 DEF IInv, InTime, Active
<1>3. UNCHANGED <<accounts, join, subs, rows, nextSub, now, told>>
  BY DEF NextUser, people
<1> QED BY <1>1, <1>2, <1>3, ReadStep DEF KeysOf

LEMMA TestReadStep ==
    ASSUME IInv, NEW t \in Tests, TestRead(t)
    PROVE  IInv'
<1>1. t \in Workers /\ t \notin Runs
  BY PushAssumption DEF Workers
<1>2. /\ work' \in [Workers -> Worker] /\ Others(t)
      /\ work'[t].at = "claim" /\ work'[t].began = now
      /\ \A i \in work'[t].pairs : /\ i.note \in TestNotes
                /\ \E s \in subs : s.id = i.sub /\ s.user = work'[t].user
      /\ UNCHANGED <<accounts, join, subs, rows, nextSub, now, told>>
  BY TestReadFacts DEF IInv
<1> QED BY <1>1, <1>2, ReadStep DEF KeysOf

-----------------------------------------------------------------------------
\* A worker claims a pair: its row is written and the push leaves.
Sends(w) ==
    /\ Keeps(w) /\ work[w].at = "claim" /\ work'[w].at = "send"
    /\ work'[w].item \in work[w].pairs /\ work'[w].item.sub \in SubIds
    /\ \A d \in RowOf(work'[w].item) : Claimable(d)
    /\ rows' = Reclaim(work'[w].item, work[w].user, w)
    /\ UNCHANGED <<accounts, join, subs, nextSub, now, told>>

\* Nobody claims a pair another worker is sending, nor one whose receipt is
\* recorded while runs may still select it.
LEMMA Unclaimed ==
    ASSUME IInv, NEW w \in Workers, Sends(w)
    PROVE  /\ work'[w].item \in Item /\ work'[w].item.note \in KeysOf(w)
           /\ \A v \in Workers : InFlight(v) => work[v].item # work'[w].item
           /\ work'[w].item \notin told
           /\ \E s \in subs : s.id = work'[w].item.sub /\ s.user = work[w].user
<1> DEFINE item == work'[w].item
<1>1. work[w].pairs \subseteq Item /\ now \in Nat /\ StalePending \in Nat
  BY PushAssumption DEF IInv, TypeOK, Worker
<1>2. item \in Item /\ item.note \in KeysOf(w) /\ item \in work[w].pairs
  BY <1>1 DEF Sends, IInv, OwnKeys
<1>3. ASSUME NEW v \in Workers, InFlight(v), work[v].item = item PROVE FALSE
  <2>1. PICK d \in rows : d \in RowOf(item) /\ d.status = "pending" /\ d.at = now
    BY <1>3 DEF IInv, Logged, PendingIn, RowOf, Sends
  <2>2. ~Claimable(d)
    BY <1>1, <2>1 DEF Claimable
  <2> QED BY <2>1, <2>2 DEF Sends
<1>4. ASSUME item \in told PROVE FALSE
  <2>1. w \in Runs
    BY <1>2, <1>4, PushAssumption DEF IInv, OwnKeys, KeysOf
  <2>2. now <= Window + RunSpan
    <3>1. work[w].began <= Window /\ now <= work[w].began + RunSpan /\ work[w].began \in Nat
      BY <1>2, <2>1 DEF IInv, InTime, Active, Sends, TypeOK, Worker
    <3> QED BY <1>1, <3>1, PushAssumption
  <2>3. SentIn(rows, item)
    BY <1>1, <1>4, <2>2, PushAssumption DEF IInv, Settled, Sends
  <2>4. PICK d \in RowOf(item) : d.status = "sent"
    BY <2>3 DEF SentIn, RowOf
  <2> QED BY <2>4 DEF Sends, Claimable
<1>5. \E s \in subs : s.id = item.sub /\ s.user = work[w].user
  BY <1>2 DEF Sends, SubIds, IInv, Owners
<1> QED BY <1>2, <1>3, <1>4, <1>5

LEMMA SendStep ==
    ASSUME IInv, NEW w \in Workers, Sends(w)
    PROVE  IInv'
<1> DEFINE item == work'[w].item
           new == NewDelivery(item, work[w].user, w)
<1>1. /\ item \in Item /\ item.note \in KeysOf(w) /\ item \in work[w].pairs
      /\ \A v \in Workers : InFlight(v) => work[v].item # item
      /\ item \notin told
  BY Unclaimed DEF Sends
<1>2. PICK s \in subs : s.id = item.sub /\ s.user = work[w].user
  BY Unclaimed
<1>3. \A i \in Item : i.note = item.note /\ i.sub = item.sub => i = item
  BY <1>1 DEF Item
<1>4. /\ new \in Delivery /\ new.note = item.note /\ new.sub = item.sub /\ new.at = now
      /\ new.user = work[w].user /\ new.status = "pending"
  <2>1. work[w].user \in Users /\ now \in Nat
    BY <1>2, PushAssumption DEF IInv, TypeOK, Subscription
  <2> QED BY <1>1, <2>1 DEF NewDelivery, Delivery, Item
<1>5. rows' = (rows \ RowOf(item)) \cup {new}
  BY DEF Sends, Reclaim
<1> HIDE DEF new
<1>6. rows' \subseteq Delivery /\ UniqueRows(rows')
  BY <1>4, <1>5, Uniques DEF IInv, UniqueRows, RowOf
<1>7. TypeOK'
  BY <1>6, TypedStep, Uniques DEF IInv, TypeOK, Sends, Keeps
<1>8. UNCHANGED <<accounts, join, subs, nextSub, now, told>> /\ Keeps(w)
      /\ work'[w].at = "send" /\ work[w].at = "claim"
  BY DEF Sends
<1>9. FreshIds'
  BY <1>1, <1>4, <1>5, <1>8 DEF IInv, FreshIds, Keeps, Others, InFlight
<1>10. Owners'
  <2>1. ASSUME NEW d \in rows', NEW t \in subs, d.sub = t.id PROVE d.user = t.user
    BY <1>2, <1>4, <1>5, <2>1, Uniques DEF IInv, Owners, UniqueSubs
  <2>2. ASSUME NEW v \in Workers, NEW i \in work'[v].pairs, NEW t \in subs, i.sub = t.id
        PROVE  work'[v].user = t.user
    BY <1>8, <2>2 DEF IInv, Owners, Keeps, Others
  <2> QED BY <1>8, <2>1, <2>2 DEF Owners
<1>11. OwnKeys'
  BY <1>1, <1>8 DEF IInv, OwnKeys, Keeps, Others, InFlight, KeysOf
<1>12. Logged'
  <2> SUFFICES ASSUME NEW v \in Workers, InFlight(v)', work'[v].item.sub \in SubIds
               PROVE  PendingIn(rows', work'[v].item)
    BY <1>8 DEF Logged, SubIds, PendingIn
  <2>1. CASE v = w
    BY <1>4, <1>5, <2>1 DEF PendingIn
  <2>2. CASE v # w
    <3>1. InFlight(v) /\ work'[v] = work[v]
      BY <1>8, <2>2 DEF Keeps, Others, InFlight
    <3>2. PICK d \in rows : /\ d.note = work[v].item.note /\ d.sub = work[v].item.sub
                            /\ d.status = "pending" /\ d.at = now
      BY <3>1 DEF IInv, Logged, PendingIn
    <3>3. d \notin RowOf(item)
      BY <1>1, <1>3, <3>1, <3>2 DEF RowOf, IInv, OwnKeys
    <3> QED BY <1>5, <3>1, <3>2, <3>3 DEF PendingIn
  <2> QED BY <2>1, <2>2
<1>13. SingleFlight'
  BY <1>1, <1>8 DEF IInv, SingleFlight, Keeps, Others, InFlight
<1>14. InTime'
  BY <1>1, <1>8 DEF IInv, InTime, Keeps, Others, Active, Workers
<1>15. Settled'
  <2> SUFFICES ASSUME NEW i \in told, SentIn(rows, i) PROVE SentIn(rows', i)
    BY <1>8 DEF IInv, Settled, SubIds
  <2>1. PICK d \in rows : d.note = i.note /\ d.sub = i.sub /\ d.status = "sent"
    BY DEF SentIn
  <2>2. d \notin RowOf(item)
    BY <1>1, <1>3, <2>1 DEF RowOf, IInv, TypeOK
  <2> QED BY <1>5, <2>1, <2>2 DEF SentIn
<1> QED BY <1>7, <1>9, <1>10, <1>11, <1>12, <1>13, <1>14, <1>15 DEF IInv

LEMMA ClaimStep ==
    ASSUME IInv, NEW r \in Runs, Claim(r)
    PROVE  IInv' /\ (work'[r].at = "send" => Sends(r))
<1>1. /\ r \in Workers /\ Keeps(r) /\ work[r].at = "claim"
      /\ \/ work'[r].at = "claim" /\ rows' = rows
         \/ /\ work'[r].at = "send" /\ work'[r].item \in work[r].pairs
            /\ work'[r].item.sub \in SubIds
            /\ \A d \in RowOf(work'[r].item) : Claimable(d)
            /\ rows' = Reclaim(work'[r].item, work[r].user, r)
  BY ClaimFacts DEF IInv, Workers
<1>2. UNCHANGED <<accounts, join, subs, nextSub, now, told>>
  BY DEF Claim, people
<1>3. CASE work'[r].at = "claim" /\ rows' = rows
  BY <1>1, <1>2, <1>3, KeptCalm, UnloggedStep DEF IInv, Keeps, TypeOK
<1>4. CASE work'[r].at = "send"
  BY <1>1, <1>2, <1>4, SendStep DEF Sends
<1> QED BY <1>1, <1>3, <1>4

LEMMA TestClaimStep ==
    ASSUME IInv, NEW t \in Tests, TestClaim(t)
    PROVE  IInv' /\ (work'[t].at = "send" => Sends(t))
<1>1. /\ t \in Workers /\ UNCHANGED <<accounts, join, subs, nextSub, now, told>>
      /\ work[t].at = "claim"
      /\ \/ Stops(t) /\ rows' = rows
         \/ /\ Keeps(t) /\ work'[t].at = "send" /\ work'[t].item \in work[t].pairs
            /\ work'[t].item.sub \in SubIds
            /\ RowOf(work'[t].item) = {}
            /\ rows' = rows \cup {NewDelivery(work'[t].item, work[t].user, t)}
  BY TestClaimFacts DEF IInv, Workers
<1>3. CASE Stops(t) /\ rows' = rows
  <2>1. work' \in [Workers -> Worker] /\ work'[t].at # "send" /\ join' \in [Joins -> Joining]
    BY <1>1, <1>3 DEF Stops, IInv, TypeOK
  <2> QED BY <1>1, <1>3, <2>1, StoppedCalm, UnloggedStep DEF IInv
<1>4. CASE /\ Keeps(t) /\ work'[t].at = "send" /\ work'[t].item \in work[t].pairs
           /\ work'[t].item.sub \in SubIds
           /\ RowOf(work'[t].item) = {}
           /\ rows' = rows \cup {NewDelivery(work'[t].item, work[t].user, t)}
  <2>1. rows' = Reclaim(work'[t].item, work[t].user, t)
    BY <1>4 DEF Reclaim
  <2>2. Sends(t)
    BY <1>1, <1>4, <2>1 DEF Sends
  <2> QED BY <1>1, <2>2, SendStep
<1> QED BY <1>1, <1>3, <1>4

LEMMA EndStep ==
    ASSUME IInv, NEW w \in Workers, Crash(w) \/ (w \in Runs /\ Finalize(w))
    PROVE  IInv' /\ work'[w].at # "send"
<1>1. Stops(w) /\ UNCHANGED <<accounts, join, subs, rows, nextSub, now, told>>
  BY CrashFacts, FinalizeFacts DEF IInv
<1>2. work' \in [Workers -> Worker] /\ work'[w].at # "send" /\ join' \in [Joins -> Joining]
  BY <1>1 DEF Stops, IInv, TypeOK
<1> QED BY <1>1, <1>2, StoppedCalm, UnloggedStep DEF IInv

-----------------------------------------------------------------------------
\* Steps of the users that push through what they delete.
LEMMA LeaveStep ==
    ASSUME IInv, UNCHANGED <<work, nextSub, now, told>>,
           join' \in [Joins -> Joining], accounts' \subseteq accounts,
           SubsKept, \E ids : rows' = Unlink(ids)
    PROVE  IInv'
<1>1. RowsKept(NoItem)
  BY UnlinkKeeps DEF IInv
<1>2. NoItem \notin Item
  BY PushAssumption DEF NoItem, Item
<1>3. \A w \in Workers : work'[w].at = "send" => work[w].item # NoItem
  BY <1>2 DEF IInv, OwnKeys, InFlight
<1>4. told' \subseteq Item /\ work' \in [Workers -> Worker]
  BY DEF IInv, TypeOK
<1>5. \A v \in Workers : Calm(v) /\ Steady(v)
  BY SameCalm DEF IInv
<1> QED BY <1>1, <1>3, <1>4, <1>5, KeptStep

LEMMA DeleteStep ==
    ASSUME IInv, NEW u \in Users, DeleteAccount(u)
    PROVE  IInv'
<1>1. /\ accounts' \subseteq accounts /\ subs' = subs \ OfUser(u)
      /\ rows' = {d \in rows : d.user # u} /\ UNCHANGED <<nextSub, now, work, join, told>>
  BY DEF DeleteAccount
<1>2. rows' \subseteq Delivery /\ UniqueRows(rows') /\ RowsFrom(rows', rows)
  BY <1>1, Uniques DEF IInv, UniqueRows, RowsFrom
<1>3. SubsKept
  BY <1>1, FewerSubs DEF IInv
<1>4. ASSUME NEW d \in rows, d.sub \in SubIds' PROVE d \in rows'
  <2>1. PICK s \in subs : s.id = d.sub /\ s.user # u
    BY <1>1, <1>4 DEF SubIds, OfUser
  <2> QED BY <1>1, <2>1 DEF IInv, Owners
<1>5. \A i : i.sub \in SubIds' /\ SentIn(rows, i) => SentIn(rows', i)
  BY <1>4 DEF SentIn
<1>6. \A i : i.sub \in SubIds' /\ PendingIn(rows, i) => PendingIn(rows', i)
  BY <1>4 DEF PendingIn
<1>7. told' \subseteq Item /\ work' \in [Workers -> Worker] /\ join' \in [Joins -> Joining]
  BY <1>1 DEF IInv, TypeOK
<1>8. \A v \in Workers : Calm(v) /\ Steady(v)
  BY <1>1, SameCalm DEF IInv
<1> QED BY <1>1, <1>2, <1>3, <1>5, <1>6, <1>7, <1>8, QuietStep

LEMMA SubscribeStep ==
    ASSUME IInv, NEW h \in Joins, Subscribe(h) \/ SubscribeAbort(h)
    PROVE  IInv'
<1>1. UNCHANGED <<accounts, subs, rows, nextSub, now, work, told>>
  BY DEF Subscribe, SubscribeAbort
<1>2. join' \in [Joins -> Joining]
  <2>1. CASE Subscribe(h)
    <3>1. PICK u \in accounts, e \in Endpoints :
            join' = [join EXCEPT ![h] =
                    [user |-> u, endpoint |-> e,
                     doomed |-> {s.id : s \in {x \in subs : x.endpoint = e /\ x.user # u}}]]
      BY <2>1 DEF Subscribe
    <3>2. {s.id : s \in {x \in subs : x.endpoint = e /\ x.user # u}} \subseteq 1 .. MaxSub
      BY DEF IInv, TypeOK, Subscription
    <3> QED BY <3>1, <3>2 DEF IInv, TypeOK, Joining
  <2>2. CASE SubscribeAbort(h)
    BY <2>2 DEF SubscribeAbort, IInv, TypeOK, Joining, Idle
  <2> QED BY <2>1, <2>2
<1>3. work' \in [Workers -> Worker] /\ \A v \in Workers : Calm(v) /\ Steady(v)
  BY <1>1, SameCalm DEF IInv, TypeOK
<1> QED BY <1>1, <1>2, <1>3, UnloggedStep

\* A row is inserted under a fresh id, which nothing names yet.
LEMMA InsertStep ==
    ASSUME IInv, UNCHANGED <<accounts, now, work, told>>, join' \in [Joins -> Joining],
           NEW ids, rows' = Unlink(ids), NEW kept \in SUBSET subs,
           NEW u \in accounts, NEW e \in Endpoints, \A s \in kept : s.endpoint # e,
           nextSub <= MaxSub, nextSub' = nextSub + 1,
           subs' = kept \cup {[id |-> nextSub, user |-> u, endpoint |-> e, fails |-> 0]}
    PROVE  IInv'
<1> DEFINE new == [id |-> nextSub, user |-> u, endpoint |-> e, fails |-> 0]
<1>0. TypeOK /\ FreshIds /\ Owners /\ OwnKeys /\ Logged /\ SingleFlight /\ InTime /\ Settled
  BY DEF IInv
<1>1. /\ nextSub \in 1 .. MaxSub /\ nextSub' \in 1 .. MaxSub + 1 /\ nextSub < nextSub'
  BY <1>0, PushAssumption DEF TypeOK
<1>2. new \in Subscription /\ new.id = nextSub /\ new.endpoint = e
  BY <1>0, <1>1, PushAssumption DEF Subscription, TypeOK
<1> HIDE DEF new
<1>3. subs' = kept \cup {new}
  BY DEF new
<1>4. RowsKept(NoItem) /\ \A i : /\ SentIn(rows, i) => SentIn(rows', i)
                                 /\ PendingIn(rows, i) => PendingIn(rows', i)
  BY <1>0, UnlinkKeeps, UnlinkRows, Uniques
<1>5. subs' \subseteq Subscription /\ UniqueSubs(subs')
  BY <1>0, <1>2, <1>3, Uniques, PushAssumption DEF UniqueSubs, FreshIds, TypeOK, Subscription
<1>6. TypeOK'
  BY <1>0, <1>1, <1>4, <1>5, TypedStep DEF RowsKept, TypeOK
<1>7. \A n : n < nextSub => (n \in SubIds' => n \in SubIds)
  BY <1>1, <1>2, <1>3 DEF SubIds
<1>8. FreshIds'
  <2>1. \A s \in subs' : s.id < nextSub'
    BY <1>0, <1>1, <1>2, <1>3 DEF FreshIds, TypeOK, Subscription
  <2>2. \A d \in rows' : d.sub < nextSub'
    BY <1>0, <1>1, <1>4, Uniques DEF FreshIds, RowsKept, RowsFrom, Delivery
  <2>3. \A i \in told : i.sub < nextSub'
    BY <1>0, <1>1 DEF FreshIds, TypeOK, Item
  <2>4. \A w \in Workers : \A i \in work[w].pairs : i.sub < nextSub'
    BY <1>0, <1>1 DEF FreshIds, TypeOK, Worker, Item
  <2>5. \A w \in Workers : InFlight(w) => work[w].item.sub < nextSub'
    BY <1>0, <1>1 DEF FreshIds, OwnKeys, Item
  <2> QED BY <2>1, <2>2, <2>3, <2>4, <2>5 DEF FreshIds, InFlight
<1>9. Owners'
  <2>1. ASSUME NEW d \in rows', NEW s \in subs', d.sub = s.id PROVE d.user = s.user
    <3>1. PICK c \in rows : d.sub = c.sub /\ d.user = c.user
      BY <1>4 DEF RowsKept, RowsFrom
    <3>2. s \in subs
      <4>1. c.sub < nextSub
        BY <1>0 DEF FreshIds
      <4>2. s.id # nextSub
        BY <1>1, <2>1, <3>1, <4>1
      <4>3. s # new
        BY <1>2, <4>2
      <4> QED BY <1>3, <4>3
    <3> QED BY <1>0, <2>1, <3>1, <3>2 DEF Owners
  <2>2. ASSUME NEW w \in Workers, NEW i \in work[w].pairs, NEW s \in subs', i.sub = s.id
        PROVE  work[w].user = s.user
    <3>1. s \in subs
      BY <1>0, <1>1, <1>2, <1>3, <2>2 DEF FreshIds
    <3> QED BY <1>0, <2>2, <3>1 DEF Owners
  <2> QED BY <2>1, <2>2 DEF Owners
<1>10. OwnKeys' /\ SingleFlight'
  BY <1>0 DEF OwnKeys, SingleFlight, InFlight
<1>11. Logged'
  <2> SUFFICES ASSUME NEW w \in Workers, InFlight(w), work[w].item.sub \in SubIds'
               PROVE  PendingIn(rows', work[w].item)
    BY DEF Logged, InFlight, PendingIn
  <2>1. work[w].item.sub \in SubIds
    BY <1>0, <1>7 DEF FreshIds
  <2> QED BY <1>0, <1>4, <2>1 DEF Logged
<1>12. InTime'
  BY <1>0 DEF InTime, Active
<1>13. Settled'
  <2> SUFFICES ASSUME NEW i \in told, i.sub \in SubIds', ~(now > Window + RunSpan)
               PROVE  SentIn(rows', i)
    BY DEF Settled
  <2>1. i.sub \in SubIds
    BY <1>0, <1>7 DEF FreshIds
  <2> QED BY <1>0, <1>4, <2>1 DEF Settled
<1> QED BY <1>6, <1>8, <1>9, <1>10, <1>11, <1>12, <1>13 DEF IInv

LEMMA WriteStep ==
    ASSUME IInv, NEW h \in Joins, SubscribeWrite(h)
    PROVE  IInv'
<1> DEFINE u == join[h].user
           e == join[h].endpoint
           kept == {s \in subs : s.id \notin join[h].doomed}
           held == {s \in kept : s.endpoint = e}
<1>1. /\ UNCHANGED <<accounts, now, work, told>> /\ rows' = Unlink(join[h].doomed)
      /\ join[h] # Idle /\ join' = [join EXCEPT ![h] = Idle]
  BY DEF SubscribeWrite
<1>2. join' \in [Joins -> Joining] /\ join[h] \in Joining
  BY <1>1 DEF IInv, TypeOK, Joining, Idle
<1>3. \/ /\ subs' = (kept \ held) \cup {[s EXCEPT !.fails = 0] : s \in held}
         /\ nextSub' = nextSub
      \/ /\ held = {} /\ u \in accounts /\ nextSub <= MaxSub
         /\ subs' = kept \cup {[id |-> nextSub, user |-> u, endpoint |-> e, fails |-> 0]}
         /\ nextSub' = nextSub + 1
  BY DEF SubscribeWrite
<1>4. kept \in SUBSET subs /\ held \in SUBSET kept
  OBVIOUS
<1>5. CASE /\ subs' = (kept \ held) \cup {[s EXCEPT !.fails = 0] : s \in held}
           /\ nextSub' = nextSub
  <2>1. SubsKept
    BY <1>4, <1>5, RefreshedSubs, Uniques, PushAssumption DEF IInv, SubsKept
  <2> QED BY <1>1, <1>2, <1>5, <2>1, LeaveStep
<1>6. CASE /\ held = {} /\ u \in accounts /\ nextSub <= MaxSub
           /\ subs' = kept \cup {[id |-> nextSub, user |-> u, endpoint |-> e, fails |-> 0]}
           /\ nextSub' = nextSub + 1
  <2>1. e \in Endpoints
    BY <1>1, <1>2 DEF Joining
  <2>2. \A s \in kept : s.endpoint # e
    BY <1>6
  <2> QED BY <1>1, <1>2, <1>4, <1>6, <2>1, <2>2, InsertStep
<1> QED BY <1>3, <1>5, <1>6

LEMMA UnsubscribeStep ==
    ASSUME IInv, NEW u \in Users, Unsubscribe(u) \/ UnsubscribeAll(u)
    PROVE  IInv'
<1>1. /\ UNCHANGED <<accounts, join, nextSub, now, work, told>>
      /\ subs' \subseteq subs /\ \E ids : rows' = Unlink(ids)
  BY DEF Unsubscribe, UnsubscribeAll, people
<1>2. SubsKept
  BY <1>1, FewerSubs DEF IInv
<1> QED BY <1>1, <1>2, LeaveStep DEF IInv, TypeOK

LEMMA TickStep ==
    ASSUME IInv, Tick
    PROVE  IInv'
<1> USE DEF IInv
<1>1. /\ now' = now + 1 /\ now < MaxTime /\ UNCHANGED <<accounts, join, subs, rows, nextSub, work, told>>
      /\ \A w \in Workers : Active(w) => ~InFlight(w) /\ now - work[w].began < RunSpan
  BY DEF Tick, people, Active
<1>2. now \in 0 .. MaxTime /\ MaxTime \in Nat /\ now' \in 0 .. MaxTime /\ RunSpan \in Nat /\ Window \in Nat
  BY <1>1, PushAssumption DEF TypeOK
<1>3. TypeOK'
  BY <1>1, <1>2, TypedStep, Uniques DEF TypeOK
<1>4. FreshIds' /\ Owners' /\ OwnKeys' /\ SingleFlight'
  BY <1>1 DEF FreshIds, Owners, OwnKeys, SingleFlight, InFlight
<1>5. Logged'
  BY <1>1 DEF Logged, InFlight, Active
<1>6. InTime'
  BY <1>1, <1>2 DEF InTime, Active, TypeOK, Worker
<1>7. Settled'
  BY <1>1, <1>2 DEF Settled, SubIds, SentIn
<1> QED BY <1>3, <1>4, <1>5, <1>6, <1>7

-----------------------------------------------------------------------------
(* The theorems                                                            *)

LEMMA InitHolds == Init => IInv
<1> SUFFICES ASSUME Init PROVE IInv
  OBVIOUS
<1>1. Fresh \in Worker /\ Fresh.at = "new" /\ Fresh.pairs = {} /\ Fresh.todo = {}
  BY DEF Worker, Fresh, Phases, Verdicts, NoItem, Item
<1>2. \A w \in Workers : work[w] = Fresh
  BY DEF Init
<1>3. TypeOK
  BY <1>1, PushAssumption DEF Init, TypeOK, Joining
<1>4. FreshIds /\ Owners /\ OwnKeys /\ Logged /\ SingleFlight /\ Settled
  BY <1>1, <1>2 DEF Init, FreshIds, Owners, OwnKeys, Logged, SingleFlight, Settled, InFlight
<1>5. InTime
  BY <1>1, <1>2 DEF InTime, Active, Workers
<1> QED BY <1>3, <1>4, <1>5 DEF IInv

\* Every step keeps the invariant, and a send begins only as a claim does.
LEMMA NextKeeps ==
    ASSUME IInv, [Next]_vars
    PROVE  /\ IInv'
           /\ \A w \in Workers : work[w].at # "send" /\ work'[w].at = "send" => Sends(w)
<1> DEFINE Begins(w) == work[w].at # "send" /\ work'[w].at = "send" => Sends(w)
<1>0. IInv /\ TypeOK /\ OwnKeys
  BY DEF IInv
<1>1. ASSUME NEW r \in Runs, RunStep(r) PROVE IInv' /\ \A w \in Workers : Begins(w)
  <2>1. r \in Workers
    BY DEF Workers
  <2>2. CASE Gather(r)
    BY <1>0, <2>2, GatherStep, GatherFacts DEF Others
  <2>3. CASE NextUser(r)
    BY <1>0, <2>3, NextUserStep, NextUserFacts DEF Others
  <2>4. CASE Claim(r)
    BY <1>0, <2>4, ClaimStep, ClaimFacts DEF Others, Keeps
  <2>5. CASE Records(r)
    BY <1>0, <2>5, RecordStep, RecordFacts DEF Others, Keeps
  <2>6. CASE Purge(r)
    BY <1>0, <2>6, PurgeStep, PurgeFacts DEF Others, Keeps
  <2>7. CASE Finalize(r)
    BY <1>0, <2>1, <2>7, EndStep, FinalizeFacts DEF Others, Stops
  <2> QED BY <1>1, <2>2, <2>3, <2>4, <2>5, <2>6, <2>7 DEF RunStep, Records
<1>2. ASSUME NEW t \in Tests, TestStep(t) PROVE IInv' /\ \A w \in Workers : Begins(w)
  <2>2. CASE TestRead(t)
    BY <1>0, <2>2, TestReadStep, TestReadFacts DEF Others
  <2>3. CASE TestClaim(t)
    BY <1>0, <2>3, TestClaimStep, TestClaimFacts DEF Others, Keeps, Stops
  <2>4. CASE TestRecord(t)
    BY <1>0, <2>4, TestRecordStep, TestRecordFacts DEF Others, Stops
  <2> QED BY <1>2, <2>2, <2>3, <2>4 DEF TestStep
<1>3. ASSUME NEW w \in Workers, Crash(w) PROVE IInv' /\ \A v \in Workers : Begins(v)
  BY <1>0, <1>3, EndStep, CrashFacts DEF Others, Stops
<1>4. ASSUME NEW h \in Joins, Subscribe(h) \/ SubscribeWrite(h) \/ SubscribeAbort(h)
      PROVE  IInv' /\ \A w \in Workers : Begins(w)
  <2>1. work' = work
    BY <1>4 DEF Subscribe, SubscribeWrite, SubscribeAbort
  <2> QED BY <1>4, <2>1, SubscribeStep, WriteStep
<1>5. ASSUME NEW u \in Users, Unsubscribe(u) \/ UnsubscribeAll(u) \/ DeleteAccount(u)
      PROVE  IInv' /\ \A w \in Workers : Begins(w)
  <2>1. work' = work
    BY <1>5 DEF Unsubscribe, UnsubscribeAll, DeleteAccount
  <2> QED BY <1>5, <2>1, UnsubscribeStep, DeleteStep
<1>6. CASE Tick
  <2>1. work' = work
    BY <1>6 DEF Tick
  <2> QED BY <1>6, <2>1, TickStep
<1>7. CASE UNCHANGED vars
  <2>1. UNCHANGED <<accounts, rows, subs, nextSub, now, told, work, join>>
    BY <1>7 DEF vars
  <2>2. work' \in [Workers -> Worker] /\ join' \in [Joins -> Joining]
    BY <1>0, <2>1 DEF TypeOK
  <2> QED BY <2>1, <2>2, SameCalm, UnloggedStep DEF IInv
<1> QED BY <1>1, <1>2, <1>3, <1>4, <1>5, <1>6, <1>7 DEF Next

\* The inductive invariant holds of every behaviour of the two delivery tasks,
\* the test push and the users.
THEOREM Guarded == Spec => []IInv
<1>1. Init => IInv
  BY InitHolds
<1>2. IInv /\ [Next]_vars => IInv'
  BY NextKeeps
<1> QED BY <1>1, <1>2, PTL DEF Spec

\* The two tables keep their types and their unique keys, whatever overlaps.
THEOREM Typed == Spec => []TypeOK
<1>1. IInv => TypeOK
  BY DEF IInv
<1> QED BY <1>1, Guarded, PTL

\* For any number of overlapping runs and tests, two workers never send the
\* same note to the same device at the same time (claim_for_run).
THEOREM FliesAlone == Spec => []SingleFlight
<1>1. IInv => SingleFlight
  BY DEF IInv
<1> QED BY <1>1, Guarded, PTL

\* For any retention that outlives the window by the length of a run, no run
\* ever pushes again what has a receipt on record: not after a crash, a retry,
\* a purge or a change of hands.
THEOREM NeverAgain == Spec => RecordedOnce
<1> DEFINE A == \A r \in Runs : work[r].at # "send" /\ work'[r].at = "send" =>
                  work'[r].item \notin told
<1>1. IInv /\ [Next]_vars => A
  BY NextKeeps, Unclaimed DEF Workers
<1>2. IInv /\ [Next]_vars => [A]_vars
  BY <1>1
<1> QED BY <1>2, Guarded, PTL DEF Spec, RecordedOnce

\* A claim is only ever written for a device that its user holds then, however
\* long ago the run read the user's devices.
THEOREM StaysWithOwner == Spec => ClaimedForOwner
<1> DEFINE A == \A w \in Workers : work[w].at # "send" /\ work'[w].at = "send" =>
                  \E s \in subs : s.id = work'[w].item.sub /\ s.user = work[w].user
<1>1. IInv /\ [Next]_vars => A
  BY NextKeeps, Unclaimed
<1>2. IInv /\ [Next]_vars => [A]_vars
  BY <1>1
<1> QED BY <1>2, Guarded, PTL DEF Spec, ClaimedForOwner
=============================================================================
