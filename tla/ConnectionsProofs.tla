------------------------- MODULE ConnectionsProofs -------------------------
(***************************************************************************)
(* What Connections promises, for every set of accounts, any number of     *)
(* concurrent handlers and every setting of the throttle.                  *)
(*                                                                         *)
(* The invariant that carries the proofs is about staleness: SeenFits says *)
(* what a handler may still believe of the row it read, whatever has been  *)
(* committed since.  An id never names another pair, a row never becomes   *)
(* pending again, and never becomes blocked in place.  For the bound on    *)
(* outreach it is OutreachLedger: what an account has sent and what the    *)
(* handlers past the count may yet send are bounded together.              *)
(***************************************************************************)
EXTENDS Connections, FiniteSetTheorems, TLAPS

-----------------------------------------------------------------------------
(* Types                                                                   *)

LEMMA ReplyType ==
    ASSUME req \in [Procs -> Request], NEW p \in Procs, Reply(p)
    PROVE  req' \in [Procs -> Request]
BY DEF Reply, Idle, Request, Ops, Steps

LEMMA ProceedType ==
    ASSUME req \in [Procs -> Request], NEW p \in Procs, NEW step \in Steps,
           Proceed(p, step)
    PROVE  req' \in [Procs -> Request]
BY DEF Proceed, Request

LEMMA ReadType ==
    ASSUME TypeOK, NEW p \in Procs, NEW op \in Ops, NEW u \in Users,
           NEW v \in Users, NEW row \in Row \cup {NoRow}, Read(p, op, u, v, row)
    PROVE  TypeOK'
<1>1. req' \in [Procs -> Request]
  BY DEF TypeOK, Read, Idle, Request, Ops, Steps
<1> QED
  BY <1>1 DEF TypeOK, Read, Tables

LEMMA FindPairType ==
    ASSUME TypeOK, NEW u, NEW v
    PROVE  \/ FindPair(u, v) = NoRow
           \/ FindPair(u, v) \in conn /\ IsPair(FindPair(u, v), u, v)
BY DEF FindPair, PairRows

LEMMA FindPairRow ==
    ASSUME TypeOK, NEW u, NEW v
    PROVE  FindPair(u, v) \in Row \cup {NoRow}
BY FindPairType DEF TypeOK

LEMMA ResolveType ==
    ASSUME log \subseteq Entry, now \in Nat, NEW u, NEW v,
           NEW outcome \in Outcomes
    PROVE  Resolve(u, v, outcome) \subseteq Entry
BY DEF Resolve, Entry

LEMMA NewRowType ==
    ASSUME nextConn \in Nat, NEW u \in Users, NEW v \in Users,
           NEW state \in ConnStates
    PROVE  NewRow(u, v, state) \in Row
BY DEF NewRow, Row

LEMMA NewEntryType ==
    ASSUME nextLog \in Nat, now \in Nat, NEW u \in Users, NEW v \in Users,
           NEW outcome \in Outcomes, NEW began \in Nat, NEW invite \in BOOLEAN
    PROVE  NewEntry(u, v, outcome, began, invite) \in Entry
BY DEF NewEntry, Entry

LEMMA CeilingType ==
    ASSUME NEW u
    PROVE  CurrentCeiling(u) \in Nat
BY ConnectionsAssumption DEF CurrentCeiling

\* A request being served has an actor and an other party.
LEMMA ServedType ==
    ASSUME TypeOK, NEW p \in Procs
    PROVE  /\ req[p] \in Request
           /\ req[p].seen \in Row \cup {NoRow}
           /\ req[p].began \in Nat
BY DEF TypeOK, Request

LEMMA LiveUsers == Live \subseteq Users
BY DEF Live

LEMMA TypeOKStep ==
    ASSUME TypeOK, [Next]_vars
    PROVE  TypeOK'
<1> USE ConnectionsAssumption
<1>1. ASSUME NEW p \in Procs, SendCeiling(p) PROVE TypeOK'
  <2>1. PICK u \in Live, v \in Users :
          req' = [req EXCEPT ![p] = [Idle EXCEPT !.op = "send", !.at = "count",
                                       !.actor = u, !.other = v, !.began = now,
                                       !.ceiling = CurrentCeiling(u)]]
    BY <1>1 DEF SendCeiling
  <2>2. CurrentCeiling(u) \in Nat
    BY CeilingType
  <2>3. req' \in [Procs -> Request]
    BY <2>1, <2>2, LiveUsers DEF TypeOK, Request, Idle, Ops, Steps
  <2> QED
    BY <1>1, <2>3 DEF SendCeiling, TypeOK, Tables
<1>2. ASSUME NEW p \in Procs,
             SendCount(p) \/ SendCooldown(p) \/ SendPair(p) \/ Rollback(p)
      PROVE  TypeOK'
  <2>1. req' \in [Procs -> Request]
    BY <1>2, ReplyType, ProceedType
       DEF TypeOK, SendCount, SendCooldown, SendPair, Rollback, Steps
  <2> QED
    BY <1>2, <2>1
       DEF TypeOK, Tables, SendCount, SendCooldown, SendPair, Rollback
<1>3. ASSUME NEW p \in Procs, SendWrite(p) PROVE TypeOK'
  <2> DEFINE u == req[p].actor
             v == req[p].other
  <2>1. req' \in [Procs -> Request]
    BY <1>3, ReplyType DEF TypeOK, SendWrite
  <2>2. CASE Insertable(conn, u, v)
    <3>1. u \in Users /\ v \in Users
      BY <2>2, LiveUsers DEF Insertable
    <3>2. NewRow(u, v, "pending") \in Row
      BY <3>1, NewRowType DEF TypeOK, ConnStates
    <3>3. NewEntry(u, v, "pending", req[p].began, FALSE) \in Entry
      BY <3>1, NewEntryType, ServedType DEF TypeOK, Outcomes
    <3>4. /\ conn' = conn \cup {NewRow(u, v, "pending")}
          /\ log' = log \cup {NewEntry(u, v, "pending", req[p].began, FALSE)}
          /\ nextConn' = nextConn + 1
          /\ nextLog' = nextLog + 1
          /\ UNCHANGED <<account, now>>
      BY <1>3, <2>2 DEF SendWrite
    <3>5. conn' \subseteq Row /\ log' \subseteq Entry
      BY <3>2, <3>3, <3>4 DEF TypeOK
    <3>6. nextConn' \in Nat \ {0} /\ nextLog' \in Nat \ {0}
      BY <3>4 DEF TypeOK
    <3> QED
      BY <2>1, <3>4, <3>5, <3>6 DEF TypeOK
  <2>3. CASE ~Insertable(conn, u, v)
    BY <1>3, <2>1, <2>3 DEF SendWrite, TypeOK
  <2> QED
    BY <2>2, <2>3
<1>4. ASSUME NEW p \in Procs, Accept(p) \/ Withdraw(p) PROVE TypeOK'
  <2>1. \E op \in Ops, u \in Users, v \in Users, row \in Row \cup {NoRow} :
          Read(p, op, u, v, row)
    BY <1>4, LiveUsers DEF Accept, Withdraw, TypeOK, Row, Ops
  <2> QED
    BY <2>1, ReadType
<1>5. ASSUME NEW p \in Procs, Remove(p) \/ Block(p) \/ Unblock(p) PROVE TypeOK'
  <2>1. \E op \in Ops, u \in Users, v \in Users :
          Read(p, op, u, v, FindPair(u, v))
    BY <1>5, LiveUsers DEF Remove, Block, Unblock, Ops
  <2> QED
    BY <2>1, ReadType, FindPairRow
<1>6. ASSUME NEW p \in Procs, AcceptWrite(p) PROVE TypeOK'
  <2> DEFINE seen == req[p].seen
  <2>1. req' \in [Procs -> Request]
    BY <1>6, ReplyType DEF TypeOK, AcceptWrite
  <2>2. CASE ById(seen.id) # {}
    <3>1. conn' \subseteq Row
      BY <1>6, <2>2 DEF AcceptWrite, TypeOK, Row, ConnStates
    <3>2. log' \subseteq Entry
      BY <1>6, <2>2, ResolveType DEF AcceptWrite, TypeOK, Outcomes
    <3> QED
      BY <1>6, <2>1, <3>1, <3>2 DEF AcceptWrite, TypeOK
  <2>3. CASE ById(seen.id) = {}
    BY <1>6, <2>1, <2>3 DEF AcceptWrite, TypeOK
  <2> QED
    BY <2>2, <2>3
<1>7. ASSUME NEW p \in Procs, WithdrawWrite(p) PROVE TypeOK'
  <2>1. req' \in [Procs -> Request]
    BY <1>7, ReplyType DEF TypeOK, WithdrawWrite
  <2>2. log' \subseteq Entry
    BY <1>7, ResolveType DEF WithdrawWrite, TypeOK, Outcomes
  <2> QED
    BY <1>7, <2>1, <2>2 DEF WithdrawWrite, TypeOK, ById
<1>8. ASSUME NEW p \in Procs, RemoveWrite(p) \/ UnblockWrite(p) PROVE TypeOK'
  <2>1. req' \in [Procs -> Request]
    BY <1>8, ReplyType DEF TypeOK, RemoveWrite, UnblockWrite
  <2> QED
    BY <1>8, <2>1 DEF RemoveWrite, UnblockWrite, TypeOK
<1>9. ASSUME NEW p \in Procs, BlockWrite(p) PROVE TypeOK'
  <2> DEFINE u == req[p].actor
             v == req[p].other
             seen == req[p].seen
             rest == conn \ ById(seen.id)
  <2>1. req' \in [Procs -> Request]
    BY <1>9, ReplyType DEF TypeOK, BlockWrite
  <2>2. CASE Insertable(rest, u, v)
    <3>1. u \in Users /\ v \in Users
      BY <2>2, LiveUsers DEF Insertable
    <3>2. NewRow(u, v, "blocked") \in Row
      BY <3>1, NewRowType DEF TypeOK, ConnStates
    <3>3. log' \subseteq Entry
      BY <1>9, <2>2, ResolveType DEF BlockWrite, TypeOK, Outcomes
    <3>4. /\ conn' = rest \cup {NewRow(u, v, "blocked")}
          /\ nextConn' = nextConn + 1
          /\ UNCHANGED <<account, nextLog, now>>
      BY <1>9, <2>2 DEF BlockWrite
    <3> QED
      BY <2>1, <3>2, <3>3, <3>4 DEF TypeOK
  <2>3. CASE ~Insertable(rest, u, v)
    BY <1>9, <2>1, <2>3 DEF BlockWrite, TypeOK
  <2> QED
    BY <2>2, <2>3
<1>10. ASSUME NEW u \in Users, Signup(u) PROVE TypeOK'
  BY <1>10 DEF Signup, TypeOK
<1>11. ASSUME NEW u \in Users, NEW v \in Users, SignupByInvite(u, v)
       PROVE  TypeOK'
  <2>1. NewRow(v, u, "accepted") \in Row
    BY NewRowType DEF TypeOK, ConnStates
  <2>2. NewEntry(v, u, "accepted", now, TRUE) \in Entry
    BY NewEntryType DEF TypeOK, Outcomes
  <2>3. conn' \subseteq Row /\ log' \subseteq Entry
    BY <1>11, <2>1, <2>2 DEF SignupByInvite, TypeOK
  <2>4. nextConn' \in Nat \ {0} /\ nextLog' \in Nat \ {0}
    BY <1>11 DEF SignupByInvite, TypeOK
  <2> QED
    BY <1>11, <2>3, <2>4 DEF SignupByInvite, TypeOK
<1>12. ASSUME NEW u \in Leavers, DeleteAccount(u) PROVE TypeOK'
  BY <1>12 DEF DeleteAccount, TypeOK
<1>13. CASE NextDay
  BY <1>13 DEF NextDay, TypeOK
<1>14. CASE UNCHANGED vars
  BY <1>14 DEF vars, TypeOK
<1> QED
  BY <1>1, <1>2, <1>3, <1>4, <1>5, <1>6, <1>7, <1>8, <1>9, <1>10, <1>11,
     <1>12, <1>13, <1>14 DEF Next, Handler

(* The tables, the accounts and the in-flight requests keep their types    *)
(* whatever overlaps.                                                      *)
THEOREM Typed == Spec => []TypeOK
<1>1. Init => TypeOK
  BY DEF Init, TypeOK, Request, Idle, Ops, Steps
<1>2. TypeOK /\ [Next]_vars => TypeOK'
  BY TypeOKStep
<1> QED
  BY <1>1, <1>2, PTL DEF Spec

-----------------------------------------------------------------------------
(* Staleness: what a handler read still fits what is there                 *)

\* What a step may do to the rows: keep them, drop them, insert one under a
\* fresh id, or turn a pending request into a connection.
Ages ==
    /\ nextConn' >= nextConn
    /\ \A r \in conn' :
          \/ r \in conn
          \/ r.id = nextConn
          \/ /\ r.state = "accepted"
             /\ \E s \in conn : /\ s.id = r.id /\ s.state = "pending"
                                /\ s.from = r.from /\ s.to = r.to

LEMMA AgesAccept ==
    ASSUME TypeOK, UniqueIds, SeenFits, NEW p \in Procs, AcceptWrite(p)
    PROVE  Ages
<1> DEFINE seen == req[p].seen
<1>1. /\ nextConn' = nextConn
      /\ \/ conn' = conn
         \/ conn' = {IF r.id = seen.id THEN [r EXCEPT !.state = "accepted"]
                                       ELSE r : r \in conn}
  BY DEF AcceptWrite
<1>2. nextConn \in Nat
  BY DEF TypeOK
<1>3. ASSUME NEW r \in conn, r.id = seen.id
      PROVE  r.state \in {"pending", "accepted"}
  <2>1. r \in ById(seen.id)
    BY <1>3 DEF ById
  <2>2. seen.state = "pending"
    BY DEF AcceptWrite, Writing, SeenFits, Fits
  <2>3. r.state # "blocked"
    BY <2>1, <2>2 DEF SeenFits, Fits
  <2> QED
    BY <2>3 DEF TypeOK, Row, ConnStates
<1>4. ASSUME NEW t \in conn'
      PROVE  \/ t \in conn
             \/ /\ t.state = "accepted"
                /\ \E s \in conn : /\ s.id = t.id /\ s.state = "pending"
                                   /\ s.from = t.from /\ s.to = t.to
  <2>1. CASE t \in conn
    BY <2>1
  <2>2. CASE t \notin conn
    <3>1. PICK r \in conn : /\ r.id = seen.id
                            /\ t = [r EXCEPT !.state = "accepted"]
      BY <1>1, <1>4, <2>2
    <3>2. r \in Row
      BY DEF TypeOK
    <3>3. /\ t.state = "accepted" /\ t.id = r.id
          /\ t.from = r.from /\ t.to = r.to
      BY <3>1, <3>2 DEF Row
    <3>4. r.state = "accepted" => t = r
      BY <3>1, <3>2 DEF Row
    <3> QED
      BY <1>3, <2>2, <3>1, <3>3, <3>4
  <2> QED
    BY <2>1, <2>2
<1> QED
  BY <1>1, <1>2, <1>4 DEF Ages

LEMMA AgesStep ==
    ASSUME TypeOK, UniqueIds, SeenFits, Next
    PROVE  Ages
<1> USE DEF Ages
<1>1. nextConn \in Nat
  BY DEF TypeOK
<1>2. ASSUME NEW p \in Procs, AcceptWrite(p) PROVE Ages
  BY <1>2, AgesAccept
<1>3. ASSUME NEW p \in Procs,
             \/ SendCeiling(p) \/ SendCount(p) \/ SendCooldown(p)
             \/ SendPair(p) \/ Accept(p) \/ Withdraw(p) \/ Remove(p)
             \/ Block(p) \/ Unblock(p) \/ Rollback(p)
      PROVE  Ages
  <2>1. conn' = conn /\ nextConn' = nextConn
    BY <1>3 DEF SendCeiling, SendCount, SendCooldown, SendPair, Accept,
                Withdraw, Remove, Block, Unblock, Rollback, Read, Tables
  <2> QED
    BY <1>1, <2>1
<1>4. ASSUME NEW p \in Procs, SendWrite(p) PROVE Ages
  <2>1. \/ conn' = conn /\ nextConn' = nextConn
        \/ /\ nextConn' = nextConn + 1
           /\ \E row : row.id = nextConn /\ conn' = conn \cup {row}
    BY <1>4 DEF SendWrite, NewRow
  <2> QED
    BY <1>1, <2>1
<1>5. ASSUME NEW p \in Procs, WithdrawWrite(p) \/ RemoveWrite(p) \/ UnblockWrite(p)
      PROVE  Ages
  BY <1>1, <1>5 DEF WithdrawWrite, RemoveWrite, UnblockWrite
<1>6. ASSUME NEW p \in Procs, BlockWrite(p) PROVE Ages
  <2>1. \/ conn' = conn /\ nextConn' = nextConn
        \/ /\ nextConn' = nextConn + 1
           /\ \E row : /\ row.id = nextConn
                       /\ conn' \subseteq conn \cup {row}
    BY <1>6 DEF BlockWrite, NewRow
  <2> QED
    BY <1>1, <2>1
<1>7. ASSUME NEW u \in Users, Signup(u) PROVE Ages
  BY <1>1, <1>7 DEF Signup
<1>8. ASSUME NEW u \in Users, NEW v \in Users, SignupByInvite(u, v) PROVE Ages
  BY <1>1, <1>8 DEF SignupByInvite, NewRow
<1>9. ASSUME NEW u \in Leavers, DeleteAccount(u) PROVE Ages
  BY <1>1, <1>9 DEF DeleteAccount
<1>10. CASE NextDay
  BY <1>1, <1>10 DEF NextDay
<1> QED
  BY <1>2, <1>3, <1>4, <1>5, <1>6, <1>7, <1>8, <1>9, <1>10 DEF Next, Handler

LEMMA UniqueIdsStep ==
    ASSUME TypeOK, UniqueIds, SeenFits, Next
    PROVE  UniqueIds'
<1> USE DEF UniqueIds
<1>1. nextConn \in Nat \ {0} /\ \A r \in conn : r.id \in Nat
  BY DEF TypeOK, Row
<1>2. ASSUME NEW p \in Procs, AcceptWrite(p) PROVE UniqueIds'
  <2> DEFINE seen == req[p].seen
             Turn(r) == IF r.id = seen.id THEN [r EXCEPT !.state = "accepted"]
                                          ELSE r
  <2>1. /\ nextConn' = nextConn
        /\ conn' = conn \/ conn' = {Turn(r) : r \in conn}
    BY <1>2 DEF AcceptWrite
  <2>2. \A r \in conn : Turn(r).id = r.id
    BY DEF TypeOK, Row
  <2> HIDE DEF Turn
  <2> QED
    BY <2>1, <2>2
<1>3. ASSUME nextConn' = nextConn, conn' \subseteq conn PROVE UniqueIds'
  BY <1>3
<1>4. ASSUME NEW row, row.id = nextConn, nextConn' = nextConn + 1,
             conn' \subseteq conn \cup {row}
      PROVE  UniqueIds'
  BY <1>1, <1>4
<1>5. ASSUME NEW p \in Procs,
             \/ SendCeiling(p) \/ SendCount(p) \/ SendCooldown(p)
             \/ SendPair(p) \/ Accept(p) \/ Withdraw(p) \/ Remove(p)
             \/ Block(p) \/ Unblock(p) \/ Rollback(p)
      PROVE  UniqueIds'
  BY <1>3, <1>5
     DEF SendCeiling, SendCount, SendCooldown, SendPair, Accept, Withdraw,
         Remove, Block, Unblock, Rollback, Read, Tables
<1>6. ASSUME NEW p \in Procs, SendWrite(p) PROVE UniqueIds'
  <2>1. NewRow(req[p].actor, req[p].other, "pending").id = nextConn
    BY DEF NewRow
  <2> QED
    BY <1>3, <1>4, <1>6, <2>1 DEF SendWrite
<1>7. ASSUME NEW p \in Procs,
             WithdrawWrite(p) \/ RemoveWrite(p) \/ UnblockWrite(p)
      PROVE  UniqueIds'
  BY <1>3, <1>7 DEF WithdrawWrite, RemoveWrite, UnblockWrite
<1>8. ASSUME NEW p \in Procs, BlockWrite(p) PROVE UniqueIds'
  <2>1. NewRow(req[p].actor, req[p].other, "blocked").id = nextConn
    BY DEF NewRow
  <2> QED
    BY <1>3, <1>4, <1>8, <2>1 DEF BlockWrite
<1>9. ASSUME NEW u \in Users, NEW v \in Users, SignupByInvite(u, v)
      PROVE  UniqueIds'
  <2>1. NewRow(v, u, "accepted").id = nextConn
    BY DEF NewRow
  <2> QED
    BY <1>4, <1>9, <2>1 DEF SignupByInvite
<1>10. ASSUME NEW u \in Users, Signup(u) \/ DeleteAccount(u)
       PROVE  UniqueIds'
  BY <1>3, <1>10 DEF Signup, DeleteAccount
<1>11. Leavers \subseteq Users
  BY ConnectionsAssumption DEF ConnectionsAssumption
<1>12. CASE NextDay
  BY <1>3, <1>12 DEF NextDay
<1> QED
  BY <1>2, <1>5, <1>6, <1>7, <1>8, <1>9, <1>10, <1>11, <1>12 DEF Next, Handler

\* A request that still waits to write goes on fitting as the rows age.
LEMMA FitsAges ==
    ASSUME TypeOK, UniqueIds, Ages, nextConn' \in Nat,
           NEW rq \in Request, Fits(rq)
    PROVE  Fits(rq)'
<1> DEFINE seen == rq.seen
<1>1. nextConn \in Nat
  BY DEF TypeOK
<1>2. seen # NoRow => seen.id < nextConn'
  <2>1. seen # NoRow => seen.id \in Nat /\ seen.id < nextConn
    BY DEF Fits, Request, Row
  <2> QED
    BY <1>1, <2>1 DEF Ages
<1>3. ASSUME NEW r \in conn', r.id = seen.id
      PROVE  /\ r.from = seen.from /\ r.to = seen.to
             /\ seen.state # "pending" => r.state # "pending"
             /\ seen.state # "blocked" => r.state # "blocked"
  <2>1. seen.id \in Nat /\ seen.id < nextConn
    <3>1. CASE seen = NoRow
      BY <1>1, <3>1 DEF TypeOK, NoRow
    <3>2. CASE seen # NoRow
      BY <3>2 DEF Fits, Request, Row
    <3> QED
      BY <3>1, <3>2
  <2>2. r.id # nextConn
    BY <1>1, <1>3, <2>1
  <2>3. CASE r \in conn
    BY <1>3, <2>3 DEF Fits, ById
  <2>4. CASE r \notin conn
    <3>1. PICK s \in conn : /\ r.state = "accepted"
                            /\ s.id = r.id /\ s.state = "pending"
                            /\ s.from = r.from /\ s.to = r.to
      BY <2>2, <2>4 DEF Ages
    <3> QED
      BY <1>3, <3>1 DEF Fits, ById
  <2> QED
    BY <2>3, <2>4
<1> QED
  BY <1>2, <1>3 DEF Fits, ById

\* A request that has read no row fits anything.
LEMMA FitsUnread ==
    ASSUME UniqueIds', NEW rq, rq.seen = NoRow,
           rq.op \notin {"accept", "withdraw", "remove", "unblock"}
    PROVE  Fits(rq)'
BY DEF UniqueIds, Fits, ById, NoRow

\* A request that has just read a row fits it.
LEMMA FitsRead ==
    ASSUME TypeOK, UniqueIds, conn' = conn, nextConn' = nextConn,
           NEW rq, rq.seen \in conn, IsPair(rq.seen, rq.actor, rq.other),
           /\ rq.op = "accept" => rq.seen.state = "pending" /\ rq.seen.to = rq.actor
           /\ rq.op = "withdraw" => rq.seen.state = "pending"
           /\ rq.op = "remove" => rq.seen.state = "accepted"
           /\ rq.op = "unblock" => rq.seen.state = "blocked" /\ rq.seen.from = rq.actor
    PROVE  Fits(rq)'
<1>1. rq.seen.id < nextConn
  BY DEF UniqueIds
<1>2. \A r \in conn : r.id = rq.seen.id => r = rq.seen
  BY DEF UniqueIds
<1> QED
  BY <1>1, <1>2 DEF Fits, ById, IsPair

LEMMA ReadFits ==
    ASSUME TypeOK, UniqueIds, UniqueIds', NEW p \in Procs,
           Accept(p) \/ Withdraw(p) \/ Remove(p) \/ Block(p) \/ Unblock(p)
    PROVE  /\ Fits(req[p])'
           /\ \A q \in Procs \ {p} : req'[q] = req[q]
<1>1. ASSUME NEW op, NEW u, NEW v, NEW row, Read(p, op, u, v, row)
      PROVE  /\ req'[p].op = op /\ req'[p].actor = u /\ req'[p].other = v
             /\ req'[p].seen = row
             /\ \A q \in Procs \ {p} : req'[q] = req[q]
             /\ conn' = conn /\ nextConn' = nextConn
  BY <1>1 DEF Read, Tables, Idle, TypeOK
<1>2. \A q \in Procs \ {p} : req'[q] = req[q]
  BY <1>1 DEF Accept, Withdraw, Remove, Block, Unblock
<1>3. PICK rq : rq = req'[p]
  OBVIOUS
<1>4. Fits(rq)'
  <2>1. CASE Accept(p)
    <3>1. PICK r \in conn : /\ r.state = "pending"
                            /\ Read(p, "accept", r.to, r.from, r)
      BY <2>1 DEF Accept
    <3> QED
      BY <1>1, <1>3, <3>1, FitsRead DEF IsPair
  <2>2. CASE Withdraw(p)
    <3>1. PICK r \in conn, u \in Live :
             /\ r.state = "pending"
             /\ u \in {r.from, r.to}
             /\ Read(p, "withdraw", u, IF u = r.to THEN r.from ELSE r.to, r)
      BY <2>2 DEF Withdraw
    <3> QED
      BY <1>1, <1>3, <3>1, FitsRead DEF IsPair
  <2>3. CASE Remove(p)
    <3>1. PICK u, v : /\ FindPair(u, v).state = "accepted"
                      /\ Read(p, "remove", u, v, FindPair(u, v))
      BY <2>3 DEF Remove
    <3>2. FindPair(u, v) \in conn /\ IsPair(FindPair(u, v), u, v)
      BY <3>1, FindPairType DEF NoRow
    <3> QED
      BY <1>1, <1>3, <3>1, <3>2, FitsRead
  <2>4. CASE Block(p)
    <3>1. PICK u, v : Read(p, "block", u, v, FindPair(u, v))
      BY <2>4 DEF Block
    <3>2. CASE FindPair(u, v) = NoRow
      BY <1>1, <1>3, <3>1, <3>2, FitsUnread
    <3>3. CASE FindPair(u, v) # NoRow
      <4>1. FindPair(u, v) \in conn /\ IsPair(FindPair(u, v), u, v)
        BY <3>3, FindPairType
      <4> QED
        BY <1>1, <1>3, <3>1, <4>1, FitsRead
    <3> QED
      BY <3>2, <3>3
  <2>5. CASE Unblock(p)
    <3>1. PICK u, v : /\ FindPair(u, v).state = "blocked"
                      /\ FindPair(u, v).from = u
                      /\ Read(p, "unblock", u, v, FindPair(u, v))
      BY <2>5 DEF Unblock
    <3>2. FindPair(u, v) \in conn /\ IsPair(FindPair(u, v), u, v)
      BY <3>1, FindPairType DEF NoRow
    <3> QED
      BY <1>1, <1>3, <3>1, <3>2, FitsRead
  <2> QED
    BY <2>1, <2>2, <2>3, <2>4, <2>5
<1> QED
  BY <1>2, <1>3, <1>4 DEF Fits, ById

LEMMA SeenFitsStep ==
    ASSUME TypeOK, TypeOK', UniqueIds, UniqueIds', SeenFits, Next
    PROVE  SeenFits'
<1>1. Ages
  BY AgesStep
<1>2. ASSUME NEW q \in Procs, req'[q] = req[q] PROVE Fits(req[q])'
  <2>1. PICK rq \in Request : rq = req[q]
    BY ServedType
  <2>2. Fits(rq)
    BY <2>1 DEF SeenFits
  <2>3. Fits(rq)'
    BY <1>1, <2>2, FitsAges DEF TypeOK
  <2> QED
    BY <1>2, <2>1, <2>3 DEF Fits, ById
<1>3. ASSUME NEW q \in Procs, req'[q] = Idle PROVE Fits(req[q])'
  <2>1. Fits(Idle)'
    BY FitsUnread DEF Idle
  <2> QED
    BY <1>3, <2>1 DEF Fits, ById
<1>4. ASSUME NEW p \in Procs, Reply(p) PROVE SeenFits'
  <2>1. ASSUME NEW q \in Procs PROVE req'[q] = req[q] \/ req'[q] = Idle
    BY <1>4 DEF Reply, TypeOK
  <2> QED
    BY <1>2, <1>3, <2>1 DEF SeenFits
<1>5. ASSUME NEW p \in Procs, NEW step, Proceed(p, step) PROVE SeenFits'
  <2>1. ASSUME NEW q \in Procs \ {p} PROVE req'[q] = req[q]
    BY <1>5 DEF Proceed, TypeOK
  <2>2. PICK rq \in Request : rq = req[p]
    BY ServedType
  <2>3. Fits(rq)'
    BY <1>1, <2>2, FitsAges DEF TypeOK, SeenFits
  <2>4. /\ req'[p].op = rq.op /\ req'[p].seen = rq.seen
        /\ req'[p].actor = rq.actor /\ req'[p].other = rq.other
    BY <1>5, <2>2 DEF Proceed, TypeOK, Request
  <2>5. Fits(req[p])'
    BY <2>3, <2>4 DEF Fits, ById
  <2> QED
    BY <1>2, <2>1, <2>5 DEF SeenFits
<1>6. ASSUME NEW p \in Procs, SendCeiling(p) PROVE SeenFits'
  <2>1. /\ req'[p].op = "send" /\ req'[p].seen = NoRow
        /\ \A q \in Procs \ {p} : req'[q] = req[q]
    BY <1>6 DEF SendCeiling, TypeOK, Idle
  <2>2. PICK rq : rq = req'[p]
    OBVIOUS
  <2>3. Fits(rq)'
    BY <2>1, <2>2, FitsUnread
  <2>4. Fits(req[p])'
    BY <2>2, <2>3 DEF Fits, ById
  <2> QED
    BY <1>2, <2>1, <2>4 DEF SeenFits
<1>7. ASSUME NEW p \in Procs,
             Accept(p) \/ Withdraw(p) \/ Remove(p) \/ Block(p) \/ Unblock(p)
      PROVE  SeenFits'
  BY <1>2, <1>7, ReadFits DEF SeenFits
<1>8. ASSUME NEW p \in Procs,
             \/ SendCount(p) \/ SendCooldown(p) \/ SendPair(p) \/ SendWrite(p)
             \/ AcceptWrite(p) \/ WithdrawWrite(p) \/ RemoveWrite(p)
             \/ BlockWrite(p) \/ UnblockWrite(p) \/ Rollback(p)
      PROVE  SeenFits'
  <2>1. Reply(p) \/ \E step : Proceed(p, step)
    BY <1>8 DEF SendCount, SendCooldown, SendPair, SendWrite, AcceptWrite,
                WithdrawWrite, RemoveWrite, BlockWrite, UnblockWrite, Rollback
  <2> QED
    BY <1>4, <1>5, <2>1
<1>9. ASSUME req' = req PROVE SeenFits'
  BY <1>2, <1>9 DEF SeenFits
<1>10. \/ \E p \in Procs : Handler(p)
       \/ req' = req
  BY DEF Next, Signup, SignupByInvite, DeleteAccount, NextDay
<1> QED
  BY <1>6, <1>7, <1>8, <1>9, <1>10 DEF Handler

-----------------------------------------------------------------------------
(* The ledger                                                              *)

LedgerFits == UniqueIds /\ SeenFits /\ PendingEntryIsLive /\ OnePendingEntry

\* Resolving makes no entry pending and leaves the other pairs alone.
LEMMA ResolveKeeps ==
    ASSUME TypeOK, NEW u, NEW v, NEW outcome \in Outcomes \ {"pending"},
           NEW e \in Resolve(u, v, outcome), e.outcome = "pending"
    PROVE  e \in log /\ ~(e.from = u /\ e.to = v)
BY DEF Resolve, TypeOK, Entry

\* The shape of every step that can hurt: what stays pending was pending,
\* and its request is still there.
LEMMA StillLive ==
    ASSUME PendingEntryIsLive,
           \A e \in log' : e.outcome = "pending" =>
              /\ e \in log
              /\ \A r \in conn : r.from = e.from /\ r.to = e.to
                                 /\ r.state = "pending" => r \in conn'
    PROVE  PendingEntryIsLive'
BY DEF PendingEntryIsLive

\* Deleting or turning the row that was read leaves other requests alone.
LEMMA OthersStay ==
    ASSUME TypeOK, SeenFits, NEW p \in Procs, NEW r \in conn,
           ~(r.from = req[p].seen.from /\ r.to = req[p].seen.to)
    PROVE  r \notin ById(req[p].seen.id)
BY DEF SeenFits, Fits

LEMMA PendingEntryIsLiveStep ==
    ASSUME TypeOK, UniqueIds, SeenFits, PendingEntryIsLive, Next
    PROVE  PendingEntryIsLive'
<1>1. ASSUME log' \subseteq log, conn \subseteq conn' PROVE PendingEntryIsLive'
  BY <1>1, StillLive
<1>2. ASSUME NEW p \in Procs, SendWrite(p) PROVE PendingEntryIsLive'
  <2> DEFINE u == req[p].actor
             v == req[p].other
  <2>1. CASE ~Insertable(conn, u, v)
    BY <1>1, <1>2, <2>1 DEF SendWrite
  <2>2. CASE Insertable(conn, u, v)
    <3>1. /\ conn' = conn \cup {NewRow(u, v, "pending")}
          /\ log' = log \cup {NewEntry(u, v, "pending", req[p].began, FALSE)}
      BY <1>2, <2>2 DEF SendWrite
    <3>2. /\ NewRow(u, v, "pending").from = u
          /\ NewRow(u, v, "pending").to = v
          /\ NewRow(u, v, "pending").state = "pending"
          /\ NewEntry(u, v, "pending", req[p].began, FALSE).from = u
          /\ NewEntry(u, v, "pending", req[p].began, FALSE).to = v
      BY DEF NewRow, NewEntry
    <3> QED
      BY <3>1, <3>2 DEF PendingEntryIsLive
  <2> QED
    BY <2>1, <2>2
<1>3. ASSUME NEW p \in Procs, AcceptWrite(p) PROVE PendingEntryIsLive'
  <2> DEFINE seen == req[p].seen
  <2>1. CASE ById(seen.id) = {}
    BY <1>1, <1>3, <2>1 DEF AcceptWrite
  <2>2. CASE ById(seen.id) # {}
    <3>1. /\ conn' = {IF r.id = seen.id THEN [r EXCEPT !.state = "accepted"]
                                        ELSE r : r \in conn}
          /\ log' = Resolve(seen.from, seen.to, "accepted")
      BY <1>3, <2>2 DEF AcceptWrite
    <3>2. ASSUME NEW e \in log', e.outcome = "pending"
          PROVE  e \in log /\ ~(e.from = seen.from /\ e.to = seen.to)
      BY <3>1, <3>2, ResolveKeeps DEF Outcomes
    <3>3. ASSUME NEW r \in conn, ~(r.from = seen.from /\ r.to = seen.to)
          PROVE  r \in conn'
      BY <3>1, <3>3, OthersStay DEF ById
    <3> QED
      BY <3>2, <3>3, StillLive
  <2> QED
    BY <2>1, <2>2
<1>4. ASSUME NEW p \in Procs, WithdrawWrite(p) PROVE PendingEntryIsLive'
  <2> DEFINE seen == req[p].seen
  <2>1. PICK outcome \in Outcomes \ {"pending"} :
          /\ conn' = conn \ ById(seen.id)
          /\ log' = Resolve(seen.from, seen.to, outcome)
    BY <1>4 DEF WithdrawWrite, Outcomes
  <2>2. ASSUME NEW e \in log', e.outcome = "pending"
        PROVE  e \in log /\ ~(e.from = seen.from /\ e.to = seen.to)
    BY <2>1, <2>2, ResolveKeeps
  <2>3. ASSUME NEW r \in conn, ~(r.from = seen.from /\ r.to = seen.to)
        PROVE  r \in conn'
    BY <2>1, <2>3, OthersStay
  <2> QED
    BY <2>2, <2>3, StillLive
<1>5. ASSUME NEW p \in Procs, RemoveWrite(p) \/ UnblockWrite(p)
      PROVE  PendingEntryIsLive'
  <2>1. log' = log /\ conn' = conn \ ById(req[p].seen.id)
    BY <1>5 DEF RemoveWrite, UnblockWrite
  <2>2. req[p].seen.state # "pending"
    BY <1>5 DEF RemoveWrite, UnblockWrite, Writing, SeenFits, Fits
  <2>3. \A r \in ById(req[p].seen.id) : r.state # "pending"
    BY <2>2 DEF SeenFits, Fits
  <2> QED
    BY <2>1, <2>3, StillLive
<1>6. ASSUME NEW p \in Procs, BlockWrite(p) PROVE PendingEntryIsLive'
  <2> DEFINE u == req[p].actor
             v == req[p].other
             seen == req[p].seen
             rest == conn \ ById(seen.id)
  <2>1. CASE ~Insertable(rest, u, v)
    BY <1>1, <1>6, <2>1 DEF BlockWrite
  <2>2. CASE Insertable(rest, u, v) /\ seen.state = "pending"
    <3>1. PICK outcome \in Outcomes \ {"pending"} :
            /\ conn' = rest \cup {NewRow(u, v, "blocked")}
            /\ log' = Resolve(seen.from, seen.to, outcome)
      BY <1>6, <2>2 DEF BlockWrite, Outcomes
    <3>2. ASSUME NEW e \in log', e.outcome = "pending"
          PROVE  e \in log /\ ~(e.from = seen.from /\ e.to = seen.to)
      BY <3>1, <3>2, ResolveKeeps
    <3>3. ASSUME NEW r \in conn, ~(r.from = seen.from /\ r.to = seen.to)
          PROVE  r \in conn'
      BY <3>1, <3>3, OthersStay
    <3> QED
      BY <3>2, <3>3, StillLive
  <2>3. CASE Insertable(rest, u, v) /\ seen.state # "pending"
    <3>1. conn' = rest \cup {NewRow(u, v, "blocked")} /\ log' = log
      BY <1>6, <2>3 DEF BlockWrite
    <3>2. \A r \in ById(seen.id) : r.state # "pending"
      BY <2>3 DEF SeenFits, Fits
    <3> QED
      BY <3>1, <3>2, StillLive
  <2> QED
    BY <2>1, <2>2, <2>3
<1>7. ASSUME NEW u \in Users, NEW v \in Users, SignupByInvite(u, v)
      PROVE  PendingEntryIsLive'
  <2>1. NewEntry(v, u, "accepted", now, TRUE).outcome = "accepted"
    BY DEF NewEntry
  <2> QED
    BY <1>7, <2>1, StillLive DEF SignupByInvite
<1>8. ASSUME NEW u \in Leavers, DeleteAccount(u) PROVE PendingEntryIsLive'
  BY <1>8, StillLive DEF DeleteAccount
<1>9. ASSUME NEW p \in Procs,
             \/ SendCeiling(p) \/ SendCount(p) \/ SendCooldown(p)
             \/ SendPair(p) \/ Accept(p) \/ Withdraw(p) \/ Remove(p)
             \/ Block(p) \/ Unblock(p) \/ Rollback(p)
      PROVE  PendingEntryIsLive'
  BY <1>1, <1>9
     DEF SendCeiling, SendCount, SendCooldown, SendPair, Accept, Withdraw,
         Remove, Block, Unblock, Rollback, Read, Tables
<1>10. ASSUME NEW u \in Users, Signup(u) PROVE PendingEntryIsLive'
  BY <1>1, <1>10 DEF Signup
<1>11. CASE NextDay
  BY <1>1, <1>11 DEF NextDay
<1> QED
  BY <1>2, <1>3, <1>4, <1>5, <1>6, <1>7, <1>8, <1>9, <1>10, <1>11
     DEF Next, Handler

LEMMA OnePendingEntryStep ==
    ASSUME TypeOK, PendingEntryIsLive, OnePendingEntry, Next
    PROVE  OnePendingEntry'
<1>1. ASSUME \A e \in log' : e.outcome = "pending" => e \in log
      PROVE  OnePendingEntry'
  BY <1>1 DEF OnePendingEntry
<1>2. ASSUME NEW u, NEW v, NEW outcome \in Outcomes \ {"pending"},
             log' = Resolve(u, v, outcome)
      PROVE  OnePendingEntry'
  BY <1>1, <1>2, ResolveKeeps
<1>3. ASSUME NEW p \in Procs, SendWrite(p) PROVE OnePendingEntry'
  <2> DEFINE u == req[p].actor
             v == req[p].other
             new == NewEntry(u, v, "pending", req[p].began, FALSE)
  <2>1. CASE ~Insertable(conn, u, v)
    BY <1>1, <1>3, <2>1 DEF SendWrite
  <2>2. CASE Insertable(conn, u, v)
    <3>1. log' = log \cup {new}
      BY <1>3, <2>2 DEF SendWrite
    <3>2. new.from = u /\ new.to = v
      BY DEF NewEntry
    <3>3. ASSUME NEW e \in log, e.outcome = "pending"
          PROVE  ~(e.from = u /\ e.to = v)
      BY <2>2, <3>3 DEF PendingEntryIsLive, Insertable, IsPair
    <3> HIDE DEF u, v, new
    <3> QED
      BY <3>1, <3>2, <3>3 DEF OnePendingEntry
  <2> QED
    BY <2>1, <2>2
<1>4. ASSUME NEW p \in Procs,
             AcceptWrite(p) \/ WithdrawWrite(p) \/ BlockWrite(p)
      PROVE  OnePendingEntry'
  <2>1. \/ log' = log
        \/ \E u, v : \E outcome \in Outcomes \ {"pending"} :
              log' = Resolve(u, v, outcome)
    BY <1>4 DEF AcceptWrite, WithdrawWrite, BlockWrite, Outcomes
  <2> QED
    BY <1>1, <1>2, <2>1
<1>5. ASSUME NEW p \in Procs,
             \/ SendCeiling(p) \/ SendCount(p) \/ SendCooldown(p)
             \/ SendPair(p) \/ Accept(p) \/ Withdraw(p) \/ Remove(p)
             \/ Block(p) \/ Unblock(p) \/ Rollback(p)
             \/ RemoveWrite(p) \/ UnblockWrite(p)
      PROVE  OnePendingEntry'
  BY <1>1, <1>5
     DEF SendCeiling, SendCount, SendCooldown, SendPair, Accept, Withdraw,
         Remove, Block, Unblock, Rollback, RemoveWrite, UnblockWrite, Read,
         Tables
<1>6. ASSUME NEW u \in Users, NEW v \in Users, SignupByInvite(u, v)
      PROVE  OnePendingEntry'
  BY <1>1, <1>6 DEF SignupByInvite, NewEntry
<1>7. ASSUME NEW u, Signup(u) \/ DeleteAccount(u) PROVE OnePendingEntry'
  BY <1>1, <1>7 DEF Signup, DeleteAccount
<1>8. CASE NextDay
  BY <1>1, <1>8 DEF NextDay
<1> QED
  BY <1>3, <1>4, <1>5, <1>6, <1>7, <1>8 DEF Next, Handler

LEMMA LedgerInvariant == Spec => [](TypeOK /\ LedgerFits)
<1>1. Init => LedgerFits
  BY DEF Init, LedgerFits, UniqueIds, SeenFits, Fits, ById, Idle, NoRow,
         PendingEntryIsLive, OnePendingEntry
<1>2. ASSUME TypeOK, TypeOK', LedgerFits, [Next]_vars
      PROVE  LedgerFits'
  <2>1. CASE Next
    BY <1>2, <2>1, UniqueIdsStep, SeenFitsStep, PendingEntryIsLiveStep,
       OnePendingEntryStep DEF LedgerFits
  <2>2. CASE UNCHANGED vars
    BY <1>2, <2>2 DEF vars, LedgerFits, UniqueIds, SeenFits, Fits, ById,
                      PendingEntryIsLive, OnePendingEntry
  <2> QED
    BY <1>2, <2>1, <2>2
<1> QED
  BY <1>1, <1>2, Typed, PTL DEF Spec

(* Whatever commits between a handler's read and its write, the id it      *)
(* writes by still names the request it read: the staleness that accept,   *)
(* delete_pending_request, block, unblock and delete_for_pair live with.   *)
THEOREM SeenAlwaysFits == Spec => []SeenFits
<1>1. TypeOK /\ LedgerFits => SeenFits
  BY DEF LedgerFits
<1> QED
  BY <1>1, LedgerInvariant, PTL

(* No interleaving of accept, decline, cancel, block, unfriend and account *)
(* deletion leaves a ledger entry pending once its request is gone: the    *)
(* reputation of connection_throttle never ages a request nobody holds.    *)
THEOREM PendingEntriesLive == Spec => []PendingEntryIsLive
<1>1. TypeOK /\ LedgerFits => PendingEntryIsLive
  BY DEF LedgerFits
<1> QED
  BY <1>1, LedgerInvariant, PTL

(* The premise of connection_request_log_repo.resolve: an ordered pair has *)
(* at most one pending entry, for any number of concurrent handlers.       *)
THEOREM PendingEntriesUnique == Spec => []OnePendingEntry
<1>1. TypeOK /\ LedgerFits => OnePendingEntry
  BY DEF LedgerFits
<1> QED
  BY <1>1, LedgerInvariant, PTL

-----------------------------------------------------------------------------
(* What a step may never do                                                *)

\* Resolving skips the entries that have an outcome.
LEMMA ResolveSkips ==
    ASSUME NEW u, NEW v, NEW outcome, NEW e \in log, e.outcome # "pending"
    PROVE  e \in Resolve(u, v, outcome)
BY DEF Resolve

\* A handler that is only reading leaves the tables alone.
LEMMA ReadersKeep ==
    ASSUME NEW p \in Procs,
           \/ SendCeiling(p) \/ SendCount(p) \/ SendCooldown(p)
           \/ SendPair(p) \/ Accept(p) \/ Withdraw(p) \/ Remove(p)
           \/ Block(p) \/ Unblock(p) \/ Rollback(p)
    PROVE  conn' = conn /\ log' = log
BY DEF SendCeiling, SendCount, SendCooldown, SendPair, Accept, Withdraw,
       Remove, Block, Unblock, Rollback, Read, Tables

LEMMA OutcomesTerminalStep ==
    ASSUME TypeOK, Next, NEW e \in log, e.outcome # "pending",
           account'[e.from] = "live", account'[e.to] = "live"
    PROVE  e \in log'
<1>1. CASE log \subseteq log'
  BY <1>1
<1>2. CASE \E u, v, outcome : log' = Resolve(u, v, outcome)
  BY <1>2, ResolveSkips
<1>3. ASSUME NEW p \in Procs, Handler(p)
      PROVE  \/ log \subseteq log'
             \/ \E u, v, outcome : log' = Resolve(u, v, outcome)
  BY <1>3, ReadersKeep
     DEF Handler, SendWrite, AcceptWrite, WithdrawWrite, RemoveWrite,
         BlockWrite, UnblockWrite
<1>4. ASSUME NEW u \in Leavers, DeleteAccount(u) PROVE e \in log'
  <2>1. account'[u] = "gone"
    BY <1>4, ConnectionsAssumption
       DEF DeleteAccount, TypeOK, ConnectionsAssumption
  <2> QED
    BY <1>4, <2>1 DEF DeleteAccount
<1>5. ASSUME NEW u, NEW v, Signup(u) \/ SignupByInvite(u, v) \/ NextDay
      PROVE  log \subseteq log'
  BY <1>5 DEF Signup, SignupByInvite, NextDay
<1> QED
  BY <1>1, <1>2, <1>3, <1>4, <1>5 DEF Next

(* A terminal outcome in the ledger is never rewritten, by any number of   *)
(* handlers that resolve the same pair from stale reads.                   *)
THEOREM OutcomesStayTerminal == Spec => OutcomesTerminal
<1>1. TypeOK /\ [Next]_vars =>
        [\A e \in log : e.outcome # "pending" /\ account'[e.from] = "live"
                        /\ account'[e.to] = "live" => e \in log']_vars
  BY OutcomesTerminalStep
<1> QED
  BY <1>1, Typed, PTL DEF Spec, OutcomesTerminal

LEMMA ConsentStep ==
    ASSUME TypeOK, LedgerFits, Next,
           NEW r \in conn', r.state = "accepted", r \notin conn
    PROVE  \/ /\ [r EXCEPT !.state = "pending"] \in conn
              /\ \E p \in Procs : Writing(p, "accept") /\ req[p].actor = r.to
           \/ account[r.to] = "none"
<1>1. ASSUME NEW p \in Procs, AcceptWrite(p)
      PROVE  /\ [r EXCEPT !.state = "pending"] \in conn
             /\ Writing(p, "accept") /\ req[p].actor = r.to
  <2> DEFINE seen == req[p].seen
  <2>1. PICK s \in conn : s.id = seen.id /\ r = [s EXCEPT !.state = "accepted"]
    BY <1>1 DEF AcceptWrite
  <2>2. Writing(p, "accept")
    BY <1>1 DEF AcceptWrite
  <2>3. seen.state = "pending" /\ seen.to = req[p].actor
    BY <2>2 DEF LedgerFits, SeenFits, Fits, Writing
  <2>4. s \in Row
    BY DEF TypeOK
  <2>5. s.to = seen.to /\ s.state # "blocked"
    BY <2>1, <2>3 DEF LedgerFits, SeenFits, Fits, ById
  <2>6. s.state = "pending"
    <3>1. s.state = "accepted" => r = s
      BY <2>1, <2>4 DEF Row
    <3> QED
      BY <2>4, <2>5, <3>1 DEF Row, ConnStates
  <2>7. [r EXCEPT !.state = "pending"] = s /\ r.to = s.to
    BY <2>1, <2>4, <2>6 DEF Row
  <2> QED
    BY <2>2, <2>3, <2>5, <2>7
<1>2. ASSUME NEW p \in Procs, Handler(p), ~AcceptWrite(p) PROVE FALSE
  <2>1. \/ conn' \subseteq conn
        \/ \E u, v : conn' \subseteq conn \cup {NewRow(u, v, "pending")}
        \/ \E u, v : conn' \subseteq conn \cup {NewRow(u, v, "blocked")}
    BY <1>2, ReadersKeep
       DEF Handler, SendWrite, WithdrawWrite, RemoveWrite, BlockWrite,
           UnblockWrite
  <2> QED
    BY <2>1 DEF NewRow
<1>3. ASSUME NEW u \in Users, NEW v \in Users, SignupByInvite(u, v)
      PROVE  account[r.to] = "none"
  BY <1>3 DEF SignupByInvite, NewRow
<1>4. ASSUME NEW u, Signup(u) \/ DeleteAccount(u) \/ NextDay PROVE FALSE
  BY <1>4 DEF Signup, DeleteAccount, NextDay
<1> QED
  BY <1>1, <1>2, <1>3, <1>4 DEF Next

(* Nobody becomes a friend without consent: for any overlap of accept with *)
(* cancel, block, unfriend and re-send, an accepted row is a request that  *)
(* was pending when its addressee's accept committed, or an invited signup.*)
THEOREM AcceptedOnlyByConsent == Spec => AcceptedByConsent
<1>1. TypeOK /\ LedgerFits /\ [Next]_vars =>
        [\A r \in conn' :
            r.state = "accepted" /\ r \notin conn =>
               \/ /\ [r EXCEPT !.state = "pending"] \in conn
                  /\ \E p \in Procs : Writing(p, "accept") /\ req[p].actor = r.to
               \/ account[r.to] = "none"]_vars
  BY ConsentStep
<1> QED
  BY <1>1, LedgerInvariant, PTL DEF Spec, AcceptedByConsent

\* What may have happened when a blocked row is gone.
BlockLifted(r) ==
    \/ \E u \in {r.from, r.to} : account'[u] # "live"
    \/ \E p \in Procs : Writing(p, "unblock") /\ req[p].actor = r.from
    \/ \E b \in conn' : b.state = "blocked" /\ b.from = r.to /\ b.to = r.from
    \/ \E b \in conn' : b.state = "blocked" /\ b.from = r.from /\ b.to = r.to

LEMMA BlockIsWallStep ==
    ASSUME TypeOK, LedgerFits, Next,
           NEW r \in conn, r.state = "blocked", r \notin conn'
    PROVE  BlockLifted(r)
<1> USE DEF BlockLifted
<1>1. ASSUME NEW p \in Procs, r.id = req[p].seen.id
      PROVE  /\ req[p].op \notin {"accept", "withdraw", "remove"}
             /\ req[p].op = "unblock" => req[p].actor = r.from
             /\ IsPair(r, req[p].actor, req[p].other)
  <2>1. /\ r.from = req[p].seen.from /\ r.to = req[p].seen.to
        /\ req[p].seen.state = "blocked"
    BY <1>1 DEF LedgerFits, SeenFits, Fits, ById
  <2>2. req[p].seen # NoRow
    BY <2>1 DEF NoRow
  <2> QED
    BY <2>1, <2>2 DEF LedgerFits, SeenFits, Fits, IsPair
<1>2. ASSUME NEW p \in Procs, AcceptWrite(p) PROVE FALSE
  <2>1. r.id # req[p].seen.id
    BY <1>1, <1>2 DEF AcceptWrite, Writing
  <2> QED
    BY <1>2, <2>1 DEF AcceptWrite
<1>3. ASSUME NEW p \in Procs, WithdrawWrite(p) \/ RemoveWrite(p) PROVE FALSE
  BY <1>1, <1>3 DEF WithdrawWrite, RemoveWrite, Writing, ById
<1>4. ASSUME NEW p \in Procs, UnblockWrite(p) PROVE BlockLifted(r)
  BY <1>1, <1>4 DEF UnblockWrite, Writing, ById
<1>5. ASSUME NEW p \in Procs, BlockWrite(p) PROVE BlockLifted(r)
  <2> DEFINE u == req[p].actor
             v == req[p].other
             b == NewRow(u, v, "blocked")
  <2>1. b \in conn' /\ r \in ById(req[p].seen.id)
    BY <1>5 DEF BlockWrite
  <2>2. b.state = "blocked" /\ b.from = u /\ b.to = v
    BY DEF NewRow
  <2>3. IsPair(r, u, v)
    BY <1>1, <2>1 DEF ById
  <2> QED
    BY <2>1, <2>2, <2>3 DEF IsPair
<1>6. ASSUME NEW p \in Procs, Handler(p)
      PROVE  \/ r \in conn'
             \/ AcceptWrite(p) \/ WithdrawWrite(p) \/ RemoveWrite(p)
             \/ UnblockWrite(p) \/ BlockWrite(p)
  BY <1>6, ReadersKeep DEF Handler, SendWrite
<1>7. ASSUME NEW u \in Leavers, DeleteAccount(u) PROVE BlockLifted(r)
  <2>1. account'[u] = "gone"
    BY <1>7, ConnectionsAssumption
       DEF DeleteAccount, TypeOK, ConnectionsAssumption
  <2> QED
    BY <1>7, <2>1 DEF DeleteAccount
<1>8. ASSUME NEW u, NEW v, Signup(u) \/ SignupByInvite(u, v) \/ NextDay
      PROVE  r \in conn'
  BY <1>8 DEF Signup, SignupByInvite, NextDay
<1> QED
  BY <1>2, <1>3, <1>4, <1>5, <1>6, <1>7, <1>8 DEF Next

(* A block stands until its blocker lifts it, the other party replaces it  *)
(* by a block of its own, or an account goes: no accept, decline, cancel   *)
(* or unfriend working from a stale row gets through the wall.             *)
THEOREM BlocksStand == Spec => BlockIsWall
<1>1. TypeOK /\ LedgerFits /\ [Next]_vars =>
        [\A r \in conn :
            r.state = "blocked" /\ r \notin conn' =>
               \/ \E u \in {r.from, r.to} : account'[u] # "live"
               \/ \E p \in Procs : Writing(p, "unblock") /\ req[p].actor = r.from
               \/ \E b \in conn' : b.state = "blocked" /\ b.from = r.to
                                   /\ b.to = r.from
               \/ \E b \in conn' : b.state = "blocked" /\ b.from = r.from
                                   /\ b.to = r.to]_vars
  BY BlockIsWallStep DEF BlockLifted
<1> QED
  BY <1>1, LedgerInvariant, PTL DEF Spec, BlockIsWall

-----------------------------------------------------------------------------
(* The bound on outreach                                                   *)

\* The handlers that have counted u's requests and not yet inserted u's next.
Counted(u) ==
    {p \in Procs : /\ req[p].op = "send"
                   /\ req[p].at \in {"cooldown", "pair", "write"}
                   /\ req[p].actor = u}

\* A ceiling once read stays below the largest, whatever the ledger becomes.
CeilingsKept ==
    \A p \in Procs : req[p].op = "send" => req[p].ceiling <= MaxCeiling

\* What u has sent, and what the handlers past the count may still send.
Spoken(u) == Cardinality(Outreach(u)) + Cardinality(Counted(u))

OutreachLedger ==
    /\ IsFiniteSet(log)
    /\ CeilingsKept
    /\ \A u \in Users : Spoken(u) <= MaxCeiling - 1 + Cardinality(Procs)

LEMMA ProcCount == Cardinality(Procs) \in Nat
BY FS_CardinalityType, ConnectionsAssumption DEF ConnectionsAssumption

LEMMA OutreachFinite ==
    ASSUME IsFiniteSet(log), NEW u
    PROVE  /\ IsFiniteSet(Outreach(u))
           /\ Cardinality(Outreach(u)) \in Nat
           /\ IsFiniteSet(CreatedIn(u, WindowDays))
           /\ Cardinality(CreatedIn(u, WindowDays)) \in Nat
           /\ Cardinality(Outreach(u)) <= Cardinality(CreatedIn(u, WindowDays))
<1>1. CreatedIn(u, WindowDays) \in SUBSET log
  BY DEF CreatedIn
<1>2. IsFiniteSet(CreatedIn(u, WindowDays))
  BY <1>1, FS_Subset
<1>3. Outreach(u) \in SUBSET CreatedIn(u, WindowDays)
  BY DEF Outreach
<1> QED
  BY <1>2, <1>3, FS_Subset, FS_CardinalityType

LEMMA OneMore ==
    ASSUME NEW S, IsFiniteSet(S), NEW e
    PROVE  /\ IsFiniteSet(S \cup {e})
           /\ Cardinality(S \cup {e}) \in Nat
           /\ Cardinality(S \cup {e}) <= Cardinality(S) + 1
<1>1. IsFiniteSet(S \cup {e})
  BY FS_AddElement
<1>2. Cardinality(S \cup {e}) \in Nat /\ Cardinality(S) \in Nat
  BY <1>1, FS_CardinalityType
<1>3. Cardinality(S \cup {e})
        = IF e \in S THEN Cardinality(S) ELSE Cardinality(S) + 1
  BY FS_AddElement
<1> QED
  BY <1>1, <1>2, <1>3

LEMMA CountedFinite ==
    ASSUME NEW u
    PROVE  /\ IsFiniteSet(Counted(u))
           /\ Cardinality(Counted(u)) \in Nat
           /\ Cardinality(Counted(u)) <= Cardinality(Procs)
<1>1. Counted(u) \in SUBSET Procs /\ IsFiniteSet(Procs)
  BY ConnectionsAssumption DEF Counted, ConnectionsAssumption
<1> QED
  BY <1>1, FS_Subset, FS_CardinalityType

LEMMA CountedFiniteNext ==
    ASSUME NEW u
    PROVE  /\ IsFiniteSet(Counted(u)')
           /\ Cardinality(Counted(u)') \in Nat
           /\ Cardinality(Counted(u)') <= Cardinality(Procs)
<1>1. Counted(u)' \in SUBSET Procs /\ IsFiniteSet(Procs)
  BY ConnectionsAssumption DEF Counted, ConnectionsAssumption
<1> QED
  BY <1>1, FS_Subset, FS_CardinalityType

\* Deleting entries and letting time pass take nothing into a window.
LEMMA OutreachShrinks ==
    ASSUME TypeOK, IsFiniteSet(log), NEW u, log' \subseteq log,
           now' = now \/ now' = now + 1
    PROVE  /\ IsFiniteSet(log')
           /\ Cardinality(Outreach(u)') \in Nat
           /\ Cardinality(Outreach(u)') <= Cardinality(Outreach(u))
<1>1. \A e \in log : e.created >= now' - WindowDays => e.created >= now - WindowDays
  BY ConnectionsAssumption DEF TypeOK, Entry, ConnectionsAssumption
<1>2. Outreach(u)' \in SUBSET Outreach(u)
  BY <1>1 DEF Outreach, CreatedIn
<1>3. IsFiniteSet(log')
  BY FS_Subset
<1> QED
  BY <1>2, <1>3, OutreachFinite, FS_Subset, FS_CardinalityType

\* Resolving changes neither who sent an entry nor when.
LEMMA OutreachResolved ==
    ASSUME TypeOK, IsFiniteSet(log), NEW u, NEW a, NEW b, NEW outcome,
           log' = Resolve(a, b, outcome), now' = now
    PROVE  /\ IsFiniteSet(log')
           /\ Cardinality(Outreach(u)') \in Nat
           /\ Cardinality(Outreach(u)') <= Cardinality(Outreach(u))
<1> DEFINE Become(e) == IF e.from = a /\ e.to = b /\ e.outcome = "pending"
                        THEN [e EXCEPT !.outcome = outcome, !.resolved = now]
                        ELSE e
           f == [e \in log |-> Become(e)]
           g == [e \in Outreach(u) |-> Become(e)]
<1>1. \A e \in log : /\ Become(e).from = e.from
                     /\ Become(e).created = e.created
                     /\ Become(e).invite = e.invite
  BY DEF TypeOK, Entry
<1>2. log' = {Become(e) : e \in log}
  BY DEF Resolve
<1>3. f \in Surjection(log, log')
  BY <1>2 DEF Surjection
<1>4. Outreach(u)' = {Become(e) : e \in Outreach(u)}
  BY <1>1, <1>2 DEF Outreach, CreatedIn
<1>5. g \in Surjection(Outreach(u), Outreach(u)')
  BY <1>4 DEF Surjection
<1> QED
  BY <1>3, <1>5, OutreachFinite, FS_Surjection, FS_CardinalityType

\* A handler that answers, or moves on without having been counted, is one of
\* at most as many.
LEMMA CountedShrinks ==
    ASSUME NEW u, Counted(u)' \subseteq Counted(u)
    PROVE  /\ Cardinality(Counted(u)') \in Nat
           /\ Cardinality(Counted(u)') <= Cardinality(Counted(u))
BY CountedFinite, CountedFiniteNext, FS_Subset

LEMMA CountedReplies ==
    ASSUME TypeOK, NEW u, NEW p \in Procs, Reply(p)
    PROVE  Counted(u)' = Counted(u) \ {p}
BY DEF TypeOK, Reply, Counted, Idle

LEMMA CeilingsReplies ==
    ASSUME TypeOK, CeilingsKept, NEW p \in Procs, Reply(p)
    PROVE  CeilingsKept'
BY DEF TypeOK, Reply, CeilingsKept, Idle

LEMMA ReadsLeave ==
    ASSUME TypeOK, OutreachLedger, NEW p \in Procs, NEW op \in Ops \ {"send"},
           NEW a, NEW b, NEW row, Read(p, op, a, b, row)
    PROVE  /\ \A u : Counted(u)' \subseteq Counted(u)
           /\ CeilingsKept'
BY DEF TypeOK, OutreachLedger, CeilingsKept, Read, Counted, Idle, Ops

\* Every step but the count and the insert: nothing enters a window and no
\* handler passes the count.
LEMMA Subsiding ==
    ASSUME TypeOK, OutreachLedger, CeilingsKept',
           IsFiniteSet(log'),
           \A u \in Users : /\ Cardinality(Outreach(u)') \in Nat
                            /\ Cardinality(Outreach(u)') <= Cardinality(Outreach(u))
                            /\ Counted(u)' \subseteq Counted(u)
    PROVE  OutreachLedger'
<1>1. ASSUME NEW u \in Users
      PROVE  Cardinality(Outreach(u)') + Cardinality(Counted(u)')
               <= MaxCeiling - 1 + Cardinality(Procs)
  <2>1. Cardinality(Outreach(u)) + Cardinality(Counted(u))
          <= MaxCeiling - 1 + Cardinality(Procs)
    BY DEF OutreachLedger, Spoken
  <2> QED
    BY <2>1, CountedShrinks, CountedFinite, OutreachFinite, ProcCount,
       ConnectionsAssumption DEF OutreachLedger, ConnectionsAssumption
<1> QED
  BY <1>1 DEF OutreachLedger, Spoken

LEMMA OutreachSteady ==
    ASSUME TypeOK, OutreachLedger, UNCHANGED Tables, CeilingsKept',
           \A u \in Users : Counted(u)' \subseteq Counted(u)
    PROVE  OutreachLedger'
<1>1. log' \subseteq log /\ now' = now
  BY DEF Tables
<1> QED
  BY <1>1, OutreachShrinks, Subsiding DEF OutreachLedger

\* A write that resolves or deletes ledger entries, or leaves them.
LEMMA OutreachWritten ==
    ASSUME TypeOK, OutreachLedger, NEW p \in Procs, Reply(p), now' = now,
           log' \subseteq log \/ \E a, b, o : log' = Resolve(a, b, o)
    PROVE  OutreachLedger'
<1>1. IsFiniteSet(log) /\ CeilingsKept
  BY DEF OutreachLedger
<1>2. IsFiniteSet(log')
  BY <1>1, OutreachShrinks, OutreachResolved
<1>3. ASSUME NEW u \in Users
      PROVE  /\ Cardinality(Outreach(u)') \in Nat
             /\ Cardinality(Outreach(u)') <= Cardinality(Outreach(u))
  BY <1>1, OutreachShrinks, OutreachResolved
<1>4. \A u \in Users : Counted(u)' \subseteq Counted(u)
  BY CountedReplies
<1> QED
  BY <1>1, <1>2, <1>3, <1>4, CeilingsReplies, Subsiding

\* The count lets a handler past only below the ceiling: whoever else has
\* passed is one of the others.
LEMMA OutreachCounts ==
    ASSUME TypeOK, OutreachLedger, NEW p \in Procs, SendCount(p)
    PROVE  OutreachLedger'
<1> DEFINE u == req[p].actor
<1>1. IsFiniteSet(log) /\ CeilingsKept
  BY DEF OutreachLedger
<1>2. CASE Cardinality(CreatedIn(u, WindowDays)) >= req[p].ceiling
  <2>1. Reply(p) /\ UNCHANGED Tables
    BY <1>2 DEF SendCount
  <2> QED
    BY <2>1, OutreachWritten DEF Tables
<1>3. CASE ~(Cardinality(CreatedIn(u, WindowDays)) >= req[p].ceiling)
  <2>1. Proceed(p, "cooldown") /\ UNCHANGED Tables
    BY <1>3 DEF SendCount
  <2>2. log' = log /\ now' = now
    BY <2>1 DEF Tables
  <2>3. CeilingsKept'
    BY <1>1, <2>1 DEF CeilingsKept, Proceed, TypeOK, Request
  <2>4. \A v \in Users : Outreach(v)' = Outreach(v)
    BY <2>2 DEF Outreach, CreatedIn
  <2>5. \A v \in Users \ {u} : Counted(v)' \subseteq Counted(v)
    BY <2>1 DEF Counted, Proceed, TypeOK, Request
  <2>6. ASSUME NEW v \in Users
        PROVE  Cardinality(Outreach(v)') + Cardinality(Counted(v)')
                 <= MaxCeiling - 1 + Cardinality(Procs)
    <3>1. CASE v # u
      <4>1. Cardinality(Outreach(v)) + Cardinality(Counted(v))
              <= MaxCeiling - 1 + Cardinality(Procs)
        BY DEF OutreachLedger, Spoken
      <4>2. Counted(v)' \subseteq Counted(v) /\ Outreach(v)' = Outreach(v)
        BY <2>4, <2>5, <3>1
      <4> QED
        BY <1>1, <4>1, <4>2, CountedShrinks, CountedFinite, OutreachFinite,
           ProcCount, ConnectionsAssumption DEF ConnectionsAssumption
    <3>2. CASE v = u
      <4>1. req[p].ceiling \in Nat /\ req[p].ceiling <= MaxCeiling
        BY <1>1 DEF SendCount, CeilingsKept, TypeOK, Request
      <4>2. Cardinality(Outreach(v)) <= MaxCeiling - 1
        BY <1>1, <1>3, <3>2, <4>1, OutreachFinite, ConnectionsAssumption
           DEF ConnectionsAssumption
      <4>3. Outreach(v)' = Outreach(v)
        BY <2>4
      <4> QED
        BY <1>1, <4>2, <4>3, CountedFiniteNext, OutreachFinite, ProcCount,
           ConnectionsAssumption DEF ConnectionsAssumption
    <3> QED
      BY <3>1, <3>2
  <2>7. IsFiniteSet(log')
    BY <1>1, <2>2
  <2> QED
    BY <2>3, <2>6, <2>7 DEF OutreachLedger, Spoken
<1> QED
  BY <1>2, <1>3

\* The insert takes its handler's place: one entry more, one counted fewer.
LEMMA OutreachInserts ==
    ASSUME TypeOK, OutreachLedger, NEW p \in Procs, SendWrite(p)
    PROVE  OutreachLedger'
<1> DEFINE u == req[p].actor
           v == req[p].other
           e == NewEntry(u, v, "pending", req[p].began, FALSE)
<1>1. IsFiniteSet(log) /\ CeilingsKept /\ Reply(p) /\ now' = now
  BY DEF OutreachLedger, SendWrite
<1>2. CASE ~Insertable(conn, u, v)
  <2>1. log' = log
    BY <1>2 DEF SendWrite
  <2> QED
    BY <1>1, <2>1, OutreachWritten
<1>3. CASE Insertable(conn, u, v)
  <2>1. log' = log \cup {e}
    BY <1>3 DEF SendWrite
  <2>2. IsFiniteSet(log')
    BY <1>1, <2>1, FS_AddElement
  <2>3. e.from = u
    BY DEF NewEntry
  <2>4. CeilingsKept'
    BY <1>1, CeilingsReplies
  <2>5. ASSUME NEW w \in Users
        PROVE  Cardinality(Outreach(w)') + Cardinality(Counted(w)')
                 <= MaxCeiling - 1 + Cardinality(Procs)
    <3>1. Cardinality(Outreach(w)) + Cardinality(Counted(w))
            <= MaxCeiling - 1 + Cardinality(Procs)
      BY DEF OutreachLedger, Spoken
    <3>2. Counted(w)' = Counted(w) \ {p}
      BY <1>1, CountedReplies
    <3>3. CASE w # u
      <4>1. Outreach(w)' = Outreach(w)
        BY <1>1, <2>1, <2>3, <3>3 DEF Outreach, CreatedIn
      <4> QED
        BY <1>1, <3>1, <3>2, <4>1, CountedShrinks, CountedFinite,
           OutreachFinite, ProcCount, ConnectionsAssumption
           DEF ConnectionsAssumption
    <3>4. CASE w = u
      <4>1. p \in Counted(w)
        BY <3>4 DEF Counted, SendWrite, Writing
      <4>2. Cardinality(Counted(w)') = Cardinality(Counted(w)) - 1
        BY <3>2, <4>1, CountedFinite, FS_RemoveElement
      <4>3. Outreach(w)' \in SUBSET (Outreach(w) \cup {e})
        BY <1>1, <2>1 DEF Outreach, CreatedIn
      <4>4. /\ IsFiniteSet(Outreach(w) \cup {e})
            /\ Cardinality(Outreach(w) \cup {e}) <= Cardinality(Outreach(w)) + 1
        BY <1>1, OutreachFinite, OneMore
      <4>5. /\ Cardinality(Outreach(w)') \in Nat
            /\ Cardinality(Outreach(w)')
                 <= Cardinality(Outreach(w) \cup {e})
        BY <4>3, <4>4, FS_Subset, FS_CardinalityType
      <4>6. Cardinality(Outreach(w) \cup {e}) \in Nat
        BY <4>4, FS_CardinalityType
      <4> QED
        BY <1>1, <3>1, <4>2, <4>4, <4>5, <4>6, CountedFinite, OutreachFinite,
           ProcCount, ConnectionsAssumption DEF ConnectionsAssumption
    <3> QED
      BY <3>3, <3>4
  <2> QED
    BY <2>2, <2>4, <2>5 DEF OutreachLedger, Spoken
<1> QED
  BY <1>2, <1>3

LEMMA OutreachBegins ==
    ASSUME TypeOK, OutreachLedger, NEW p \in Procs, SendCeiling(p)
    PROVE  OutreachLedger'
<1>1. PICK a \in Live, b \in Users :
        req' = [req EXCEPT ![p] = [Idle EXCEPT !.op = "send", !.at = "count",
                                     !.actor = a, !.other = b, !.began = now,
                                     !.ceiling = CurrentCeiling(a)]]
  BY DEF SendCeiling
<1>2. CurrentCeiling(a) <= MaxCeiling
  BY ConnectionsAssumption DEF CurrentCeiling, ConnectionsAssumption
<1>3. CeilingsKept'
  BY <1>1, <1>2 DEF OutreachLedger, CeilingsKept, TypeOK, Idle
<1>4. \A u \in Users : Counted(u)' \subseteq Counted(u)
  BY <1>1 DEF Counted, TypeOK, Idle
<1> QED
  BY <1>3, <1>4, OutreachSteady DEF SendCeiling

LEMMA OutreachProceeds ==
    ASSUME TypeOK, OutreachLedger, NEW p \in Procs,
           SendCooldown(p) \/ SendPair(p)
    PROVE  OutreachLedger'
<1>1. CASE Reply(p)
  BY <1>1, OutreachWritten DEF SendCooldown, SendPair, Tables
<1>2. CASE \E step \in {"pair", "write"} :
             /\ Proceed(p, step)
             /\ req[p].op = "send" /\ req[p].at \in {"cooldown", "pair"}
  <2>1. CeilingsKept'
    BY <1>2 DEF OutreachLedger, CeilingsKept, Proceed, TypeOK, Request
  <2>2. \A u \in Users : Counted(u)' \subseteq Counted(u)
    BY <1>2 DEF Counted, Proceed, TypeOK, Request
  <2> QED
    BY <2>1, <2>2, OutreachSteady DEF SendCooldown, SendPair
<1> QED
  BY <1>1, <1>2 DEF SendCooldown, SendPair

LEMMA OutreachReads ==
    ASSUME TypeOK, OutreachLedger, NEW p \in Procs,
           Accept(p) \/ Withdraw(p) \/ Remove(p) \/ Block(p) \/ Unblock(p)
    PROVE  OutreachLedger'
<1>1. \E op \in Ops \ {"send"} : \E a, b, row : Read(p, op, a, b, row)
  BY DEF Accept, Withdraw, Remove, Block, Unblock, Ops
<1>2. UNCHANGED Tables
  BY <1>1 DEF Read
<1> QED
  BY <1>1, <1>2, ReadsLeave, OutreachSteady

LEMMA OutreachResolves ==
    ASSUME TypeOK, OutreachLedger, NEW p \in Procs,
           \/ AcceptWrite(p) \/ WithdrawWrite(p) \/ RemoveWrite(p)
           \/ BlockWrite(p) \/ UnblockWrite(p) \/ Rollback(p)
    PROVE  OutreachLedger'
<1>1. Reply(p) /\ now' = now
  BY DEF AcceptWrite, WithdrawWrite, RemoveWrite, BlockWrite, UnblockWrite,
         Rollback, Tables
<1>2. log' \subseteq log \/ \E a, b, o : log' = Resolve(a, b, o)
  BY DEF AcceptWrite, WithdrawWrite, RemoveWrite, BlockWrite, UnblockWrite,
         Rollback, Tables
<1> QED
  BY <1>1, <1>2, OutreachWritten

\* An invited signup writes an entry, and none that asked the throttle.
LEMMA OutreachInvites ==
    ASSUME TypeOK, OutreachLedger, NEW a, NEW b, SignupByInvite(a, b)
    PROVE  OutreachLedger'
<1> DEFINE e == NewEntry(b, a, "accepted", now, TRUE)
<1>1. IsFiniteSet(log) /\ CeilingsKept
  BY DEF OutreachLedger
<1>2. log' = log \cup {e} /\ UNCHANGED <<now, req>>
  BY DEF SignupByInvite
<1>3. IsFiniteSet(log')
  BY <1>1, <1>2, FS_AddElement
<1>4. e.invite
  BY DEF NewEntry
<1>5. \A u \in Users : Outreach(u)' = Outreach(u) /\ Counted(u)' = Counted(u)
  BY <1>2, <1>4 DEF Outreach, CreatedIn, Counted
<1>6. CeilingsKept'
  BY <1>1, <1>2 DEF CeilingsKept
<1> QED
  BY <1>1, <1>3, <1>5, <1>6, OutreachFinite, Subsiding

LEMMA OutreachAround ==
    ASSUME TypeOK, OutreachLedger,
           \/ \E u \in Users : Signup(u)
           \/ \E u \in Leavers : DeleteAccount(u)
           \/ NextDay
           \/ UNCHANGED vars
    PROVE  OutreachLedger'
<1>1. log' \subseteq log /\ req' = req /\ (now' = now \/ now' = now + 1)
  BY DEF Signup, DeleteAccount, NextDay, vars
<1>2. IsFiniteSet(log) /\ CeilingsKept
  BY DEF OutreachLedger
<1>3. CeilingsKept' /\ \A u \in Users : Counted(u)' = Counted(u)
  BY <1>1, <1>2 DEF CeilingsKept, Counted
<1> QED
  BY <1>1, <1>2, <1>3, OutreachShrinks, Subsiding

LEMMA OutreachStep ==
    ASSUME TypeOK, OutreachLedger, [Next]_vars
    PROVE  OutreachLedger'
<1>1. ASSUME NEW p \in Procs, Handler(p) PROVE OutreachLedger'
  BY <1>1, OutreachBegins, OutreachCounts, OutreachProceeds, OutreachInserts,
     OutreachReads, OutreachResolves DEF Handler
<1> QED
  BY <1>1, OutreachInvites, OutreachAround DEF Next

LEMMA OutreachBeginsEmpty == Init => OutreachLedger
<1> SUFFICES ASSUME Init PROVE OutreachLedger
  OBVIOUS
<1>1. \A u : Outreach(u) = {} /\ Counted(u) = {}
  BY DEF Init, Outreach, CreatedIn, Counted, Idle
<1>2. CeilingsKept /\ IsFiniteSet(log)
  BY FS_EmptySet DEF Init, CeilingsKept, Idle
<1> QED
  BY <1>1, <1>2, FS_EmptySet, ProcCount, ConnectionsAssumption
     DEF OutreachLedger, Spoken, ConnectionsAssumption

(* The unlocked count of connection_throttle.enforce overshoots the cap by *)
(* at most one request for each concurrent handler, whatever the ceiling   *)
(* and the window and however the handlers' reads and inserts interleave.  *)
THEOREM OutreachStaysBounded == Spec => []OutreachBounded
<1>1. OutreachLedger => OutreachBounded
  <2> SUFFICES ASSUME OutreachLedger, NEW u \in Users
               PROVE  Cardinality(Outreach(u))
                        <= MaxCeiling - 1 + Cardinality(Procs)
    BY DEF OutreachBounded
  <2> QED
    BY CountedFinite, OutreachFinite, ProcCount, ConnectionsAssumption
       DEF OutreachLedger, Spoken, ConnectionsAssumption
<1> QED
  BY <1>1, OutreachBeginsEmpty, OutreachStep, Typed, PTL DEF Spec
=============================================================================
