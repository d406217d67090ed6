---------------------------- MODULE Connections ----------------------------
(***************************************************************************)
(* The social graph of TV Binge Friend: the rows of app.connection, the    *)
(* ledger app.connection_request_log, and every HTTP handler that writes   *)
(* them.                                                                   *)
(*                                                                         *)
(* A handler is one READ COMMITTED transaction: its SELECTs see what is    *)
(* committed when each runs, and its writes commit together at the end.    *)
(* So a request is a process that reads in one or several steps, keeps     *)
(* what it read in req[p], and writes in its last step from that possibly  *)
(* stale copy.  Anything may commit in between.                            *)
(*                                                                         *)
(* Time is counted in days, the unit of the windows of the throttle.       *)
(***************************************************************************)
EXTENDS Integers, FiniteSets

CONSTANTS
    Users,           \* accounts that may ever exist
    Newcomers,       \* those that sign up during the behaviour
    Leavers,         \* bound: those that may delete their account
    Procs,           \* concurrent request handlers
    NoUser,          \* the actor of an idle handler
    MaxCeiling,      \* connection_request_throttle_max
    FloorCeiling,    \* connection_request_throttle_floor
    WindowDays,      \* connection_request_throttle_window_minutes, in days
    MinSample,       \* connection_request_reputation_min_sample
    AdversePercent,  \* connection_request_adverse_percent
    ReputationDays,  \* connection_request_reputation_window_days
    IgnoredDays,     \* connection_request_ignored_after_days
    CooldownDays,    \* connection_request_decline_cooldown_days
    MaxConn,         \* bound: connection rows ever inserted
    MaxLog,          \* bound: ledger rows ever inserted
    MaxTime          \* bound: days that pass

ASSUME ConnectionsAssumption ==
    /\ Newcomers \subseteq Users
    /\ Leavers \subseteq Users
    /\ NoUser \notin Users
    /\ IsFiniteSet(Procs)
    /\ MaxCeiling \in Nat \ {0}
    /\ FloorCeiling \in 0 .. MaxCeiling
    /\ {WindowDays, MinSample, AdversePercent, ReputationDays, IgnoredDays,
        CooldownDays, MaxConn, MaxLog, MaxTime} \subseteq Nat

VARIABLES
    account,   \* account[u]: has u signed up, is it live, was it deleted
    conn,      \* the rows of app.connection
    log,       \* the rows of app.connection_request_log
    nextConn,  \* the next fresh connection id
    nextLog,   \* the next fresh ledger id
    now,       \* the day
    req        \* req[p]: the request handler p is serving

vars == <<account, conn, log, nextConn, nextLog, now, req>>

Live == {u \in Users : account[u] = "live"}

ConnStates == {"pending", "accepted", "blocked"}
Outcomes == {"pending", "accepted", "declined", "cancelled", "blocked"}
Ops == {"idle", "send", "accept", "withdraw", "remove", "block", "unblock"}
Steps == {"idle", "count", "cooldown", "pair", "write"}

Row == [id : Nat, from : Users, to : Users, state : ConnStates]

\* What find_pair and get return when there is no row.
NoRow == [id |-> 0, from |-> NoUser, to |-> NoUser, state |-> "none"]

\* created is the day the handler's transaction began, which is what now()
\* gives the column.  resolved is 0, for NULL, until the outcome is terminal.
\* invite is not a column: it tells the rows signup writes from those
\* send_request writes.
Entry == [id : Nat, from : Users, to : Users, outcome : Outcomes,
          created : Nat, resolved : Nat, invite : BOOLEAN]

Request == [op : Ops, at : Steps, actor : Users \cup {NoUser},
            other : Users \cup {NoUser}, seen : Row \cup {NoRow},
            began : Nat, ceiling : Nat]

Idle == [op |-> "idle", at |-> "idle", actor |-> NoUser, other |-> NoUser,
         seen |-> NoRow, began |-> 0, ceiling |-> 0]

Init ==
    /\ account = [u \in Users |-> IF u \in Newcomers THEN "none" ELSE "live"]
    /\ conn = {}
    /\ log = {}
    /\ nextConn = 1
    /\ nextLog = 1
    /\ now = 0
    /\ req = [p \in Procs |-> Idle]

-----------------------------------------------------------------------------
(* Queries                                                                 *)

IsPair(r, u, v) == \/ r.from = u /\ r.to = v
                   \/ r.from = v /\ r.to = u

\* connection_repo.find_pair: the row of the unordered pair, if any.
PairRows(u, v) == {r \in conn : IsPair(r, u, v)}
FindPair(u, v) == IF PairRows(u, v) = {} THEN NoRow
                  ELSE CHOOSE r \in PairRows(u, v) : TRUE

\* connection_request_log_repo.count_created_since: all outcomes count.
CreatedIn(u, days) == {e \in log : e.from = u /\ e.created >= now - days}

\* connection_request_log_repo.reputation_counts
Accepted(u) == {e \in CreatedIn(u, ReputationDays) : e.outcome = "accepted"}
Ignored(e) == e.outcome = "pending" /\ e.created < now - IgnoredDays
Adverse(u) == {e \in CreatedIn(u, ReputationDays) :
                  e.outcome \in {"declined", "blocked"} \/ Ignored(e)}

\* connection_throttle.current_ceiling
Demoted(u) ==
    LET adverse == Cardinality(Adverse(u))
        sample == Cardinality(Accepted(u)) + adverse
    IN sample >= MinSample /\ adverse * 100 >= sample * AdversePercent
CurrentCeiling(u) == IF Demoted(u) THEN FloorCeiling ELSE MaxCeiling

\* connection_request_log_repo.has_decline_since, over the cooldown
DeclinedRecently(u, v) ==
    \E e \in log : /\ e.from = u /\ e.to = v
                   /\ e.outcome = "declined"
                   /\ e.resolved >= now - CooldownDays

\* Mutant: the ledger is not resolved.
ResolveForgotten(u, v, outcome) == log

\* connection_request_log_repo.resolve: every pending row of the ordered pair
Resolve(u, v, outcome) ==
    {IF e.from = u /\ e.to = v /\ e.outcome = "pending"
     THEN [e EXCEPT !.outcome = outcome, !.resolved = now]
     ELSE e : e \in log}

NewRow(u, v, state) == [id |-> nextConn, from |-> u, to |-> v, state |-> state]

NewEntry(u, v, outcome, began, invite) ==
    [id |-> nextLog, from |-> u, to |-> v, outcome |-> outcome,
     created |-> began, resolved |-> IF outcome = "pending" THEN 0 ELSE now,
     invite |-> invite]

\* The foreign keys and uq_connection_unordered_pair, on the rows as they
\* will be once the transaction's own deletes are done.
Insertable(rows, u, v) ==
    /\ {u, v} \subseteq Live
    /\ \A r \in rows : ~IsPair(r, u, v)

ById(id) == {r \in conn : r.id = id}

-----------------------------------------------------------------------------
(* What a step of handler p does to the rest of the state                  *)

Tables == <<account, conn, log, nextConn, nextLog, now>>

Reply(p) == req' = [req EXCEPT ![p] = Idle]

\* The next SELECT of p found nothing to refuse.
Proceed(p, step) == req' = [req EXCEPT ![p].at = step]

\* A handler whose reads are one SELECT goes straight to its writes.
Read(p, op, u, v, row) ==
    /\ req[p] = Idle
    /\ req' = [req EXCEPT ![p] = [Idle EXCEPT !.op = op, !.at = "write",
                                 !.actor = u, !.other = v, !.seen = row]]
    /\ UNCHANGED Tables

Writing(p, op) == req[p].op = op /\ req[p].at = "write"

-----------------------------------------------------------------------------
(* POST /connection-requests                                               *)

\* connection_throttle.enforce, first half: which ceiling applies
SendCeiling(p) ==
    /\ req[p] = Idle
    /\ \E u \in Live, v \in Users :
         req' = [req EXCEPT ![p] = [Idle EXCEPT !.op = "send", !.at = "count",
                                      !.actor = u, !.other = v, !.began = now,
                                      !.ceiling = CurrentCeiling(u)]]
    /\ UNCHANGED Tables

\* Mutant: the requests of the window are not counted.
SendUncounted(p) ==
    /\ req[p].op = "send" /\ req[p].at = "count"
    /\ Proceed(p, "cooldown")
    /\ UNCHANGED Tables

\* connection_throttle.enforce, second half: 429 at the ceiling
SendCount(p) ==
    /\ req[p].op = "send" /\ req[p].at = "count"
    /\ IF Cardinality(CreatedIn(req[p].actor, WindowDays)) >= req[p].ceiling
       THEN Reply(p)
       ELSE Proceed(p, "cooldown")
    /\ UNCHANGED Tables

\* connection_throttle.enforce_decline_cooldown: 409 inside the cooldown
SendCooldown(p) ==
    /\ req[p].op = "send" /\ req[p].at = "cooldown"
    /\ IF DeclinedRecently(req[p].actor, req[p].other)
       THEN Reply(p)
       ELSE Proceed(p, "pair")
    /\ UNCHANGED Tables

\* 404 without an addressee, 400 for oneself, 409 when the pair has a row
SendPair(p) ==
    /\ req[p].op = "send" /\ req[p].at = "pair"
    /\ LET u == req[p].actor
           v == req[p].other
       IN IF v \in Live /\ u # v /\ FindPair(u, v) = NoRow
          THEN Proceed(p, "write")
          ELSE Reply(p)
    /\ UNCHANGED Tables

\* connection_service.send_request: the row and its ledger entry, or neither
SendWrite(p) ==
    /\ Writing(p, "send")
    /\ LET u == req[p].actor
           v == req[p].other
       IN IF Insertable(conn, u, v)
          THEN /\ nextConn <= MaxConn /\ nextLog <= MaxLog
               /\ conn' = conn \cup {NewRow(u, v, "pending")}
               /\ log' = log \cup
                     {NewEntry(u, v, "pending", req[p].began, FALSE)}
               /\ nextConn' = nextConn + 1
               /\ nextLog' = nextLog + 1
          ELSE UNCHANGED <<conn, log, nextConn, nextLog>>
    /\ Reply(p)
    /\ UNCHANGED <<account, now>>

-----------------------------------------------------------------------------
(* POST /connection-requests/{id}/accept                                   *)

\* Mutant: the requester may accept too.
AcceptByEither(p) ==
    \E r \in conn, u \in Live :
        /\ r.state = "pending"
        /\ u \in {r.from, r.to}
        /\ Read(p, "accept", u, r.from, r)

Accept(p) ==
    \E r \in conn :
        /\ r.state = "pending"
        /\ r.to \in Live
        /\ Read(p, "accept", r.to, r.from, r)

\* The UPDATE is by id and does not look at the state again; a row that is
\* gone makes the re-SELECT raise, which rolls back.
AcceptWrite(p) ==
    /\ Writing(p, "accept")
    /\ LET seen == req[p].seen
       IN IF ById(seen.id) # {}
          THEN /\ conn' = {IF r.id = seen.id
                           THEN [r EXCEPT !.state = "accepted"]
                           ELSE r : r \in conn}
               /\ log' = Resolve(seen.from, seen.to, "accepted")
          ELSE UNCHANGED <<conn, log>>
    /\ Reply(p)
    /\ UNCHANGED <<account, nextConn, nextLog, now>>

-----------------------------------------------------------------------------
(* DELETE /connection-requests/{id}: decline or cancel                     *)

Withdraw(p) ==
    \E r \in conn, u \in Live :
        /\ r.state = "pending"
        /\ u \in {r.from, r.to}
        /\ Read(p, "withdraw", u, IF u = r.to THEN r.from ELSE r.to, r)

\* The DELETE is by id, whatever the row has become, and the ledger is
\* resolved whether or not the DELETE found it.
WithdrawWrite(p) ==
    /\ Writing(p, "withdraw")
    /\ LET seen == req[p].seen
       IN /\ conn' = conn \ ById(seen.id)
          /\ log' = Resolve(seen.from, seen.to,
                            IF req[p].actor = seen.to
                            THEN "declined" ELSE "cancelled")
    /\ Reply(p)
    /\ UNCHANGED <<account, nextConn, nextLog, now>>

-----------------------------------------------------------------------------
(* DELETE /me/connections/{user}                                           *)

\* Mutant: the row is found, whatever its status.
RemoveAny(p) ==
    \E u \in Live, v \in Users :
        /\ FindPair(u, v) # NoRow
        /\ Read(p, "remove", u, v, FindPair(u, v))

Remove(p) ==
    \E u \in Live, v \in Users :
        /\ FindPair(u, v).state = "accepted"
        /\ Read(p, "remove", u, v, FindPair(u, v))

\* Unfriending leaves the ledger alone.
RemoveWrite(p) ==
    /\ Writing(p, "remove")
    /\ conn' = conn \ ById(req[p].seen.id)
    /\ Reply(p)
    /\ UNCHANGED <<account, log, nextConn, nextLog, now>>

-----------------------------------------------------------------------------
(* POST /me/blocks/{user}                                                  *)

Block(p) ==
    \E u, v \in Live :
        /\ u # v
        /\ Read(p, "block", u, v, FindPair(u, v))

\* Replace whatever was read by a blocked row whose from is the blocker.  A
\* pending request is resolved by who blocks: the addressee records blocked,
\* the requester withdrew.  A row inserted since makes the INSERT violate
\* the unique index, which rolls the whole transaction back.
BlockWrite(p) ==
    /\ Writing(p, "block")
    /\ LET u == req[p].actor
           v == req[p].other
           seen == req[p].seen
           rest == conn \ ById(seen.id)
       IN IF Insertable(rest, u, v)
          THEN /\ nextConn <= MaxConn
               /\ conn' = rest \cup {NewRow(u, v, "blocked")}
               /\ nextConn' = nextConn + 1
               /\ log' = IF seen.state = "pending"
                         THEN Resolve(seen.from, seen.to,
                                      IF u = seen.to
                                      THEN "blocked" ELSE "cancelled")
                         ELSE log
          ELSE UNCHANGED <<conn, log, nextConn>>
    /\ Reply(p)
    /\ UNCHANGED <<account, nextLog, now>>

-----------------------------------------------------------------------------
(* DELETE /me/blocks/{user}                                                *)

Unblock(p) ==
    \E u \in Live, v \in Users :
        /\ FindPair(u, v).state = "blocked"
        /\ FindPair(u, v).from = u
        /\ Read(p, "unblock", u, v, FindPair(u, v))

UnblockWrite(p) ==
    /\ Writing(p, "unblock")
    /\ conn' = conn \ ById(req[p].seen.id)
    /\ Reply(p)
    /\ UNCHANGED <<account, log, nextConn, nextLog, now>>

-----------------------------------------------------------------------------
(* Around the handlers                                                     *)

\* account_service.signup with an invite: the inviter is a friend at once,
\* and the ledger records a request already accepted.  No throttle is asked.
\* Without an inviter, an account and nothing else.
Signup(u) ==
    /\ account[u] = "none"
    /\ account' = [account EXCEPT ![u] = "live"]
    /\ UNCHANGED <<conn, log, nextConn, nextLog, now, req>>

SignupByInvite(u, inviter) ==
    /\ account[u] = "none"
    /\ account[inviter] = "live"
    /\ nextConn <= MaxConn /\ nextLog <= MaxLog
    /\ account' = [account EXCEPT ![u] = "live"]
    /\ conn' = conn \cup {NewRow(inviter, u, "accepted")}
    /\ log' = log \cup {NewEntry(inviter, u, "accepted", now, TRUE)}
    /\ nextConn' = nextConn + 1
    /\ nextLog' = nextLog + 1
    /\ UNCHANGED <<now, req>>

\* account_service.delete_account: both foreign keys of both tables cascade.
DeleteAccount(u) ==
    /\ account[u] = "live"
    /\ account' = [account EXCEPT ![u] = "gone"]
    /\ conn' = {r \in conn : u \notin {r.from, r.to}}
    /\ log' = {e \in log : u \notin {e.from, e.to}}
    /\ UNCHANGED <<nextConn, nextLog, now, req>>

\* A handler dies with its transaction: a lost connection, or the victim of
\* a deadlock between BlockWrite (ledger, then connection) and AcceptWrite or
\* WithdrawWrite (connection, then ledger).
Rollback(p) ==
    /\ req[p] # Idle
    /\ Reply(p)
    /\ UNCHANGED Tables

NextDay ==
    /\ now < MaxTime
    /\ now' = now + 1
    /\ UNCHANGED <<account, conn, log, nextConn, nextLog, req>>

Handler(p) ==
    \/ SendCeiling(p) \/ SendCount(p) \/ SendCooldown(p)
    \/ SendPair(p) \/ SendWrite(p)
    \/ Accept(p) \/ AcceptWrite(p)
    \/ Withdraw(p) \/ WithdrawWrite(p)
    \/ Remove(p) \/ RemoveWrite(p)
    \/ Block(p) \/ BlockWrite(p)
    \/ Unblock(p) \/ UnblockWrite(p)
    \/ Rollback(p)

Next ==
    \/ \E p \in Procs : Handler(p)
    \/ \E u \in Users : Signup(u)
    \/ \E u, v \in Users : SignupByInvite(u, v)
    \/ \E u \in Leavers : DeleteAccount(u)
    \/ NextDay

Spec == Init /\ [][Next]_vars

-----------------------------------------------------------------------------
(* Properties                                                              *)

(* Every variable has its type: accounts, the two tables, the two id       *)
(* sequences, the day and the in-flight requests of connection_service.    *)
TypeOK ==
    /\ account \in [Users -> {"none", "live", "gone"}]
    /\ conn \subseteq Row
    /\ log \subseteq Entry
    /\ nextConn \in Nat \ {0}
    /\ nextLog \in Nat \ {0}
    /\ now \in Nat
    /\ req \in [Procs -> Request]

(* A connection id, once handed out, names one request between one pair.   *)
UniqueIds ==
    /\ \A r \in conn : r.id # 0 /\ r.id < nextConn
    /\ \A r, s \in conn : r.id = s.id => r = s

(* How stale a handler's copy of a row may be: whatever was committed      *)
(* since the read, the id still names that request of that pair, a row     *)
(* that was not pending is not pending now, and one that was not a block   *)
(* is no block now.  Every write by id leans on this.                      *)
Fits(rq) ==
    /\ rq.seen # NoRow => /\ rq.seen.id < nextConn
                          /\ IsPair(rq.seen, rq.actor, rq.other)
    /\ \A r \in ById(rq.seen.id) :
          /\ r.from = rq.seen.from /\ r.to = rq.seen.to
          /\ rq.seen.state # "pending" => r.state # "pending"
          /\ rq.seen.state # "blocked" => r.state # "blocked"
    /\ rq.op = "accept" => rq.seen.state = "pending" /\ rq.seen.to = rq.actor
    /\ rq.op = "withdraw" => rq.seen.state = "pending"
    /\ rq.op = "remove" => rq.seen.state = "accepted"
    /\ rq.op = "unblock" => rq.seen.state = "blocked" /\ rq.seen.from = rq.actor
SeenFits == \A p \in Procs : Fits(req[p])

(* A ledger entry is pending only while the request it records is: what    *)
(* reputation_counts ages into "ignored" is a request still in an inbox.   *)
(* Accept, decline, cancel, block and unfriend may all overlap.            *)
PendingEntryIsLive ==
    \A e \in log : e.outcome = "pending" =>
        \E r \in conn : r.from = e.from /\ r.to = e.to /\ r.state = "pending"

(* An ordered pair has at most one pending ledger entry: the premise on    *)
(* which resolve updates by pair rather than by request id.                *)
OnePendingEntry ==
    \A d, e \in log :
        d.outcome = "pending" /\ e.outcome = "pending"
        /\ d.from = e.from /\ d.to = e.to => d = e

(* Outreach is bounded by concurrency: handlers that count before others   *)
(* insert can overshoot the daily cap by one each, and no more, as         *)
(* connection_throttle.enforce says of the unlocked count.  Invited        *)
(* signups ask no throttle and are not counted.                            *)
Outreach(u) == {e \in CreatedIn(u, WindowDays) : ~e.invite}
OutreachBounded ==
    \A u \in Users :
        Cardinality(Outreach(u)) <= MaxCeiling - 1 + Cardinality(Procs)

(* Outcomes are terminal: no step changes a ledger entry that has one; an  *)
(* account deletion removes it with the account.                           *)
OutcomesTerminal ==
    [][\A e \in log :
          e.outcome # "pending" /\ account'[e.from] = "live"
                                /\ account'[e.to] = "live"
          => e \in log']_vars

(* Friendship takes consent: a connection becomes accepted only when its   *)
(* addressee accepts a request that was still pending, or joins on the     *)
(* requester's invite.  A request cancelled or blocked between the read    *)
(* and the write of accept does not come back as a friendship.             *)
AcceptedByConsent ==
    [][\A r \in conn' :
          r.state = "accepted" /\ r \notin conn =>
             \/ /\ [r EXCEPT !.state = "pending"] \in conn
                /\ \E p \in Procs : Writing(p, "accept") /\ req[p].actor = r.to
             \/ account[r.to] = "none"]_vars

(* A block is a wall: the row goes only when its blocker unblocks, when    *)
(* the other party puts up a block in its place, or with an account.  No   *)
(* request sent or accepted concurrently gets through it.                  *)
BlockIsWall ==
    [][\A r \in conn :
          r.state = "blocked" /\ r \notin conn' =>
             \/ \E u \in {r.from, r.to} : account'[u] # "live"
             \/ \E p \in Procs : Writing(p, "unblock") /\ req[p].actor = r.from
             \/ \E b \in conn' : b.state = "blocked" /\ b.from = r.to
                                 /\ b.to = r.from
             \/ \E b \in conn' : b.state = "blocked" /\ b.from = r.from
                                 /\ b.to = r.to]_vars

=============================================================================
