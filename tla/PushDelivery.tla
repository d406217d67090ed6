---------------------------- MODULE PushDelivery ----------------------------
(***************************************************************************)
(* Web Push delivery: app.push_subscription, the delivery log              *)
(* app.push_delivery, the scheduled runs of the two delivery tasks, the    *)
(* synchronous test push, and the users who subscribe and leave meanwhile. *)
(*                                                                         *)
(* A send is two transactions with the push between them: the claim        *)
(* commits a pending row, the push leaves, the outcome is recorded.        *)
(* Between any two of them the process may die, another run may claim, the *)
(* user may unsubscribe, and the device may change hands.                  *)
(*                                                                         *)
(* Runs overlap freely: the two tasks never wait for each other, and the   *)
(* guard against two runs of one kind reads before it writes.              *)
(*                                                                         *)
(* Time is counted in hours.  A delivery row's id is the pair it was first *)
(* inserted for, which stays its identity when the subscription goes and   *)
(* its subscription_id is set to NULL (linked = FALSE).                    *)
(***************************************************************************)
EXTENDS Integers, FiniteSets

CONSTANTS
    Users,          \* accounts
    Endpoints,      \* push service URLs, one per browser
    Notes,          \* notification keys the two tasks select
    TestNotes,      \* keys of test pushes: a device and a second
    EventRuns,      \* runs of the events task, which also purges
    OtherRuns,      \* runs of the airs-today task
    Tests,          \* concurrent handlers of POST /me/push/test
    Joins,          \* concurrent handlers of POST /me/push/subscriptions
    None,           \* no user, no endpoint
    FailureLimit,   \* FAILURE_LIMIT
    StalePending,   \* STALE_PENDING, in hours
    Window,         \* push_event_window_hours: how long a key is selected
    Retention,      \* RETENTION, in hours
    RunSpan,        \* hours a run takes at most
    TestMax,        \* push_test_throttle_max
    TestWindow,     \* push_test_throttle_window_minutes, in hours
    MaxSub,         \* bound: subscriptions ever inserted
    MaxTime         \* bound: hours that pass

Runs == EventRuns \cup OtherRuns
Workers == Runs \cup Tests

ASSUME PushAssumption ==
    /\ EventRuns \cap OtherRuns = {} /\ Runs \cap Tests = {}
    /\ Notes \cap TestNotes = {}
    /\ None \notin Users \cup Endpoints
    /\ FailureLimit \in Nat \ {0}
    /\ {StalePending, Window, Retention, RunSpan, TestMax, TestWindow, MaxSub,
        MaxTime} \subseteq Nat
    /\ Window + RunSpan <= Retention

VARIABLES
    accounts, \* the accounts that exist
    subs,     \* the rows of app.push_subscription
    rows,     \* the rows of app.push_delivery
    nextSub,  \* the next fresh subscription id
    now,      \* the hour
    work,     \* work[w]: where worker w is
    join,     \* join[h]: where subscribing handler h is
    told      \* every pair a run recorded sent, the purged ones included

vars == <<accounts, subs, rows, nextSub, now, work, join, told>>
people == <<accounts, join>>

Subscription == [id : 1 .. MaxSub, user : Users, endpoint : Endpoints,
                 fails : 0 .. FailureLimit - 1]
Delivery == [note : Notes \cup TestNotes, sub : 1 .. MaxSub, user : Users,
             linked : BOOLEAN, status : {"pending", "sent", "failed"},
             at : Nat, by : Workers]
Item == [note : Notes \cup TestNotes, sub : 1 .. MaxSub]
NoItem == [note |-> None, sub |-> 0]

Phases == {"new", "claim", "send", "final", "done", "dead"}
Verdicts == {"none", "succeeded", "every_send_failed"}

\* todo: the selected (user, note) pairs of users not yet reached.  user and
\* pairs: the one being served, with the subscriptions read for it.  The
\* counters of DeliveryCounts matter only to the outcome rule, so sentAny and
\* outage stand for sent > 0 and failed > gone.
Worker == [at : Phases, began : Nat, todo : SUBSET (Users \X Notes),
           user : Users \cup {None}, pairs : SUBSET Item,
           item : Item \cup {NoItem}, sentAny : BOOLEAN, outage : BOOLEAN,
           verdict : Verdicts]

Fresh == [at |-> "new", began |-> 0, todo |-> {}, user |-> None, pairs |-> {},
          item |-> NoItem, sentAny |-> FALSE, outage |-> FALSE, verdict |-> "none"]

\* A subscribing handler past its DELETE: the rows of others it deletes.
Idle == [user |-> None, endpoint |-> None, doomed |-> {}]
Joining == [user : Users, endpoint : Endpoints, doomed : SUBSET (1 .. MaxSub)]
           \cup {Idle}

\* What is left of a run that returned or died; a test handler serves again.
Ended(how, verdict) == [Fresh EXCEPT !.at = how, !.verdict = verdict]

Init ==
    /\ accounts = Users
    /\ subs = {}
    /\ rows = {}
    /\ nextSub = 1
    /\ now = 0
    /\ work = [w \in Workers |-> Fresh]
    /\ join = [h \in Joins |-> Idle]
    /\ told = {}

-----------------------------------------------------------------------------
(* Queries and updates                                                     *)

SubIds == {s.id : s \in subs}
OfUser(u) == {s \in subs : s.user = u}
ById(id) == {s \in subs : s.id = id}
RowOf(item) == {d \in rows : d.note = item.note /\ d.sub = item.sub}

NewDelivery(item, u, w) ==
    [note |-> item.note, sub |-> item.sub, user |-> u, linked |-> TRUE,
     status |-> "pending", at |-> now, by |-> w]

\* push_subscription_repo.delete and its kin: the rows stay, unlinked.
Unlink(ids) == {IF d.sub \in ids THEN [d EXCEPT !.linked = FALSE] ELSE d
                : d \in rows}

\* claim_for_run's upsert: the pair's row starts over.
Reclaim(item, u, w) == (rows \ RowOf(item)) \cup {NewDelivery(item, u, w)}

\* push_delivery_repo.finish: only a pending row takes its outcome.
Finish(log, item, status) ==
    {IF d.note = item.note /\ d.sub = item.sub /\ d.status = "pending"
     THEN [d EXCEPT !.status = status] ELSE d : d \in log}

SetFails(id, n) == {IF s.id = id THEN [s EXCEPT !.fails = n] ELSE s : s \in subs}

\* Mutant: a pending row is stale as soon as it is written.
ClaimableFresh(d) == \/ d.status = "failed"
                     \/ d.status = "pending" /\ d.at <= now - StalePending

\* Mutant: age alone makes a row claimable again.
ClaimableOld(d) == d.status = "failed" \/ d.at < now - StalePending

\* claim_for_run's ON CONFLICT ... WHERE: failed, or pending and stale.
Claimable(d) == \/ d.status = "failed"
                \/ d.status = "pending" /\ d.at < now - StalePending

InFlight(w) == work[w].at = "send"

Drop(pairs, id) == {i \in pairs : i.sub # id}

-----------------------------------------------------------------------------
(* A delivery run                                                          *)

\* run_push_delivery: gather the notes still in their window, for users with
\* a device.  Preferences, muting and the daily cap choose among them.
Gather(r) ==
    /\ work[r].at = "new"
    /\ \E chosen \in SUBSET ({s.user : s \in subs}
                              \X {n \in Notes : now <= Window}) :
         work' = [work EXCEPT ![r].at = "claim", ![r].began = now,
                              ![r].todo = chosen]
    /\ UNCHANGED <<people, subs, rows, nextSub, now, told>>

\* What a run has to send to one user: the notes it selected, on each of the
\* devices read once for all of them.
PairsFor(u, todo) == {[note |-> t[2], sub |-> s.id] :
                      t \in {x \in todo : x[1] = u}, s \in OfUser(u)}

\* _deliver_to_user: read the user's subscriptions once, then send to each.
NextUser(r) ==
    /\ work[r].at = "claim" /\ work[r].pairs = {}
    /\ \E u \in {t[1] : t \in work[r].todo} :
         work' = [work EXCEPT
           ![r].user = u, ![r].todo = {t \in @ : t[1] # u},
           ![r].pairs = PairsFor(u, work[r].todo)]
    /\ UNCHANGED <<people, subs, rows, nextSub, now, told>>

\* _deliver_one, first transaction.  A subscription that is gone fails the
\* foreign key, and the run stops sending to it.
Claim(r) ==
    /\ work[r].at = "claim"
    /\ \E item \in work[r].pairs :
         \/ /\ item.sub \notin SubIds
            /\ work' = [work EXCEPT ![r].pairs = Drop(@, item.sub)]
            /\ UNCHANGED rows
         \/ /\ item.sub \in SubIds
            /\ \E d \in RowOf(item) : ~Claimable(d)
            /\ work' = [work EXCEPT ![r].pairs = @ \ {item}]
            /\ UNCHANGED rows
         \/ /\ item.sub \in SubIds
            /\ \A d \in RowOf(item) : Claimable(d)
            /\ rows' = Reclaim(item, work[r].user, r)
            /\ work' = [work EXCEPT ![r].at = "send", ![r].item = item,
                                    ![r].pairs = @ \ {item}]
    /\ UNCHANGED <<people, subs, nextSub, now, told>>

Recorded(r) == [work[r] EXCEPT !.at = "claim", !.item = NoItem]

\* The loops over users, candidates and devices are done.
AllSent(r) == work[r].at = "claim" /\ work[r].pairs = {} /\ work[r].todo = {}

\* The push leaves with no transaction open.  The push service accepts it,
\* answers 404 or 410, or fails, which may be a timeout after it was accepted;
\* the second transaction of _deliver_one follows.  On a 2xx:
RecordSent(r) ==
    /\ work[r].at = "send"
    /\ rows' = Finish(rows, work[r].item, "sent")
    /\ subs' = SetFails(work[r].item.sub, 0)
    /\ work' = [work EXCEPT ![r] = [Recorded(r) EXCEPT !.sentAny = TRUE]]
    /\ told' = told \cup {work[r].item}
    /\ UNCHANGED <<people, nextSub, now>>

\* On a 404 or 410: retire the subscription at once.
RecordGone(r) ==
    /\ work[r].at = "send"
    /\ LET id == work[r].item.sub
       IN /\ rows' = Finish(Unlink({id}), work[r].item, "failed")
          /\ subs' = subs \ ById(id)
          /\ work' = [work EXCEPT ![r] = [Recorded(r) EXCEPT
                                            !.pairs = Drop(@, id)]]
    /\ UNCHANGED <<people, nextSub, now, told>>

AtLimit(n) == n >= FailureLimit

\* On any other failure: count it, and retire the subscription at the limit.
\* A subscription its user deleted mid-send is not sent to again either.
RecordFailed(r) ==
    /\ work[r].at = "send"
    /\ LET id == work[r].item.sub
           record(pairs) == [Recorded(r) EXCEPT !.pairs = pairs, !.outage = TRUE]
       IN \/ /\ id \notin SubIds
             /\ rows' = Finish(rows, work[r].item, "failed")
             /\ subs' = subs
             /\ work' = [work EXCEPT ![r] = record(Drop(work[r].pairs, id))]
          \/ \E s \in ById(id) :
               IF AtLimit(s.fails + 1)
               THEN /\ rows' = Finish(Unlink({id}), work[r].item, "failed")
                    /\ subs' = subs \ {s}
                    /\ work' = [work EXCEPT ![r] = record(Drop(work[r].pairs, id))]
               ELSE /\ rows' = Finish(rows, work[r].item, "failed")
                    /\ subs' = SetFails(id, s.fails + 1)
                    /\ work' = [work EXCEPT ![r] = record(work[r].pairs)]
    /\ UNCHANGED <<people, nextSub, now, told>>

\* The events task deletes the rows older than the retention, by the clock the
\* run began on.
Purge(r) ==
    /\ r \in EventRuns /\ AllSent(r)
    /\ rows' = {d \in rows : d.at >= work[r].began - Retention}
    /\ work' = [work EXCEPT ![r].at = "final"]
    /\ UNCHANGED <<people, subs, nextSub, now, told>>

\* The outcome rule: a 404 or 410 is the push service answering.
EverySendFailed(r) == work[r].outage /\ ~work[r].sentAny

\* run_push_delivery_job: failed only when every send failed.
Finalize(r) ==
    /\ \/ work[r].at = "final"
       \/ r \in OtherRuns /\ AllSent(r)
    /\ work' = [work EXCEPT ![r] = Ended("done",
                   IF EverySendFailed(r) THEN "every_send_failed" ELSE "succeeded")]
    /\ UNCHANGED <<people, subs, rows, nextSub, now, told>>

\* The process dies, or an exception out of the loop ends the run failed: what
\* is committed stays, what was in memory is lost.
Crash(w) ==
    /\ work[w].at \notin {"new", "done", "dead"}
    /\ work' = [work EXCEPT ![w] = IF w \in Runs THEN Ended("dead", "none") ELSE Fresh]
    /\ UNCHANGED <<people, subs, rows, nextSub, now, told>>

-----------------------------------------------------------------------------
(* A test push                                                             *)

\* count_for_user_since: the tests logged in the window that ends at h, whatever
\* became of them and of their device.
TestsLogged(u, h) ==
    Cardinality({d \in rows : /\ d.user = u /\ d.note \in TestNotes
                              /\ h - TestWindow <= d.at /\ d.at <= h})

\* send_test_push: the count over the window, then the caller's subscription.
\* A spent budget (429) or another's device (404) ends the request unseen.
TestRead(t) ==
    /\ work[t].at = "new"
    /\ \E u \in accounts : \E s \in OfUser(u) :
         /\ TestsLogged(u, now) < TestMax
         /\ work' = [work EXCEPT ![t].at = "claim", ![t].began = now,
              ![t].user = u, ![t].pairs = {[note |-> m, sub |-> s.id] : m \in TestNotes}]
    /\ UNCHANGED <<people, subs, rows, nextSub, now, told>>

\* insert_pending: the key is the device and the second, so a taken one is a
\* double click; a subscription gone by now fails its foreign key.
TestClaim(t) ==
    /\ work[t].at = "claim"
    /\ \E item \in work[t].pairs :
         IF item.sub \in SubIds /\ RowOf(item) = {}
         THEN /\ rows' = rows \cup {NewDelivery(item, work[t].user, t)}
              /\ work' = [work EXCEPT ![t].at = "send", ![t].item = item,
                                      ![t].pairs = {}]
         ELSE /\ work' = [work EXCEPT ![t] = Fresh]
              /\ rows' = rows
    /\ UNCHANGED <<people, subs, nextSub, now, told>>

\* The outcome of a test: a failure is not counted against the device.
TestRecord(t) ==
    /\ work[t].at = "send"
    /\ LET item == work[t].item
       IN \/ /\ rows' = Finish(rows, item, "sent")
             /\ subs' = SetFails(item.sub, 0)
          \/ /\ rows' = Finish(Unlink({item.sub}), item, "failed")
             /\ subs' = subs \ ById(item.sub)
          \/ /\ rows' = Finish(rows, item, "failed")
             /\ subs' = subs
    /\ work' = [work EXCEPT ![t] = Fresh]
    /\ UNCHANGED <<people, nextSub, now, told>>

-----------------------------------------------------------------------------
(* The users                                                               *)

\* push_subscription_repo.upsert, first statement: delete the rows other users
\* hold on the endpoint.  Nobody sees it before the commit, and no insert that
\* has not committed is seen by it.
Subscribe(h) ==
    /\ join[h] = Idle
    /\ \E u \in accounts, e \in Endpoints :
         join' = [join EXCEPT ![h] =
                    [user |-> u, endpoint |-> e,
                     doomed |-> {s.id : s \in {x \in subs : x.endpoint = e /\ x.user # u}}]]
    /\ UNCHANGED <<accounts, subs, rows, nextSub, now, work, told>>

\* Mutant: a row another user holds is re-owned, keeping its id.
SubscribeReown(h) ==
    /\ join[h] # Idle
    /\ LET u == join[h].user
           e == join[h].endpoint
           held == {s \in subs : s.endpoint = e}
       IN \/ /\ held # {} /\ u \in accounts
             /\ subs' = (subs \ held) \cup {[s EXCEPT !.user = u, !.fails = 0] : s \in held}
             /\ nextSub' = nextSub
          \/ /\ held = {} /\ u \in accounts /\ nextSub <= MaxSub
             /\ subs' = subs \cup {[id |-> nextSub, user |-> u, endpoint |-> e, fails |-> 0]}
             /\ nextSub' = nextSub + 1
    /\ join' = [join EXCEPT ![h] = Idle]
    /\ UNCHANGED <<accounts, rows, now, work, told>>

\* Second statement and commit: insert, or on a conflict reset the row that
\* holds the endpoint.  The conflict update leaves the row's user alone.
SubscribeWrite(h) ==
    /\ join[h] # Idle
    /\ LET u == join[h].user
           e == join[h].endpoint
           kept == {s \in subs : s.id \notin join[h].doomed}
           held == {s \in kept : s.endpoint = e}
       IN \/ /\ held # {}
             /\ subs' = (kept \ held) \cup {[s EXCEPT !.fails = 0] : s \in held}
             /\ nextSub' = nextSub
          \/ /\ held = {} /\ u \in accounts /\ nextSub <= MaxSub
             /\ subs' = kept \cup {[id |-> nextSub, user |-> u, endpoint |-> e, fails |-> 0]}
             /\ nextSub' = nextSub + 1
    /\ rows' = Unlink(join[h].doomed)
    /\ join' = [join EXCEPT ![h] = Idle]
    /\ UNCHANGED <<accounts, now, work, told>>

\* The request ends with nothing written: its user's account is gone, or the
\* connection was lost.
SubscribeAbort(h) ==
    /\ join[h] # Idle
    /\ join' = [join EXCEPT ![h] = Idle]
    /\ UNCHANGED <<accounts, subs, rows, nextSub, now, work, told>>

Unsubscribe(u) ==
    /\ \E s \in OfUser(u) : /\ subs' = subs \ {s}
                            /\ rows' = Unlink({s.id})
    /\ UNCHANGED <<people, nextSub, now, work, told>>

UnsubscribeAll(u) ==
    /\ OfUser(u) # {}
    /\ subs' = subs \ OfUser(u)
    /\ rows' = Unlink({s.id : s \in OfUser(u)})
    /\ UNCHANGED <<people, nextSub, now, work, told>>

\* account_service.delete_account: both tables cascade from the user.
DeleteAccount(u) ==
    /\ u \in accounts
    /\ accounts' = accounts \ {u}
    /\ subs' = subs \ OfUser(u)
    /\ rows' = {d \in rows : d.user # u}
    /\ UNCHANGED <<nextSub, now, work, join, told>>

\* An hour passes.  A send is cut off after ten seconds and no run lasts longer
\* than RunSpan, so neither outlives the bounds the code sets beside them.
Tick ==
    /\ now < MaxTime
    /\ \A w \in Workers : work[w].at \notin {"new", "done", "dead"} =>
         ~InFlight(w) /\ now - work[w].began < RunSpan
    /\ now' = now + 1
    /\ UNCHANGED <<people, subs, rows, nextSub, work, told>>

RunStep(r) == \/ Gather(r) \/ NextUser(r) \/ Claim(r)
              \/ RecordSent(r) \/ RecordGone(r) \/ RecordFailed(r)
              \/ Purge(r) \/ Finalize(r)
TestStep(t) == TestRead(t) \/ TestClaim(t) \/ TestRecord(t)

Next ==
    \/ \E r \in Runs : RunStep(r)
    \/ \E t \in Tests : TestStep(t)
    \/ \E w \in Workers : Crash(w)
    \/ \E h \in Joins : Subscribe(h) \/ SubscribeWrite(h) \/ SubscribeAbort(h)
    \/ \E u \in Users : Unsubscribe(u) \/ UnsubscribeAll(u) \/ DeleteAccount(u)
    \/ Tick

Spec == Init /\ [][Next]_vars

-----------------------------------------------------------------------------
(* Properties                                                              *)

\* The types, with the keys the two tables declare unique.
TypeOK ==
    /\ accounts \subseteq Users
    /\ subs \subseteq Subscription /\ rows \subseteq Delivery
    /\ nextSub \in 1 .. MaxSub + 1 /\ now \in 0 .. MaxTime
    /\ work \in [Workers -> Worker] /\ join \in [Joins -> Joining]
    /\ told \subseteq Item
    /\ \A s, t \in subs : s.id = t.id \/ s.endpoint = t.endpoint => s = t
    /\ \A d, e \in rows : d.note = e.note /\ d.sub = e.sub => d = e

\* Two workers never send the same note to the same device at the same time,
\* whatever runs overlap: a claim younger than STALE_PENDING is left alone
\* (push_delivery_repo.claim_for_run).
SingleFlight ==
    \A v, w \in Workers :
        v # w /\ InFlight(v) /\ InFlight(w) => work[v].item # work[w].item

\* Once a device's receipt is recorded, no run ever pushes that note to it
\* again, in spite of re-runs, crashes, retries of failed rows and the purge of
\* old ones: the retention outlives the time a note is selected.
RecordedOnce ==
    [][\A r \in Runs : work[r].at # "send" /\ work'[r].at = "send" =>
          work'[r].item \notin told]_vars

\* A run that listed a user's devices before one of them changed hands sends
\* nothing of that user's to the new owner afterwards: a claim is only ever
\* written for a device its user holds (the foreign key, and upsert deleting
\* another's row rather than re-owning it).
ClaimedForOwner ==
    [][\A w \in Workers : work[w].at # "send" /\ work'[w].at = "send" =>
          \E s \in subs : s.id = work'[w].item.sub /\ s.user = work[w].user]_vars

=============================================================================
