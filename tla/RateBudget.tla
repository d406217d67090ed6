----------------------------- MODULE RateBudget -----------------------------
(***************************************************************************)
(* The request budget of one upstream, shared by every process that calls  *)
(* it: one row of catalog.rate_budget, and in each process a limiter that  *)
(* leases blocks of tokens from it (DatabaseRateLimiter).                  *)
(*                                                                         *)
(* Taking from the row is one transaction: SELECT ... FOR UPDATE, then the *)
(* UPDATE and the commit.  Time may pass and the process may die between   *)
(* the two, and always while a caller sleeps.                              *)
(*                                                                         *)
(* Time is counted in ticks, of which Fill refill a token.  The row holds  *)
(* its tokens in Fill-ths and its age in ticks, up to the time that fills  *)
(* an empty bucket.  A row that is absent is seeded full by whoever finds  *)
(* it so, under the lock of its insert: it is a full one.                  *)
(***************************************************************************)
EXTENDS Integers, FiniteSets, Sequences

CONSTANTS
    Procs,    \* processes
    Seats,    \* concurrent callers in each
    NoProc,   \* nobody
    Cap,      \* Budget.capacity
    Fill,     \* ticks per token: 1 / Budget.rate
    Lease,    \* Budget.lease
    Sizes,    \* the tokens a caller may ask for
    MaxAsks,  \* bound: acquire calls ever made
    MaxSpan   \* bound: the longest window looked at

ASSUME RateAssumption ==
    /\ NoProc \notin Procs /\ IsFiniteSet(Procs)
    /\ Sizes \subseteq Nat \ {0}
    /\ {Cap, Fill, Lease} \subseteq Nat \ {0}
    /\ {MaxAsks, MaxSpan} \subseteq Nat

VARIABLES
    tokens,   \* rate_budget.tokens, in Fill-ths
    age,      \* ticks since rate_budget.updated_at
    lock,     \* the process that holds the row lock
    at,       \* at[p]: where the caller that p's local lock lets through is
    seen,     \* seen[p]: the refilled level it read under the row lock
    nap,      \* nap[p]: ticks it has left to sleep
    leased,   \* leased[p]: tokens taken and not yet spent
    queue,    \* queue[p]: the callers in p's acquire, in order
    asks,     \* acquire calls so far
    span,     \* the age of the window being looked at
    granted,  \* tokens the row granted in it
    spent,    \* tokens callers spent in it
    held      \* tokens on lease when it began

row == <<tokens, age, lock>>
window == <<span, granted, spent, held>>
budgetVars == <<row, at, seen, nap, leased, queue, asks, window>>

Full == Cap * Fill

\* A caller in acquire: seat s of the process, for n tokens.
Caller == [seat : Seats, n : Sizes]

BudgetInit ==
    /\ tokens = Full
    /\ age = 0
    /\ lock = NoProc
    /\ at = [p \in Procs |-> "idle"]
    /\ seen = [p \in Procs |-> 0]
    /\ nap = [p \in Procs |-> 0]
    /\ leased = [p \in Procs |-> 0]
    /\ queue = [p \in Procs |-> <<>>]
    /\ asks = 0
    /\ span = 0 /\ granted = 0 /\ spent = 0 /\ held = 0

-----------------------------------------------------------------------------
(* acquire                                                                 *)

Waiting(p, s) == \E i \in DOMAIN queue[p] : queue[p][i].seat = s

\* The first caller needs more than is on lease.
Short(p) == queue[p] # <<>> /\ leased[p] < Head(queue[p]).n

\* acquire's want: a whole block, or all the caller asks for if that is more.
Want(p) == LET n == Head(queue[p]).n
           IN (IF n > Lease THEN n ELSE Lease) - leased[p]

\* _take: the level the elapsed time has brought the row to, up to capacity.
Level == IF tokens + age < Full THEN tokens + age ELSE Full

\* acquire: the local lock is a queue, held across the wait.
Acquire(p, s, n) ==
    /\ ~Waiting(p, s) /\ asks < MaxAsks
    /\ queue' = [queue EXCEPT ![p] = Append(@, [seat |-> s, n |-> n])]
    /\ asks' = asks + 1
    /\ UNCHANGED <<row, at, seen, nap, leased, window>>

\* _take's SELECT: the row's lock, its tokens and its age by the clock.
Lock(p) ==
    /\ at[p] = "idle" /\ Short(p)
    /\ lock = NoProc
    /\ lock' = p
    /\ at' = [at EXCEPT ![p] = "locked"]
    /\ seen' = [seen EXCEPT ![p] = Level]
    /\ UNCHANGED <<tokens, age, nap, leased, queue, asks, window>>

\* Whole tokens only, and a short grant rather than none.
Granted(p) == LET whole == seen[p] \div Fill
              IN IF Want(p) < whole THEN Want(p) ELSE whole

Release(p, how) ==
    /\ lock' = NoProc
    /\ at' = [at EXCEPT ![p] = how]
    /\ seen' = [seen EXCEPT ![p] = 0]

\* Mutant: the UPDATE leaves updated_at alone.
TakeUnstamped(p) ==
    /\ at[p] = "locked" /\ Granted(p) >= 1
    /\ tokens' = seen[p] - Granted(p) * Fill
    /\ leased' = [leased EXCEPT ![p] = @ + Granted(p)]
    /\ granted' = granted + Granted(p)
    /\ Release(p, "idle")
    /\ UNCHANGED <<age, nap, queue, asks, span, spent, held>>

\* Mutant: a short grant is taken for the whole block.
TakeWhole(p) ==
    /\ at[p] = "locked" /\ Granted(p) >= 1
    /\ tokens' = seen[p] - Granted(p) * Fill
    /\ age' = 0
    /\ leased' = [leased EXCEPT ![p] = @ + Want(p)]
    /\ granted' = granted + Granted(p)
    /\ Release(p, "idle")
    /\ UNCHANGED <<nap, queue, asks, span, spent, held>>

\* Granted: the UPDATE stamps the row with the clock of now, so the ticks since
\* the SELECT are lost.
Take(p) ==
    /\ at[p] = "locked" /\ Granted(p) >= 1
    /\ tokens' = seen[p] - Granted(p) * Fill
    /\ age' = 0
    /\ leased' = [leased EXCEPT ![p] = @ + Granted(p)]
    /\ granted' = granted + Granted(p)
    /\ Release(p, "idle")
    /\ UNCHANGED <<nap, queue, asks, span, spent, held>>

\* Mutant: a refused take stamps the row.
RefuseStamped(p) ==
    /\ at[p] = "locked" /\ Granted(p) < 1
    /\ nap' = [nap EXCEPT ![p] = Fill - seen[p]]
    /\ age' = 0
    /\ Release(p, "asleep")
    /\ UNCHANGED <<tokens, leased, queue, asks, window>>

\* Not granted: nothing is written, and the caller sleeps, the row unlocked,
\* until the token it read the start of is due.
Refuse(p) ==
    /\ at[p] = "locked" /\ Granted(p) < 1
    /\ nap' = [nap EXCEPT ![p] = Fill - seen[p]]
    /\ Release(p, "asleep")
    /\ UNCHANGED <<tokens, age, leased, queue, asks, window>>

Wake(p) ==
    /\ at[p] = "asleep" /\ nap[p] = 0
    /\ at' = [at EXCEPT ![p] = "idle"]
    /\ UNCHANGED <<row, seen, nap, leased, queue, asks, window>>

\* acquire returns: the caller sends its request.
Spend(p) ==
    /\ at[p] = "idle" /\ queue[p] # <<>> /\ ~Short(p)
    /\ leased' = [leased EXCEPT ![p] = @ - Head(queue[p]).n]
    /\ queue' = [queue EXCEPT ![p] = Tail(@)]
    /\ spent' = spent + Head(queue[p]).n
    /\ UNCHANGED <<row, at, seen, nap, asks, span, granted, held>>

\* The database cannot be reached: acquire raises, with the lease it has.
FailClosed(p) ==
    /\ at[p] = "locked" \/ (at[p] = "idle" /\ Short(p))
    /\ queue' = [queue EXCEPT ![p] = Tail(@)]
    /\ lock' = IF at[p] = "locked" THEN NoProc ELSE lock
    /\ at' = [at EXCEPT ![p] = "idle"]
    /\ seen' = [seen EXCEPT ![p] = 0]
    /\ UNCHANGED <<tokens, age, nap, leased, asks, window>>

\* The process dies, and another takes its place with nothing on lease.
Crash(p) ==
    /\ at[p] # "idle" \/ leased[p] # 0 \/ queue[p] # <<>>
    /\ lock' = IF at[p] = "locked" THEN NoProc ELSE lock
    /\ at' = [at EXCEPT ![p] = "idle"]
    /\ seen' = [seen EXCEPT ![p] = 0]
    /\ nap' = [nap EXCEPT ![p] = 0]
    /\ leased' = [leased EXCEPT ![p] = 0]
    /\ queue' = [queue EXCEPT ![p] = <<>>]
    /\ UNCHANGED <<tokens, age, asks, window>>

-----------------------------------------------------------------------------
(* Time                                                                    *)

\* The tokens on lease, process by process.
TokensOf(p) == {p} \X (1 .. leased[p])
OnLease == Cardinality(UNION {TokensOf(p) : p \in Procs})

NewWindow == span' = 0 /\ granted' = 0 /\ spent' = 0 /\ held' = OnLease

Tick ==
    /\ age' = IF age < Full THEN age + 1 ELSE age
    /\ nap' = [p \in Procs |-> IF nap[p] > 0 THEN nap[p] - 1 ELSE 0]
    /\ IF span < MaxSpan
       THEN span' = span + 1 /\ UNCHANGED <<granted, spent, held>>
       ELSE NewWindow
    /\ UNCHANGED <<tokens, lock, at, seen, leased, queue, asks>>

\* A window may begin at any time.
Mark ==
    /\ NewWindow
    /\ UNCHANGED <<row, at, seen, nap, leased, queue, asks>>

Work(p) == Take(p) \/ Refuse(p) \/ Wake(p) \/ Spend(p)

BudgetNext ==
    \/ \E p \in Procs, s \in Seats, n \in Sizes : Acquire(p, s, n)
    \/ \E p \in Procs : Lock(p) \/ Work(p) \/ FailClosed(p) \/ Crash(p)
    \/ Tick
    \/ Mark

BudgetSpec == BudgetInit /\ [][BudgetNext]_budgetVars

\* Processes run, Postgres grants the row lock to whoever keeps asking for it,
\* and the clock goes on.
Fairness ==
    /\ \A p \in Procs : SF_budgetVars(Lock(p)) /\ WF_budgetVars(Work(p))
    /\ WF_budgetVars(Tick)

FairSpec == BudgetSpec /\ Fairness

-----------------------------------------------------------------------------
(* Properties                                                              *)

RowOK ==
    /\ tokens \in 0 .. Full /\ age \in 0 .. Full
    /\ lock \in Procs \cup {NoProc}

LimitersOK ==
    /\ at \in [Procs -> {"idle", "locked", "asleep"}]
    /\ seen \in [Procs -> 0 .. Full] /\ nap \in [Procs -> 0 .. Fill]
    /\ leased \in [Procs -> Nat]
    /\ queue \in [Procs -> Seq(Caller)]
    /\ asks \in 0 .. MaxAsks

WindowOK == span \in 0 .. MaxSpan /\ {granted, spent, held} \subseteq Nat

\* The row never holds more than its capacity, no lease is ever overdrawn, and
\* no sleep is longer than a token takes.
BudgetTypeOK == RowOK /\ LimitersOK /\ WindowOK

\* The limiters, whatever they interleave, lose or crash over, are one token
\* bucket: the row grants what it holds, in spite of stale reads, and fills no
\* faster than the clock.
Bucket == INSTANCE TokenBucket WITH level <- Level
ImplementsBucket == Bucket!Spec

\* In any window, what all the processes were granted is at most a full bucket
\* and what flowed in meanwhile.
WindowGrant == granted * Fill <= Full + span

\* A token is spent once, and only after the row granted it: what is spent in a
\* window was granted in it or on lease when it began.
SpendBacked == spent + OnLease <= granted + held

\* Nobody waits for ever: a caller is served, or told that it failed, however
\* the processes compete for the row.
Served == \A p \in Procs, s \in Seats : Waiting(p, s) ~> ~Waiting(p, s)

=============================================================================
