---------------------------- MODULE TokenBucket ----------------------------
(***************************************************************************)
(* What the shared request budget promises (rate_budget.py, ADR-0006): a   *)
(* bucket of Cap tokens that gains one every Fill ticks, from which tokens *)
(* are taken only when they are there.  It may err slow, and lose part of  *)
(* what it gained; it never errs fast.                                     *)
(***************************************************************************)
EXTENDS Integers

CONSTANTS
    Cap,     \* tokens a full bucket holds: Budget.calls
    Fill,    \* ticks that refill one token: 1 / Budget.rate
    MaxSpan  \* bound: the longest window looked at

VARIABLES
    level,   \* what the bucket holds, Fill to the token
    span,    \* the age of the window being looked at
    granted  \* tokens granted in it

bucketVars == <<level, span, granted>>

Full == Cap * Fill

Init ==
    /\ level = Full
    /\ span = 0
    /\ granted = 0

Grant(k) ==
    /\ k * Fill <= level
    /\ level' \in 0 .. level - k * Fill
    /\ granted' = granted + k
    /\ span' = span

\* A tick passes; a window at its longest gives way to the next.
Refill ==
    /\ level' = IF level < Full THEN level + 1 ELSE Full
    /\ IF span < MaxSpan
       THEN span' = span + 1 /\ granted' = granted
       ELSE span' = 0 /\ granted' = 0

\* A window may begin at any time.
Mark == span' = 0 /\ granted' = 0 /\ level' = level

Next == Refill \/ Mark \/ \E k \in 1 .. Cap : Grant(k)

Spec == Init /\ [][Next]_bucketVars

-----------------------------------------------------------------------------
\* However a window is placed, what is granted in it is at most a full bucket
\* and what flowed in meanwhile.
WindowBound == granted * Fill <= Full + span
=============================================================================
