------------------------------ MODULE Requests ------------------------------
(* How the three clients ask again: the TMDB client, the TV Maze oracle and the *)
(* language model's. One exchange is a fold over the answers upstream gives,    *)
(* one per request, until the client returns or raises.                         *)
EXTENDS Integers, Sequences
LOCAL INSTANCE SequencesExt

CONSTANT Null

(* An answer: the kind of reply, and the seconds of a readable Retry-After.    *)
(*   unreachable  no reply: a timeout, a connection that breaks                *)
(*   protocol     no reply of another kind: a transport error beyond those     *)
(*   throttled    429            timed         408 or 409                       *)
(*   broken       5xx            missing       404                              *)
(*   refused      any other 4xx  moved         3xx          answered  2xx       *)
(*   unbudgeted   nothing sent: the request budget could not be reached         *)
Kinds == {"unbudgeted", "unreachable", "protocol", "throttled", "timed", "broken", "missing", "refused", "moved", "answered"}
Asking == [outcome |-> Null, attempt |-> 0, throttled |-> 0, requests |-> 0, waits |-> <<>>]
Exchange(Step(_, _), answers) ==
    FoldLeft(LAMBDA s, a : IF s.outcome # Null THEN s ELSE
                              Step([s EXCEPT !.requests = @ + IF a.kind = "unbudgeted" THEN 0 ELSE 1], a),
             Asking, answers)

Ends(s, outcome) == [s EXCEPT !.outcome = outcome]
Waits(s, seconds) == [s EXCEPT !.waits = Append(@, seconds)]
Least(a, b) == IF a <= b THEN a ELSE b
Backoff(base, n) == base * 2 ^ n

\* A failure that spends the retry budget.
Retried(s, kind, base, retryMax) ==
    IF s.attempt + 1 >= retryMax THEN Ends(s, kind)
    ELSE [Waits(s, Backoff(base, s.attempt)) EXCEPT !.attempt = @ + 1]

MaxThrottleWait == 60
ThrottleWait(retryAfter, throttled, base) ==
    IF retryAfter # Null THEN retryAfter ELSE Least(Backoff(base, throttled), MaxThrottleWait)
TMDBRequest(answers, base, retryMax) ==
    LET Step(s, a) ==
        CASE a.kind \in {"unreachable", "broken"} -> Retried(s, a.kind, base, retryMax)
          [] a.kind = "throttled" ->
                [Waits(s, ThrottleWait(a.retryAfter, s.throttled, base)) EXCEPT !.throttled = @ + 1]
          [] OTHER -> Ends(s, a.kind)
    IN Exchange(Step, answers)
\* What a loop over shows does not count as upstream being broken.
IsGoneUpstream(s) == s.outcome = "missing"

\* Throttled at one attempt, the oracle waits as long each time.
OracleWait(retryAfter, attempt, base) ==
    IF retryAfter # Null THEN retryAfter ELSE Backoff(base, attempt)
OracleRequest(answers, base, retryMax) ==
    LET Step(s, a) ==
        CASE a.kind \in {"unreachable", "broken"} -> Retried(s, a.kind, base, retryMax)
          [] a.kind = "throttled" -> Waits(s, OracleWait(a.retryAfter, s.attempt, base))
          [] OTHER -> Ends(s, a.kind)
    IN Exchange(Step, answers)

----------------------------------------------------------------------------
(* The language model. Waits are in eighths of a second, so that what the       *)
(* jitter leaves of one is a number.                                            *)

Policy == [maxRetries |-> 3, initial |-> 4, cap |-> 64, maxRetryAfter |-> 480]
\* The longest it may wait; the jitter takes up to a quarter off the curve.
DelayFor(attempt, retryAfter, policy) ==
    IF retryAfter # Null /\ retryAfter > 0
    THEN LET wait == Least(retryAfter, policy.maxRetryAfter) IN [low |-> wait, high |-> wait]
    ELSE LET curve == Least(policy.cap, policy.initial * 2 ^ (attempt - 1))
         IN [low |-> curve - (curve \div 4), high |-> curve]

\* A budget that cannot be reached is no answer of upstream's, and is not retried.
RetryForStatus(kind) == kind \in {"timed", "throttled", "broken"}
Classify(kind) == RetryForStatus(kind) \/ kind \in {"unreachable", "protocol"}
RetryAfterSeconds(a) == IF RetryForStatus(a.kind) THEN a.retryAfter ELSE Null
CallWithRetry(answers, policy) ==
    LET Step(s, a) ==
        IF a.kind = "answered" THEN Ends(s, "answered")
        ELSE IF ~Classify(a.kind) \/ s.attempt + 1 > policy.maxRetries THEN Ends(s, a.kind)
        ELSE [Waits(s, DelayFor(s.attempt + 1, RetryAfterSeconds(a), policy)) EXCEPT !.attempt = @ + 1]
    IN Exchange(Step, answers)

(* What became of one call: the prompt refused before anything is sent, no      *)
(* usable response, one that cannot be believed, or an object and its cost.     *)
(* `body`: how the response reads, envelope, then content, then object.         *)
ToWire(prompt) == prompt.saysJson
MessageContent(body) == body.choices /\ body.content
ParseObject(body) == body.object
UsageOrZero(body) == IF body.usage = Null THEN 0 ELSE body.usage
CompleteJson(prompt, answers, body, policy) ==
    LET sent == CallWithRetry(answers, policy)
        Verdict(kind) == [kind |-> kind, requests |-> sent.requests, tokens |-> 0]
    IN IF ~ToWire(prompt) THEN [Verdict("unsupported") EXCEPT !.requests = 0]
       ELSE IF sent.outcome # "answered" THEN Verdict("failed")
       ELSE IF ~(body.envelope /\ MessageContent(body) /\ ParseObject(body)) THEN Verdict("invalid")
       ELSE [Verdict("response") EXCEPT !.tokens = UsageOrZero(body)]
=============================================================================
