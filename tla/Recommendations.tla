-------------------------- MODULE Recommendations --------------------------
(***************************************************************************)
(* The weekly recommendations pass (jobs/weekly_recommendations.py), the   *)
(* sets it writes and what readers see of them.                            *)
(*                                                                         *)
(* A user's turn is one transaction: their history is compiled into a      *)
(* payload, the payload is compared with the one behind the set they see,  *)
(* and only if it differs a model is asked, for seconds to minutes, and a  *)
(* set is written.  There is no run table: an advisory lock on a           *)
(* connection of its own keeps passes apart, and is gone when that         *)
(* connection dies, whatever the pass goes on to do.                       *)
(*                                                                         *)
(* A show is on a user's record (My Shows, a watch, a rating) or not; its  *)
(* tier, completion and stars are the record's.                            *)
(***************************************************************************)
EXTENDS Naturals, FiniteSets

CONSTANTS
    Readers,     \* the users it is for
    Catalog,     \* the shows
    Passes,      \* processes that run passes, by schedule or by hand
    None,
    Floor,       \* GENERATION_FLOOR, in shows on record
    Limit,       \* CONSECUTIVE_FAILURE_LIMIT
    MinJudged,   \* MIN_JUDGED_SUGGESTIONS
    MaxNothing,  \* bound: titles of an answer that name no show
    MaxStarts,   \* bound: passes begun
    MaxActs      \* bound: changes users make

ASSUME RecommendationsAssumption ==
    /\ None \notin Readers \cup Passes
    /\ IsFiniteSet(Readers) /\ IsFiniteSet(Catalog)
    /\ {Floor, Limit} \subseteq Nat \ {0}
    /\ {MinJudged, MaxNothing, MaxStarts, MaxActs} \subseteq Nat

VARIABLES
    accounts,    \* users with an account
    record,      \* record[u]: the shows a tier of u's taste names
    dismissed,   \* dismissed[u]: user_recommendation_dismissal
    sets,        \* the rows of user_recommendation_set, with their shows
    lock,        \* the pass whose connection holds the advisory lock
    work,        \* work[p]: what pass p is at
    starts,      \* passes begun
    clock,       \* transactions of the passes begun: the clock of generated_at
    acts,        \* changes users made
    lost         \* a lock was lost by a pass that went on

data == <<accounts, record, dismissed, acts>>
weeklyVars == <<data, sets, lock, work, starts, clock, lost>>

Times == 0 .. 2 * MaxStarts * Cardinality(Readers)

-----------------------------------------------------------------------------
(* Payloads and sets                                                       *)

\* show_ids_never_to_recommend.
NeverToRecommend(u) == record[u] \cup dismissed[u]

\* Mutant: the hash covers the tiers alone.
HashOfTiers(tiers, excluded) == [tiers |-> tiers, exclude |-> {}]

\* What the hash covers: the tiers, and the excluded shows in none of them.
Hash(tiers, excluded) == [tiers |-> tiers, exclude |-> excluded \ tiers]

Statuses == {"succeeded", "no_matches", "insufficient_history", "failed"}

Row == [user : Readers, at : Times, status : Statuses,
        hash : [tiers : SUBSET Catalog, exclude : SUBSET Catalog], shows : SUBSET Catalog]
NoRow == [user |-> None, at |-> 0, status |-> "failed",
          hash |-> Hash({}, {}), shows |-> {}]

Newest(rows) == IF rows = {} THEN NoRow
                ELSE CHOOSE s \in rows : \A t \in rows : t.at <= s.at

\* Mutant: the newest set, whatever became of it.
CurrentOfAny(u) == Newest({s \in sets : s.user = u})

\* The newest that succeeded, by the start of its transaction.
Current(u) == Newest({s \in sets : s.user = u /\ s.status = "succeeded"})

\* list_current_recommendations.
Shown(u) == Current(u).shows \ NeverToRecommend(u)

-----------------------------------------------------------------------------
(* Passes                                                                  *)

Phases == {"idle", "next", "taste", "gate", "ask", "again", "record"}

\* tiers, exclude: the payload, and began: when the transaction that reads it
\* did.  kept: the shows of a first answer that is not believed.
Work == [at : Phases, todo : SUBSET Readers, user : Readers \cup {None},
         began : Times, tiers : SUBSET Catalog, exclude : SUBSET Catalog,
         kept : SUBSET (SUBSET Catalog), failures : 0 .. Limit]
NoWork == [at |-> "idle", todo |-> {}, user |-> None, began |-> 0, tiers |-> {},
           exclude |-> {}, kept |-> {}, failures |-> 0]

HashOf(w) == Hash(w.tiers, w.exclude)

\* Pass p goes on to the next user, after so many failures in a row.
NextTurn(p, failures) ==
    work' = [work EXCEPT ![p] =
        [NoWork EXCEPT !.at = "next", !.todo = work[p].todo, !.failures = failures]]

Begun(p, list) ==
    /\ work[p].at = "idle" /\ starts < MaxStarts
    /\ lock' = p /\ starts' = starts + 1
    /\ work' = [work EXCEPT ![p] = [NoWork EXCEPT !.at = "next", !.todo = list]]
    /\ UNCHANGED <<data, sets, clock, lost>>

\* Mutant: whoever finds the lock held goes on without it.
TakeLockOrNot(p, list) == Begun(p, list)

\* run_pass_if_free, and the work list: everybody, or the one asked for.  Who
\* finds the lock held does nothing.
TakeLock(p, list) == lock = None /\ Begun(p, list)

\* A turn's transaction begins, and build_payload's first statements read the
\* tiers.
CompileTaste(p) ==
    /\ work[p].at = "next"
    /\ \E u \in work[p].todo :
        work' = [work EXCEPT ![p].at = "taste", ![p].todo = @ \ {u}, ![p].user = u,
                             ![p].began = clock + 1, ![p].tiers = record[u]]
    /\ clock' = clock + 1
    /\ UNCHANGED <<data, sets, lock, starts, lost>>

\* Its next one: the exclusions, as they are by now.
CompileExclusion(p) ==
    /\ work[p].at = "taste"
    /\ work' = [work EXCEPT ![p].at = "gate",
                            ![p].exclude = NeverToRecommend(work[p].user)]
    /\ UNCHANGED <<data, sets, lock, starts, clock, lost>>

Changed(w) == Current(w.user) = NoRow \/ Current(w.user).hash # HashOf(w)

\* Unchanged since their current set.
Skip(p) ==
    /\ work[p].at = "gate" /\ ~Changed(work[p])
    /\ NextTurn(p, 0)
    /\ UNCHANGED <<data, sets, lock, starts, clock, lost>>

\* write_set and the commit, if the user is still there to refer to.
Written(p, status, shows) ==
    /\ work[p].user \in accounts
    /\ sets' = sets \cup {[user |-> work[p].user, at |-> work[p].began, status |-> status,
                           hash |-> HashOf(work[p]), shows |-> shows]}
    /\ NextTurn(p, 0)
    /\ UNCHANGED <<data, lock, starts, clock, lost>>

\* Below the floor: a set without shows, and no call.
TooLittle(p) ==
    /\ work[p].at = "gate" /\ Changed(work[p])
    /\ Cardinality(work[p].tiers) < Floor
    /\ Written(p, "insufficient_history", {})

Call(p) ==
    /\ work[p].at = "gate" /\ Changed(work[p])
    /\ Cardinality(work[p].tiers) >= Floor
    /\ work' = [work EXCEPT ![p].at = "ask"]
    /\ UNCHANGED <<data, sets, lock, starts, clock, lost>>

\* A model's answer: the shows its titles resolve to, and how many titles
\* resolve to none.
Answers == [shows : SUBSET Catalog, nothing : 0 .. MaxNothing]

Believable(answer, exclude) ==
    LET named == Cardinality(answer.shows) + answer.nothing
    IN \/ named < MinJudged
       \/ /\ 2 * answer.nothing <= named
          /\ 10 * Cardinality(answer.shows \cap exclude) <= 9 * named

\* The shows of an answer that _resolve_all lets through.
Admitted(answer, exclude) == answer.shows \ exclude

\* The set of the shows left of an answer; its transaction has been open since
\* the turn began.
Write(p, shows) == Written(p, IF shows = {} THEN "no_matches" ELSE "succeeded", shows)

\* The first answer is read, and written if it is believed.
FirstAnswer(p) ==
    /\ work[p].at = "ask"
    /\ \E answer \in Answers :
        /\ Believable(answer, work[p].exclude)
        /\ Write(p, Admitted(answer, work[p].exclude))

AskAgain(p, kept) ==
    /\ work' = [work EXCEPT ![p].at = "again", ![p].kept = kept]
    /\ UNCHANGED <<data, sets, lock, starts, clock, lost>>

\* The first answer is not believed, or not even the output contract.
Unbelievable(p) ==
    /\ work[p].at = "ask"
    /\ \/ \E answer \in Answers :
            /\ ~Believable(answer, work[p].exclude)
            /\ AskAgain(p, {Admitted(answer, work[p].exclude)})
       \/ AskAgain(p, {})

\* The second is written, whatever it is, unless the first had as many shows.
SecondAnswer(p) ==
    /\ work[p].at = "again"
    /\ \E answer \in Answers :
        LET second == Admitted(answer, work[p].exclude)
            better == {first \in work[p].kept : Cardinality(first) >= Cardinality(second)}
        IN Write(p, IF better = {} THEN second ELSE CHOOSE first \in better : TRUE)

\* No second answer: the first is written, if there was one to read.
NoSecond(p) ==
    /\ work[p].at = "again"
    /\ \E first \in work[p].kept : Write(p, first)

\* Anything raised in a turn: a statement or the commit, the call when it gives
\* up, an answer that is twice no answer, a user who is gone.
Fail(p) ==
    /\ work[p].at \in {"taste", "gate", "ask", "again"}
    /\ work' = [work EXCEPT ![p].at = "record", ![p].failures = @ + 1]
    /\ UNCHANGED <<data, sets, lock, starts, clock, lost>>

\* _record_failure, in a transaction of its own; should it fail too, that is
\* only logged.  So many in a row end the pass.
Record(p) ==
    LET w == work[p]
    IN /\ w.at = "record"
       /\ clock' = clock + 1
       /\ \/ /\ w.user \in accounts
             /\ sets' = sets \cup
                  {[user |-> w.user, at |-> clock + 1, status |-> "failed",
                    hash |-> Hash(record[w.user], NeverToRecommend(w.user)), shows |-> {}]}
          \/ UNCHANGED sets
       /\ work' = [work EXCEPT ![p] = [NoWork EXCEPT
                !.at = "next", !.failures = IF w.failures = Limit THEN 0 ELSE w.failures,
                !.todo = IF w.failures = Limit THEN {} ELSE w.todo]]
       /\ UNCHANGED <<data, lock, starts, lost>>

\* The end of the pass, and of its lock.
EndPass(p) ==
    /\ work[p].at = "next" /\ work[p].todo = {}
    /\ work' = [work EXCEPT ![p] = NoWork]
    /\ lock' = IF lock = p THEN None ELSE lock
    /\ UNCHANGED <<data, sets, starts, clock, lost>>

-----------------------------------------------------------------------------
(* What happens to passes, and what users do meanwhile                     *)

\* The process dies, and with it its connections.
Crash(p) ==
    /\ work[p].at # "idle"
    /\ work' = [work EXCEPT ![p] = NoWork]
    /\ lock' = IF lock = p THEN None ELSE lock
    /\ UNCHANGED <<data, sets, starts, clock, lost>>

\* The lock's connection dies, and the pass does not notice.
LoseLock(p) ==
    /\ lock = p /\ work[p].at # "idle"
    /\ lock' = None /\ lost' = TRUE
    /\ UNCHANGED <<data, sets, work, starts, clock>>

Acts(u) == u \in accounts /\ acts < MaxActs /\ acts' = acts + 1

\* A show enters or leaves the user's record: My Shows, a watch, a rating.
ChangeRecord(u, s) ==
    /\ Acts(u)
    /\ record' = [record EXCEPT ![u] = IF s \in @ THEN @ \ {s} ELSE @ \cup {s}]
    /\ UNCHANGED <<accounts, dismissed, sets, lock, work, starts, clock, lost>>

\* dismiss, of any show.
Dismiss(u, s) ==
    /\ Acts(u) /\ s \notin dismissed[u]
    /\ dismissed' = [dismissed EXCEPT ![u] = @ \cup {s}]
    /\ UNCHANGED <<accounts, record, sets, lock, work, starts, clock, lost>>

\* The account goes, and all that refers to it.
DeleteAccount(u) ==
    /\ Acts(u)
    /\ accounts' = accounts \ {u}
    /\ record' = [record EXCEPT ![u] = {}]
    /\ dismissed' = [dismissed EXCEPT ![u] = {}]
    /\ sets' = {s \in sets : s.user # u}
    /\ UNCHANGED <<lock, work, starts, clock, lost>>

-----------------------------------------------------------------------------
WeeklyInit ==
    /\ accounts = Readers
    /\ record \in [Readers -> SUBSET Catalog]
    /\ dismissed = [u \in Readers |-> {}]
    /\ sets = {} /\ lock = None
    /\ work = [p \in Passes |-> NoWork]
    /\ starts = 0 /\ clock = 0 /\ acts = 0 /\ lost = FALSE

Step(p) ==
    \/ CompileTaste(p) \/ CompileExclusion(p) \/ Skip(p) \/ TooLittle(p) \/ Call(p)
    \/ FirstAnswer(p) \/ Unbelievable(p) \/ SecondAnswer(p) \/ NoSecond(p)
    \/ Fail(p) \/ Record(p) \/ EndPass(p)

WeeklyNext ==
    \/ \E p \in Passes :
        \/ \E list \in {accounts} \cup {{u} : u \in accounts} : TakeLock(p, list)
        \/ Step(p) \/ Crash(p) \/ LoseLock(p)
    \/ \E u \in Readers :
        \/ \E s \in Catalog : ChangeRecord(u, s) \/ Dismiss(u, s)
        \/ DeleteAccount(u)

WeeklySpec == WeeklyInit /\ [][WeeklyNext]_weeklyVars

-----------------------------------------------------------------------------
(* Properties                                                              *)

\* Types, and that whoever holds the lock is in the middle of a pass.
WeeklyTypeOK ==
    /\ accounts \subseteq Readers
    /\ {record, dismissed} \subseteq [Readers -> SUBSET Catalog]
    /\ sets \subseteq Row
    /\ lock \in Passes \cup {None}
    /\ work \in [Passes -> Work]
    /\ starts \in 0 .. MaxStarts /\ clock \in Times /\ acts \in 0 .. MaxActs
    /\ lost \in BOOLEAN
    /\ \A p \in Passes : lock = p => work[p].at # "idle"

\* Whatever becomes of a pass, nobody's recommendations vanish by it: they
\* only do by what their user does, before the write or while the model was
\* being asked.
ShownStands ==
    [][ sets # sets' => \A u \in accounts' :
          Shown(u) # {} /\ Shown(u)' = {} /\ UNCHANGED <<record[u], dismissed[u]>>
            => \E p \in Passes : /\ work[p].user = u /\ work[p].at \in {"ask", "again"}
                                 /\ NeverToRecommend(u) # work[p].exclude ]_weeklyVars

\* No model is paid twice for one payload: of two sets that succeeded one
\* after the other, the second has another payload.  It takes the lock, and no
\* more than it: a pass that lost it can be overtaken.
PaidOnce ==
    lost \/ \A s, t \in {r \in sets : r.status = "succeeded"} :
        s.user = t.user /\ s.at < t.at
        /\ (\A r \in sets : r.user = s.user /\ r.status = "succeeded" => ~(s.at < r.at /\ r.at < t.at))
            => s.hash # t.hash

\* A set that the gate lets stand for another week is one a reader sees all
\* of: of its shows the user may have met or dismissed since, each one is in a
\* tier by a change between the payload's two readings.
SkipKeepsWhole ==
    [][ \A p \in Passes :
          work[p].at = "gate" /\ work'[p].at = "next" /\ sets' = sets
            => Current(work[p].user).shows \cap work[p].exclude \subseteq work[p].tiers ]_weeklyVars

=============================================================================
