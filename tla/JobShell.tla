------------------------------ MODULE JobShell ------------------------------
(* One process of the schedule, from its start to its exit: what it tells the *)
(* deadman monitor and the error tracker, and the code it exits with. The run *)
(* itself is CatalogSync's; here it is one circumstance of the process.       *)
EXTENDS Integers

CONSTANT Null

Places == {"guard", "insert", "worker", "read"}
Statuses == {"running", "succeeded", "failed", "cancelled"}

(* What a process meets: `url` the monitor is configured, `reaches` its ping  *)
(* gets out, `live` a run of the kind is in flight, `crash` where an exception *)
(* leaves the runner, `status` how its own run ended.                          *)
Circumstances ==
    [url : BOOLEAN, reaches : BOOLEAN, live : BOOLEAN, crash : Places \cup {Null}, status : Statuses]

\* A ping that is not configured or does not get out changes nothing else.
Push(met, sent) == IF met.url /\ met.reaches THEN sent ELSE Null
PingUp(met) == Push(met, "up")
PingDown(met) == Push(met, "down")

\* The exit code says whether it went well; `started`, whether it ran a run.
Ended(ok, started, heard, event) ==
    [code |-> IF ok THEN 0 ELSE 1, started |-> started, heard |-> heard, event |-> event]

\* The event of a run that failed is one message for its kind; of a crash, the
\* exception.
ReportDown(met, started, event) == Ended(FALSE, started, PingDown(met), event)

\* A worker finalizes its own run, so a run that is cancelled or still running
\* when its worker returns was ended, or left, by somebody else.
RunScheduledDelta(met) ==
    IF met.live THEN Ended(TRUE, FALSE, Null, Null)
    ELSE IF met.status = "succeeded" THEN Ended(TRUE, TRUE, PingUp(met), Null)
    ELSE IF met.status = "failed" THEN ReportDown(met, TRUE, "run failed")
    ELSE Ended(FALSE, TRUE, PingDown(met), Null)

\* Where an exception leaves the runner nothing was found or read past it.
Crashes(met) == met.crash = "guard" \/ (met.crash # Null /\ ~met.live)
CrashReport(met) == ReportDown(met, met.crash \notin {"guard", "insert"}, "exception")
ScheduledMain(met) == IF Crashes(met) THEN CrashReport(met) ELSE RunScheduledDelta(met)

\* The delivery tasks look at their keys first, and start no run without them.
RunDeliveryTask(met, keys) ==
    IF ~keys THEN Ended(FALSE, FALSE, PingDown(met), Null) ELSE ScheduledMain(met)

----------------------------------------------------------------------------
(* The weekly pass keeps no run row: an advisory lock stands for the guard,    *)
(* and the pass's own count for the status. A hand-run of one user must not    *)
(* feed the monitor.                                                           *)

HealthcheckUrl(met, oneUser) == met.url /\ ~oneUser
PassOk(result) == result.failed = 0 /\ ~result.aborted
RunWeekly(met, oneUser, configured, result) ==
    LET told == [met EXCEPT !.url = HealthcheckUrl(met, oneUser)]
    IN IF ~configured THEN Ended(FALSE, FALSE, PingDown(told), Null)
       ELSE IF Crashes(told) THEN CrashReport(told)
       ELSE IF told.live THEN Ended(TRUE, FALSE, Null, Null)
       ELSE IF PassOk(result) THEN Ended(TRUE, TRUE, PingUp(told), Null)
       ELSE Ended(FALSE, TRUE, PingDown(told), Null)

\* Compiles one user's payload and calls nobody.
RunDryRun(model, known) == Ended(model /\ known, FALSE, Null, Null)
=============================================================================
