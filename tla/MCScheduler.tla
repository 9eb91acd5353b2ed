---------------------------- MODULE MCScheduler ----------------------------
(***************************************************************************)
(* Small instances of Scheduler for TLC.                                   *)
(***************************************************************************)
EXTENDS Scheduler, TLC

CONSTANTS a, b, i1

\* A cron schedule that fires at every multiple of its period.
MCCronNext(s, t) == LET period == IF s = a THEN 1 ELSE 2
                    IN (t \div period + 1) * period

OneInstance == [s \in Subs |-> i1]
CronOnce == [s \in Subs |-> IF s = a THEN "cron" ELSE "once"]
AllCron == [s \in Subs |-> "cron"]

\* Goroutines are interchangeable.
FireSymmetry == Permutations(Fires)

=============================================================================
