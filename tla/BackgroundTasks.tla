--------------------------- MODULE BackgroundTasks ---------------------------
(* The background jobs of a worker process: the Bash tool starts every       *)
(* command as a job, answers inline when it ends in time and otherwise leaves *)
(* it in the background, where a goroutine announces its end through a        *)
(* bounded channel and the WatchJobs stream.  TaskStop, a cancelled call and  *)
(* the shutdown of the worker kill jobs.                                      *)
(* Source: internal/agent/tools/background.go, bash.go, task_stop.go,         *)
(* task_output.go, cmd/hiro/agent.go, internal/ipc/grpcipc.                   *)
EXTENDS Naturals, Sequences, FiniteSets

CONSTANTS
    Tasks,               \* the job ids; ids are never used twice
    MaxBackgroundJobs,   \* entries of BackgroundJobManager.jobs
    JobBuffer            \* jobCompletionBufSize

ASSUME TasksAssumption ==
    MaxBackgroundJobs \in Nat \ {0} /\ JobBuffer \in Nat \ {0}

VARIABLES
    jobs,         \* BackgroundJobManager.jobs
    proc,         \* the process: none, running, exited (by itself), killed
    ctx,          \* TRUE once job.cancel has been called
    notified,     \* job.notified
    bash,         \* the Bash call that started the job
    waiter,       \* the goroutine of NotifyOnComplete
    killer,       \* what the running Kill of the job has still to do
    completions,  \* the channel OnComplete sends to
    told,         \* [task -> how its outcome reached the agent]
    phase         \* the worker process: up, draining (GracefulStop), gone

tasksVars == <<jobs, proc, ctx, notified, bash, waiter, killer, completions,
               told, phase>>

Ended(t) == proc[t] \in {"exited", "killed"}

(* Kill: the entry is deleted, then the announcement is suppressed, and only  *)
(* then the process is cancelled.                                             *)
KillOrderSwapped == <<"cancel", "suppress">>
KillOrder == <<"suppress", "cancel">>

TasksInit ==
    /\ jobs = {}
    /\ proc = [t \in Tasks |-> "none"]
    /\ ctx = [t \in Tasks |-> FALSE]
    /\ notified = [t \in Tasks |-> FALSE]
    /\ bash = [t \in Tasks |-> "none"]
    /\ waiter = [t \in Tasks |-> "none"]
    /\ killer = [t \in Tasks |-> <<>>]
    /\ completions = <<>>
    /\ told = [t \in Tasks |-> {}]
    /\ phase = "up"

(* Start: finished jobs past the retention window leave the table, the limit  *)
(* is checked, and the command runs.  how is sync or background.              *)
StartTask(t, how) ==
    /\ phase = "up" /\ proc[t] = "none"
    /\ \E old \in SUBSET {j \in jobs : Ended(j)} :
          /\ Cardinality(jobs \ old) < MaxBackgroundJobs
          /\ jobs' = (jobs \ old) \cup {t}
    /\ proc' = [proc EXCEPT ![t] = "running"]
    /\ bash' = [bash EXCEPT ![t] = how]
    /\ UNCHANGED <<ctx, notified, waiter, killer, completions, told, phase>>

(* The limit is reached: the call is answered with an error and nothing runs. *)
StartRefused(t) ==
    /\ phase = "up" /\ proc[t] = "none" /\ bash[t] = "none"
    /\ \E old \in SUBSET {j \in jobs : Ended(j)} :
          /\ Cardinality(jobs \ old) >= MaxBackgroundJobs
          /\ jobs' = jobs \ old
    /\ bash' = [bash EXCEPT ![t] = "returned"]
    /\ UNCHANGED <<proc, ctx, notified, waiter, killer, completions, told, phase>>

(* The process ends by itself, or because its context was cancelled.          *)
TaskEnds(t) ==
    /\ proc[t] = "running"
    /\ \E how \in {"exited"} \cup (IF ctx[t] THEN {"killed"} ELSE {}) :
          proc' = [proc EXCEPT ![t] = how]
    /\ UNCHANGED <<jobs, ctx, notified, bash, waiter, killer, completions, told, phase>>

(* A call that sees the job done removes it and answers with the output.      *)
InlineResult(t) ==
    /\ bash[t] \in {"sync", "background"} /\ Ended(t)
    /\ jobs' = jobs \ {t}
    /\ told' = [told EXCEPT ![t] = @ \cup {"inline"}]
    /\ bash' = [bash EXCEPT ![t] = "returned"]
    /\ UNCHANGED <<proc, ctx, notified, waiter, killer, completions, phase>>

(* The call saw the job still running when its time was over ...              *)
TimesOut(t) ==
    /\ bash[t] \in {"sync", "background"} /\ ~Ended(t)
    /\ bash' = [bash EXCEPT ![t] = "timedOut"]
    /\ UNCHANGED <<jobs, proc, ctx, notified, waiter, killer, completions, told, phase>>

(* ... and leaves it to NotifyOnComplete, which looks the job up again.       *)
NotifyOnComplete(t) ==
    /\ bash[t] = "timedOut"
    /\ waiter' = [waiter EXCEPT ![t] = IF t \in jobs THEN "waiting" ELSE @]
    /\ bash' = [bash EXCEPT ![t] = "returned"]
    /\ UNCHANGED <<jobs, proc, ctx, notified, killer, completions, told, phase>>

(* The goroutine wakes when the job is done; one swap of notified decides     *)
(* whether it announces or stays silent.                                      *)
WaiterWakes(t) ==
    /\ waiter[t] = "waiting" /\ Ended(t)
    /\ waiter' = [waiter EXCEPT ![t] = IF notified[t] THEN "over" ELSE "announcing"]
    /\ notified' = [notified EXCEPT ![t] = TRUE]
    /\ UNCHANGED <<jobs, proc, ctx, bash, killer, completions, told, phase>>

(* OnComplete: sent to the channel, dropped when it is full.                  *)
OnComplete(t) ==
    /\ waiter[t] = "announcing"
    /\ waiter' = [waiter EXCEPT ![t] = "over"]
    /\ completions' = IF Len(completions) < JobBuffer
                      THEN Append(completions, t) ELSE completions
    /\ UNCHANGED <<jobs, proc, ctx, notified, bash, killer, told, phase>>

(* WatchJobs streams a completion, which becomes a notification of the agent. *)
WatchJobs ==
    /\ phase = "up" /\ completions # <<>>
    /\ told' = [told EXCEPT ![Head(completions)] = @ \cup {"announced"}]
    /\ completions' = Tail(completions)
    /\ UNCHANGED <<jobs, proc, ctx, notified, bash, waiter, killer, phase>>

(* Kill: TaskStop of a task whose id the agent was given, or a cancelled      *)
(* synchronous call.                                                          *)
Kill(t) ==
    /\ t \in jobs /\ killer[t] = <<>>
    /\ bash[t] = "returned" \/ bash[t] = "sync"
    /\ phase = "up"
    /\ jobs' = jobs \ {t}
    /\ bash' = [bash EXCEPT ![t] = "returned"]
    /\ killer' = [killer EXCEPT ![t] = KillOrder]
    /\ UNCHANGED <<proc, ctx, notified, waiter, completions, told, phase>>

KillStep(t) ==
    /\ killer[t] # <<>>
    /\ killer' = [killer EXCEPT ![t] = Tail(@)]
    /\ \/ /\ Head(killer[t]) = "suppress"
          /\ notified' = [notified EXCEPT ![t] = TRUE]
          /\ UNCHANGED ctx
       \/ /\ Head(killer[t]) = "cancel"
          /\ ctx' = [ctx EXCEPT ![t] = TRUE]
          /\ UNCHANGED notified
    /\ UNCHANGED <<jobs, proc, bash, waiter, completions, told, phase>>

(* The worker is told to stop: the WatchJobs stream ends and GracefulStop     *)
(* waits for the calls under way.                                             *)
StopWorker ==
    /\ phase = "up"
    /\ phase' = "draining"
    /\ UNCHANGED <<jobs, proc, ctx, notified, bash, waiter, killer, completions, told>>

(* KillAll: the table is emptied and every job suppressed, then cancelled.    *)
KillAll ==
    /\ phase = "draining"
    /\ \A t \in Tasks : bash[t] \in {"none", "returned"} /\ killer[t] = <<>>
    /\ jobs' = {}
    /\ killer' = [t \in Tasks |-> IF t \in jobs THEN KillOrder ELSE <<>>]
    /\ phase' = "gone"
    /\ UNCHANGED <<proc, ctx, notified, bash, waiter, completions, told>>

TaskStep(t) ==
    \/ \E how \in {"sync", "background"} : StartTask(t, how)
    \/ StartRefused(t)
    \/ TaskEnds(t)
    \/ InlineResult(t)
    \/ TimesOut(t)
    \/ NotifyOnComplete(t)
    \/ WaiterWakes(t)
    \/ OnComplete(t)
    \/ Kill(t)
    \/ KillStep(t)

TasksNext == (\E t \in Tasks : TaskStep(t)) \/ WatchJobs \/ StopWorker \/ KillAll

TasksSpec == TasksInit /\ [][TasksNext]_tasksVars

-----------------------------------------------------------------------------
TasksTypeOK ==
    /\ jobs \subseteq Tasks
    /\ proc \in [Tasks -> {"none", "running", "exited", "killed"}]
    /\ ctx \in [Tasks -> BOOLEAN] /\ notified \in [Tasks -> BOOLEAN]
    /\ bash \in [Tasks -> {"none", "sync", "background", "timedOut", "returned"}]
    /\ waiter \in [Tasks -> {"none", "waiting", "announcing", "over"}]
    /\ killer \in [Tasks -> Seq({"suppress", "cancel"})]
    /\ completions \in Seq(Tasks) /\ Len(completions) <= JobBuffer
    /\ told \in [Tasks -> SUBSET {"inline", "announced"}]
    /\ phase \in {"up", "draining", "gone"}

(* The agent hears of the end of a task at most once, inline or through an    *)
(* announcement, and never of a task that ended because it was stopped: the   *)
(* flag is set before the process is cancelled (background.go:213), so the    *)
(* goroutine that wakes on its end finds it.                                  *)
StoppedIsSilent ==
    \A t \in Tasks :
        /\ Cardinality(told[t]) <= 1
        /\ "announced" \in told[t] => proc[t] = "exited"
=============================================================================
