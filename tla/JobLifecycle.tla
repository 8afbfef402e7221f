---------------------------- MODULE JobLifecycle ----------------------------
(***************************************************************************)
(* The life of a Tau job: the Job row in Postgres, the in-process runner   *)
(* that executes it, and everything outside the runner that may end it     *)
(* (the stop button, the deletion of the project, the reaper, a shutdown). *)
(*                                                                         *)
(* Server code runs on one event loop, so whatever happens between two     *)
(* awaits is one atomic step; every await on the database is a point where *)
(* the other parties interleave.  Each action below is such a stretch of   *)
(* code.  `pc[j]` says where the runner's own code stands for job j, and   *)
(* `tasks` holds the other continuations that are waiting on the database. *)
(***************************************************************************)
EXTENDS Integers, Sequences, FiniteSets

CONSTANTS
  Job,          \* identities of Job rows
  Kind,         \* Kind[j] \in JobType: what the row asks for
  ProjectOf,    \* the project a job belongs to
  Concurrency,  \* env.WORKER_CONCURRENCY
  MaxAttempts,  \* MAX_ATTEMPTS of startRunner
  MaxCrashes,   \* bound: how often the process dies or is redeployed
  MaxFaults,    \* bound: how many caught database errors occur
  MaxTasks      \* bound: stop requests and deletions in progress at once

JobType == {"GENERATION", "PREVIEW", "DEPLOY"}

ASSUME JobAssumption ==
  /\ IsFiniteSet(Job)
  /\ Kind \in [Job -> JobType]
  /\ Concurrency \in Nat \ {0}
  /\ MaxAttempts \in Nat \ {0}
  /\ MaxCrashes \in Nat /\ MaxFaults \in Nat /\ MaxTasks \in Nat

VARIABLES
  row,        \* Job.status, "none" before the row exists
  hold,       \* CreditHold.status of the job
  dep,        \* Deployment.status of a DEPLOY job
  queue,      \* the runner's waiting list
  pc,         \* where the runner's code stands for each job
  active,     \* the runner's count of occupied slots
  attempts,   \* the runner's failed attempts per job
  cancelled,  \* bus.cancelled
  claimed,    \* jobs whose terminal frame has been claimed on the bus
  frames,     \* terminal frames emitted by this process (history)
  draining,   \* lifecycle.draining
  tasks,      \* continuations outside the runner's slots
  crashes, faults  \* how much of the bounds is used up

durable == <<row, hold, dep>>
runner  == <<queue, pc, active, attempts>>
bus     == <<cancelled, claimed, frames>>
bounds  == <<crashes, faults>>
vars    == <<durable, runner, bus, draining, tasks, bounds>>

NonTerminal == {"QUEUED", "RUNNING"}
Terminal    == {"COMPLETED", "FAILED", "CANCELLED"}

\* Inside processJob, where the job is registered as resident, whatever its kind.
InRunJob == {"starting", "marking", "working", "depFailing",
             "completing", "ending"}
\* The steps of markFailed.  runOne calls it for a GENERATION job after
\* processJob has thrown; the other kinds call it from within runJob.
InMarkFailed == {"failing", "failEnding"}

\* Inside runOne, which occupies a slot from the shift to its finally.
InSlot == InRunJob \cup InMarkFailed \cup {"retrying"}
Label  == {"idle", "accepted"} \cup InSlot

Executing == {j \in Job : pc[j] \in InSlot}
Resident  == {j \in Job : \/ pc[j] \in InRunJob
                          \/ pc[j] \in InMarkFailed /\ Kind[j] # "GENERATION"}
\* A cancel listener is attached while runJob executes a GENERATION job.
Listening == {j \in Job : Kind[j] = "GENERATION" /\ pc[j] \in InRunJob}

(***************************************************************************)
(* Continuations.  "cancel" and "stop" are requests that read the row and  *)
(* are about to decide; "cancel" and "reap" go on as terminateStrandedJob; *)
(* "handler" is the runner's cancel listener, "drain" a markFailed for a   *)
(* job that will never start.                                              *)
(***************************************************************************)
Cause == {"cancel", "stop", "reap", "handler", "drain"}
Step  == {"check", "cas", "dep", "end"}
Task  == [job : Job, by : Cause, step : Step]

NewTask(j, by, step) == [job |-> j, by |-> by, step |-> step]

\* What the status guard of a terminator writes.
Verdict(by) == IF by \in {"reap", "drain"} THEN "FAILED" ELSE "CANCELLED"

\* terminateStrandedJob has one more statement, for a DEPLOY job's Deployment.
\* (Statements that cannot touch a row of this kind of job are skipped.)
AfterCas(t) ==
  IF t.by \in {"cancel", "reap"} /\ Kind[t.job] = "DEPLOY" THEN "dep" ELSE "end"

Init ==
  /\ row = [j \in Job |-> "none"]
  /\ hold = [j \in Job |-> "none"]
  /\ dep = [j \in Job |-> "none"]
  /\ queue = <<>>
  /\ pc = [j \in Job |-> "idle"]
  /\ active = 0
  /\ attempts = [j \in Job |-> 0]
  /\ cancelled = {} /\ claimed = {} /\ frames = [j \in Job |-> 0]
  /\ draining = FALSE
  /\ tasks = {}
  /\ crashes = 0 /\ faults = 0

-----------------------------------------------------------------------------
(* Helpers shared by the actions. *)

\* updateMany ... where status in [QUEUED, RUNNING]: a compare-and-set.
CanEnd(j)  == row[j] \in NonTerminal
End(j, to) == row' = [row EXCEPT ![j] = to]

\* settle(): ACTIVE becomes SETTLED, anything else is left alone.
Settle(j) ==
  hold' = [hold EXCEPT ![j] = IF @ = "ACTIVE" THEN "SETTLED" ELSE @]

\* Mutant of PublishTerminal: the frame is emitted without asking for the claim.
PublishUnclaimed(j) ==
  /\ claimed' = claimed \cup {j}
  /\ frames' = [frames EXCEPT ![j] = @ + 1]

\* claimTerminal and, if it was granted, the emit, with no await in between.
PublishTerminal(j) ==
  /\ claimed' = claimed \cup {j}
  /\ frames' = [frames EXCEPT ![j] = IF j \in claimed THEN @ ELSE @ + 1]

\* A database error the code catches and survives.
Fault == faults < MaxFaults /\ faults' = faults + 1

\* Mutant of Started: processJob does not ask bus.isCancelled.
StartedRegardless(q, k) == {q[i] : i \in 1 .. k}

(***************************************************************************)
(* pump() over queue q with a slots taken, control ctl and attempts att.   *)
(* It shifts k payloads: the loop guard held before the last shift, and    *)
(* fails after it.  A payload whose job was cancelled leaves processJob at *)
(* once and gives its slot back before anything else runs.                 *)
(***************************************************************************)
Started(q, k) == {q[i] : i \in 1 .. k} \ cancelled

\* Mutant of Pump: the loop guard compares with <=.
PumpOneTooMany(q, a, ctl, att) ==
  \E k \in 0 .. Len(q) :
    /\ k > 0 => ~draining /\ a + Cardinality(Started(q, k - 1)) <= Concurrency
    /\ k < Len(q) => draining \/ a + Cardinality(Started(q, k)) > Concurrency
    /\ queue' = SubSeq(q, k + 1, Len(q))
    /\ active' = a + Cardinality(Started(q, k))
    /\ pc' = [j \in Job |-> IF j \in Started(q, k) THEN "starting" ELSE ctl[j]]
    /\ attempts' = [j \in Job |-> att[j]]

Pump(q, a, ctl, att) ==
  \E k \in 0 .. Len(q) :
    /\ k > 0 => ~draining /\ a + Cardinality(Started(q, k - 1)) < Concurrency
    /\ k < Len(q) => draining \/ a + Cardinality(Started(q, k)) >= Concurrency
    /\ queue' = SubSeq(q, k + 1, Len(q))
    /\ active' = a + Cardinality(Started(q, k))
    /\ pc' = [j \in Job |-> IF j \in Started(q, k) THEN "starting" ELSE ctl[j]]
    /\ attempts' = [j \in Job |-> IF j \in {q[i] : i \in 1 .. k} \cap cancelled
                                  THEN 0 ELSE att[j]]

\* runOne settles: the slot is freed and the queue pumped.
Leave(j) ==
  Pump(queue, active - 1, [pc EXCEPT ![j] = "idle"], [attempts EXCEPT ![j] = 0])

\* The run of j moves on inside its slot.
Goto(j, label) ==
  /\ pc' = [pc EXCEPT ![j] = label]
  /\ UNCHANGED <<queue, active, attempts>>

-----------------------------------------------------------------------------
(* The API: a job is created in one Serializable transaction, then dispatched. *)

\* addMessage / initializeProject, requestDeploy, restartPreview: the transaction.
Create(j) ==
  /\ row[j] = "none"
  /\ \A i \in Job : ProjectOf[i] = ProjectOf[j] => row[i] \notin NonTerminal
  /\ row' = [row EXCEPT ![j] = "QUEUED"]
  /\ hold' = [hold EXCEPT ![j] = IF Kind[j] = "GENERATION" THEN "ACTIVE" ELSE "none"]
  /\ dep' = [dep EXCEPT ![j] = IF Kind[j] = "DEPLOY" THEN "IN_FLIGHT" ELSE "none"]
  /\ Goto(j, "accepted")
  /\ UNCHANGED <<bus, draining, tasks, bounds>>

\* Mutant of Dispatch: a handler of an earlier load of the module is still there.
DispatchTwice(j) ==
  /\ pc[j] = "accepted" /\ ~draining
  /\ Pump(queue \o <<j, j>>, active, [pc EXCEPT ![j] = "idle"], attempts)
  /\ UNCHANGED <<durable, bus, draining, tasks, bounds>>

\* enqueueJob: the runner's dispatch handler, called synchronously.
Dispatch(j) ==
  /\ pc[j] = "accepted"
  /\ IF draining
     THEN /\ tasks' = tasks \cup {NewTask(j, "drain", "cas")}
          /\ Goto(j, "idle")
     ELSE /\ Pump(Append(queue, j), active, [pc EXCEPT ![j] = "idle"], attempts)
          /\ UNCHANGED tasks
  /\ UNCHANGED <<durable, bus, draining, bounds>>

-----------------------------------------------------------------------------
(* The runner: processJob, runJob and its kinds. *)

\* The update to RUNNING.  It is not guarded on the status it replaces.
StartRow(j) ==
  /\ pc[j] = "starting"
  /\ row' = [row EXCEPT ![j] = "RUNNING"]
  /\ Goto(j, IF Kind[j] = "DEPLOY" THEN "marking" ELSE "working")
  /\ UNCHANGED <<hold, dep, bus, draining, tasks, bounds>>

\* runDeployJob puts its Deployment into BUILDING or VALIDATING.
MarkBuilding(j) ==
  /\ pc[j] = "marking"
  /\ dep' = [dep EXCEPT ![j] = "IN_FLIGHT"]
  /\ Goto(j, "working")
  /\ UNCHANGED <<row, hold, bus, draining, tasks, bounds>>

\* Every later stage of a build writes its own status, over whatever is there.
Progress(j) ==
  /\ pc[j] = "working" /\ Kind[j] = "DEPLOY"
  /\ dep' = [dep EXCEPT ![j] = "IN_FLIGHT"]
  /\ UNCHANGED <<row, hold, runner, bus, draining, tasks, bounds>>

\* The work of the job is done: the agent loop returned (for whatever reason),
\* the preview is up, or the transaction that moves the live pointer committed.
Finish(j) ==
  /\ pc[j] = "working"
  /\ IF Kind[j] = "GENERATION" /\ j \in cancelled
     THEN Leave(j) ELSE Goto(j, "completing")
  /\ dep' = [dep EXCEPT ![j] = IF Kind[j] = "DEPLOY" THEN "READY" ELSE @]
  /\ UNCHANGED <<row, hold, bus, draining, tasks, bounds>>

\* The transaction that moves the live pointer committed, and its answer was lost:
\* the run goes on into its catch block as if the build had failed.
LoseCommit(j) ==
  /\ pc[j] = "working" /\ Kind[j] = "DEPLOY" /\ Fault
  /\ dep' = [dep EXCEPT ![j] = "READY"]
  /\ Goto(j, "depFailing")
  /\ UNCHANGED <<row, hold, bus, draining, tasks, crashes>>

\* Mutant of Complete: no compare-and-set, like the other kinds.
CompleteUnguarded(j) ==
  /\ pc[j] = "completing"
  /\ End(j, "COMPLETED") /\ Goto(j, "ending")
  /\ UNCHANGED <<hold, dep, bus, draining, tasks, bounds>>

\* The update to COMPLETED: guarded on RUNNING for a GENERATION job only.
Complete(j) ==
  /\ pc[j] = "completing"
  /\ IF Kind[j] = "GENERATION"
     THEN IF row[j] = "RUNNING"
          THEN End(j, "COMPLETED") /\ Goto(j, "ending")
          ELSE UNCHANGED row /\ Leave(j)
     ELSE End(j, "COMPLETED") /\ Goto(j, "ending")
  /\ UNCHANGED <<hold, dep, bus, draining, tasks, bounds>>

\* Mutant of EndRun: a failed run publishes nothing.
EndRunSilently(j) ==
  /\ pc[j] \in {"ending", "failEnding"}
  /\ Settle(j)
  /\ IF pc[j] = "ending" THEN PublishTerminal(j) ELSE UNCHANGED <<claimed, frames>>
  /\ Leave(j)
  /\ UNCHANGED <<row, dep, cancelled, draining, tasks, bounds>>

\* What follows the ending of a row, in a run and in markFailed: settle, whose
\* error is logged and swallowed, then the terminal frame, and the slot is free.
EndRun(j) ==
  /\ pc[j] \in {"ending", "failEnding"}
  /\ \/ Settle(j) /\ UNCHANGED faults
     \/ Fault /\ UNCHANGED hold
  /\ PublishTerminal(j)
  /\ Leave(j)
  /\ UNCHANGED <<row, dep, cancelled, draining, tasks, crashes>>

\* Mutant of Throw: one retry too many.
ThrowRetriesAgain(j) ==
  /\ Kind[j] = "GENERATION" /\ pc[j] \in {"starting", "working", "completing"}
  /\ LET n == attempts[j] + 1
         retry == n <= MaxAttempts /\ j \notin cancelled /\ ~draining
     IN /\ pc' = [pc EXCEPT ![j] = IF retry THEN "retrying" ELSE "failing"]
        /\ attempts' = [attempts EXCEPT ![j] = IF retry THEN n ELSE 0]
  /\ UNCHANGED <<queue, active, durable, bus, draining, tasks, bounds>>

\* Anything throws.  A DEPLOY that threw while building fails its Deployment
\* first; a GENERATION run reaches runOne, which retries or gives up.
Throw(j) ==
  /\ pc[j] \in {"starting", "marking", "working", "completing"}
  /\ LET n == attempts[j] + 1
         retry == n < MaxAttempts /\ j \notin cancelled /\ ~draining
     IN CASE Kind[j] = "GENERATION" ->
               /\ pc' = [pc EXCEPT ![j] = IF retry THEN "retrying" ELSE "failing"]
               /\ attempts' = [attempts EXCEPT ![j] = IF retry THEN n ELSE 0]
               /\ UNCHANGED <<queue, active>>
          [] Kind[j] = "DEPLOY" /\ pc[j] = "working" -> Goto(j, "depFailing")
          [] OTHER -> Goto(j, "failing")
  /\ UNCHANGED <<durable, bus, draining, tasks, bounds>>

\* Mutant of RetryPush: the slot is freed, and nobody pumps after the push.
RetryWithoutPump(j) ==
  /\ pc[j] = "retrying"
  /\ queue' = Append(queue, j) /\ active' = active - 1
  /\ pc' = [pc EXCEPT ![j] = "idle"]
  /\ UNCHANGED <<attempts, durable, bus, draining, tasks, bounds>>

\* The retry's own update of the row has returned: push the payload, settle.
RetryPush(j) ==
  /\ pc[j] = "retrying"
  /\ Pump(Append(queue, j), active - 1, [pc EXCEPT ![j] = "idle"], attempts)
  /\ UNCHANGED <<durable, bus, draining, tasks, bounds>>

\* runDeployJob's catch block; its own update is allowed to fail.
FailDeployment(j) ==
  /\ pc[j] = "depFailing"
  /\ Goto(j, "failing")
  /\ \/ dep' = [dep EXCEPT ![j] = "FAILED"] /\ UNCHANGED faults
     \/ Fault /\ UNCHANGED dep
  /\ UNCHANGED <<row, hold, bus, draining, tasks, crashes>>

\* markFailed: the guarded update, lost to someone else, or not written at all,
\* in which case the browser is still given an ending.
MarkFailed(j) ==
  /\ pc[j] = "failing"
  /\ \/ CanEnd(j) /\ End(j, "FAILED") /\ Goto(j, "failEnding") /\ UNCHANGED <<bus, faults>>
     \/ ~CanEnd(j) /\ Leave(j) /\ UNCHANGED <<row, bus, faults>>
     \/ Fault /\ PublishTerminal(j) /\ Leave(j) /\ UNCHANGED <<row, cancelled>>
  /\ UNCHANGED <<hold, dep, draining, tasks, crashes>>

\* Every step of a run except the work itself, which may never come back.
RunnerStep(j) ==
  \/ Dispatch(j) \/ StartRow(j) \/ MarkBuilding(j) \/ Complete(j) \/ EndRun(j)
  \/ RetryPush(j) \/ FailDeployment(j) \/ MarkFailed(j)

-----------------------------------------------------------------------------
(* Ending a job from outside its run. *)

\* POST cancel (by = "cancel") or a project's deletion (by = "stop") reads the row.
Request(j, by) ==
  /\ CanEnd(j)
  /\ Cardinality({t \in tasks : t.by \in {"cancel", "stop"}}) < MaxTasks
  /\ tasks' = tasks \cup {NewTask(j, by, "check")}
  /\ UNCHANGED <<durable, runner, bus, draining, bounds>>

\* The request decides.  The stop button signals only a resident job and ends the
\* row of any other; a deletion signals in either case, and refuses to stop a deploy.
Decide(t) ==
  LET j       == t.job
      refused == t.by = "stop" /\ j \in Resident /\ Kind[j] = "DEPLOY"
      signal  == ~refused /\ (t.by = "stop" \/ j \in Resident)
      handler == IF signal /\ j \in Listening THEN {NewTask(j, "handler", "cas")} ELSE {}
      strand  == IF j \in Resident THEN {} ELSE {NewTask(j, "cancel", "cas")}
  IN /\ t \in tasks /\ t.step = "check"
     /\ cancelled' = IF signal THEN cancelled \cup {j} ELSE cancelled
     /\ tasks' = (tasks \ {t}) \cup handler \cup strand
     /\ UNCHANGED <<durable, runner, claimed, frames, draining, bounds>>

\* A reaper pass terminates the rows it found one after the other.
ReaperIdle == \A t \in tasks : t.by # "reap"

\* Mutant of Reap: only rows that ever ran are looked for.
ReapRunningOnly(j) ==
  /\ row[j] = "RUNNING" /\ j \notin Resident
  /\ ReaperIdle
  /\ tasks' = tasks \cup {NewTask(j, "reap", "cas")}
  /\ UNCHANGED <<durable, runner, bus, draining, bounds>>

\* The reaper picks a stale row that is not resident, on boot or hourly.  A row
\* between its transaction and its dispatch is never that old.
Reap(j) ==
  /\ CanEnd(j) /\ pc[j] # "accepted" /\ j \notin Resident
  /\ ReaperIdle
  /\ tasks' = tasks \cup {NewTask(j, "reap", "cas")}
  /\ UNCHANGED <<durable, runner, bus, draining, bounds>>

\* A run wedged in its work beyond MAX_RESIDENT_MS has lost its protection.
ReapWedged(j) ==
  /\ CanEnd(j) /\ pc[j] = "working"
  /\ ReaperIdle
  /\ tasks' = tasks \cup {NewTask(j, "reap", "cas")}
  /\ UNCHANGED <<durable, runner, bus, draining, bounds>>

\* The guarded update of terminateStrandedJob, of the cancel listener, of a drain's
\* markFailed.  An error ends the continuation; only markFailed still emits a frame.
TaskCas(t) ==
  /\ t \in tasks /\ t.step = "cas"
  /\ \/ /\ CanEnd(t.job) /\ End(t.job, Verdict(t.by))
        /\ tasks' = (tasks \ {t}) \cup {[t EXCEPT !.step = AfterCas(t)]}
        /\ UNCHANGED <<bus, faults>>
     \/ /\ ~CanEnd(t.job)
        /\ tasks' = tasks \ {t}
        /\ UNCHANGED <<row, bus, faults>>
     \/ /\ Fault
        /\ tasks' = tasks \ {t}
        /\ IF t.by = "drain"
           THEN PublishTerminal(t.job) /\ UNCHANGED cancelled
           ELSE UNCHANGED bus
        /\ UNCHANGED row
  /\ UNCHANGED <<hold, dep, runner, draining, crashes>>

\* Mutant of TaskDep: the update is not guarded on the statuses of a build.
TaskDepUnguarded(t) ==
  /\ t \in tasks /\ t.step = "dep"
  /\ dep' = [dep EXCEPT ![t.job] = "FAILED"]
  /\ tasks' = (tasks \ {t}) \cup {[t EXCEPT !.step = "end"]}
  /\ UNCHANGED <<row, hold, runner, bus, draining, bounds>>

\* terminateStrandedJob fails a Deployment still in flight; an error is swallowed.
TaskDep(t) ==
  /\ t \in tasks /\ t.step = "dep"
  /\ \/ /\ dep' = [dep EXCEPT ![t.job] = IF @ = "IN_FLIGHT" THEN "FAILED" ELSE @]
        /\ UNCHANGED faults
     \/ Fault /\ UNCHANGED dep
  /\ tasks' = (tasks \ {t}) \cup {[t EXCEPT !.step = "end"]}
  /\ UNCHANGED <<row, hold, runner, bus, draining, crashes>>

\* settle, then the frame.  An error in settle ends the continuation without a
\* frame, except in markFailed, which swallows it.
TaskEnd(t) ==
  /\ t \in tasks /\ t.step = "end"
  /\ \/ Settle(t.job) /\ PublishTerminal(t.job) /\ UNCHANGED faults
     \/ /\ Fault /\ UNCHANGED hold
        /\ IF t.by = "drain" THEN PublishTerminal(t.job) ELSE UNCHANGED <<claimed, frames>>
  /\ tasks' = tasks \ {t}
  /\ UNCHANGED <<row, dep, cancelled, runner, draining, crashes>>

TaskStep(t) == Decide(t) \/ TaskCas(t) \/ TaskDep(t) \/ TaskEnd(t)

\* Mutant of SweepHold: the query leaves out failed jobs.
SweepHoldUnlessFailed(j) ==
  /\ hold[j] = "ACTIVE" /\ row[j] \in {"COMPLETED", "CANCELLED"}
  /\ hold' = [hold EXCEPT ![j] = "SETTLED"]
  /\ UNCHANGED <<row, dep, runner, bus, draining, tasks, bounds>>

\* sweepStuckHolds, and the same settle in cancelAllActiveJobs: a hold still ACTIVE
\* behind a terminal row.
SweepHold(j) ==
  /\ hold[j] = "ACTIVE" /\ row[j] \in Terminal
  /\ hold' = [hold EXCEPT ![j] = "SETTLED"]
  /\ UNCHANGED <<row, dep, runner, bus, draining, tasks, bounds>>

-----------------------------------------------------------------------------
(* The process. *)

\* SIGTERM: nothing starts from here on, and the waiting jobs are failed.
StartDrain ==
  /\ ~draining /\ crashes < MaxCrashes
  /\ draining' = TRUE
  /\ queue' = <<>>
  /\ tasks' = tasks \cup {NewTask(queue[i], "drain", "cas") : i \in DOMAIN queue}
  /\ UNCHANGED <<durable, pc, active, attempts, bus, bounds>>

\* A crash, an OOM kill, or the end of a drain: everything in memory is gone.
Restart ==
  /\ crashes < MaxCrashes
  /\ crashes' = crashes + 1
  /\ queue' = <<>> /\ active' = 0
  /\ pc' = [j \in Job |-> "idle"]
  /\ attempts' = [j \in Job |-> 0]
  /\ cancelled' = {} /\ claimed' = {} /\ frames' = [j \in Job |-> 0]
  /\ draining' = FALSE
  /\ tasks' = {}
  /\ UNCHANGED <<durable, faults>>

Next ==
  \/ \E j \in Job :
       \/ Create(j) \/ RunnerStep(j) \/ Progress(j) \/ Finish(j) \/ LoseCommit(j) \/ Throw(j)
       \/ Request(j, "cancel") \/ Request(j, "stop")
       \/ Reap(j) \/ ReapWedged(j) \/ SweepHold(j)
  \/ \E t \in tasks : TaskStep(t)
  \/ StartDrain
  \/ Restart

Spec == Init /\ [][Next]_vars

\* The database answers, so every step waiting on it happens; the reaper and the
\* hold sweep run on their hourly timer; a draining process exits at its deadline.
\* Nothing promises that the work of a job ends, that anyone presses stop, or that
\* jobs are created.
Fairness ==
  /\ \A j \in Job :
       /\ WF_vars(RunnerStep(j))
       /\ SF_vars(Reap(j) \/ ReapWedged(j))
       /\ WF_vars(SweepHold(j))
       /\ \A by \in Cause : WF_vars(\E t \in tasks : t.job = j /\ t.by = by /\ TaskStep(t))
  /\ WF_vars(draining /\ Restart)

FairSpec == Spec /\ Fairness

-----------------------------------------------------------------------------
(* Invariants and action properties. *)

\* Every variable has its type.
TypeOK ==
  /\ row \in [Job -> {"none"} \cup NonTerminal \cup Terminal]
  /\ hold \in [Job -> {"none", "ACTIVE", "SETTLED"}]
  /\ dep \in [Job -> {"none", "IN_FLIGHT", "READY", "FAILED"}]
  /\ queue \in Seq(Job)
  /\ pc \in [Job -> Label]
  /\ active \in Nat
  /\ attempts \in [Job -> 0 .. MaxAttempts - 1]
  /\ cancelled \subseteq Job /\ claimed \subseteq Job
  /\ frames \in [Job -> Nat]
  /\ draining \in BOOLEAN
  /\ tasks \subseteq Task
  /\ crashes \in 0 .. MaxCrashes /\ faults \in 0 .. MaxFaults

\* A job is never executed twice at once: the waiting list holds it at most once,
\* and never while the runner still executes it, however retries, dispatches,
\* stops and drains interleave (startRunner's queue, worker/index.ts).
SingleExecution ==
  /\ \A a, b \in DOMAIN queue : queue[a] = queue[b] => a = b
  /\ \A a \in DOMAIN queue : pc[queue[a]] = "idle"

\* The runner's counter never loses or leaks a slot: it is the number of jobs in
\* execution, and at most WORKER_CONCURRENCY (pump and its finally).
SlotsAccounted == active = Cardinality(Executing) /\ active <= Concurrency

\* No job waits beside a free slot.  The retry path pushes without pumping, and
\* a cancelled payload at the head gives its slot straight back.
WorkConserving == queue # <<>> /\ ~draining => active = Concurrency

\* One process emits at most one terminal frame per job, though the run, its
\* cancel listener, the reaper and the stop button may all end it (claimTerminal).
OneTerminalFrame == \A j \in Job : frames[j] <= 1

\* Whoever still owes job j the terminal frame for an ending it has written.
FramePending(j) ==
  \/ pc[j] \in {"ending", "failEnding"}
  \/ \E t \in tasks : t.job = j /\ t.step \in {"dep", "end"}

\* Its browser has been told that job j is over, or somebody is on the way to do so.
Told(j) == frames[j] = 1 \/ FramePending(j)

\* Somebody in this process will take job j up, has it in hand, or is about to end it.
InHand(j) ==
  \/ pc[j] # "idle"
  \/ \E i \in DOMAIN queue : queue[i] = j
  \/ \E t \in tasks : t.job = j /\ t.step = "cas"

\* While nothing has failed, an ended job has had its terminal frame or somebody is on
\* the way to emit it, and any other is in somebody's hands, unless it was told of an
\* end already: whoever loses a compare-and-set, skips a cancelled payload or finds
\* its run cancelled may leave silently only because another speaks.
EndingAnnounced ==
  crashes = 0 /\ faults = 0 =>
    \A j \in Job : /\ row[j] \in Terminal => Told(j)
                   /\ row[j] \in NonTerminal => InHand(j) \/ Told(j)

\* Once a stop was signalled and the job is not in the registry, the runner never
\* takes it up again: deleteProject waits for exactly that before it deletes.
StoppedStaysStopped ==
  [][\A j \in Job : j \in cancelled /\ j \notin Resident => j \notin Resident']_vars

\* The ending of a generation job is never replaced by another ending: completion,
\* cancellation, failure and the reaper race through compare-and-sets.
EndingKept ==
  [][\A j \in Job :
       Kind[j] = "GENERATION" /\ row[j] \in Terminal /\ row'[j] \in Terminal
         => row'[j] = row[j]]_vars

\* A deployment that went live is not taken back by anybody who decided earlier: the
\* reaper and the stop button, which end the row and turn to the Deployment a
\* statement later, nor by a stage of a build, whatever was retried or restarted in
\* between.  Only the run itself may, in its catch block, when it never heard of
\* its own commit (terminateStrandedJob, runDeployJob).
ReadyKept ==
  [][\A j \in Job : dep[j] = "READY" /\ pc[j] # "depFailing" => dep'[j] = "READY"]_vars

\* The runner, seen through its waiting list and its occupied slots, is a bounded
\* first-in first-out pool: nothing overtakes, nothing exceeds the limit, and a
\* free slot is never left beside a waiting job (startRunner).
Pool == INSTANCE WorkerPool
          WITH Slots <- Concurrency, waiting <- queue, busy <- Executing, open <- ~draining

PoolImplemented == Pool!Spec

-----------------------------------------------------------------------------
(* Liveness, under FairSpec. *)

\* Every job ends for good, whatever crashed, wedged, failed or was stopped.
EveryJobEnds == <>[](\A j \in Job : row[j] \notin NonTerminal)

\* No credit hold stays ACTIVE, so no concurrency slot of the user is lost, though
\* the settle after the job's end may fail or be cut off by a crash.
HoldsReleased == <>[](\A j \in Job : hold[j] # "ACTIVE")

-----------------------------------------------------------------------------
(* What comments in the code say, and the code does not keep. *)

\* worker/index.ts:388 "Stopped while it was still waiting its turn, which only a
\* project being deleted does": a job whose row was cancelled while it waited is
\* not started any more.
CancelledWaitingNeverStarts ==
  [][\A j \in Job : row[j] = "CANCELLED" /\ pc[j] = "idle" => pc'[j] # "starting"]_vars
=============================================================================
