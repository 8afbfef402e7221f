------------------------- MODULE JobLifecycleProofs -------------------------
(* Theorems about JobLifecycle that hold for every set of jobs, every         *)
(* concurrency limit, and any number of crashes, faults and requests.         *)
EXTENDS JobLifecycle, FiniteSetTheorems, SequenceTheorems, TLAPS

USE JobAssumption

Occupied(ctl) == {j \in Job : ctl[j] \in InSlot}

\* The jobs that occupy a slot are finitely many.
LEMMA OccupiedFinite ==
  ASSUME NEW ctl
  PROVE  /\ IsFiniteSet(Occupied(ctl))
         /\ Cardinality(Occupied(ctl)) \in Nat
BY FS_Subset, FS_CardinalityType DEF Occupied

\* What the pump may be called with: a list of idle jobs without repetition, and
\* a count that agrees with the control state.
PumpReady(q, a, ctl, att) ==
  /\ q \in Seq(Job) /\ a \in Nat
  /\ ctl \in [Job -> Label] /\ att \in [Job -> 0 .. MaxAttempts - 1]
  /\ \A i, k \in DOMAIN q : q[i] = q[k] => i = k
  /\ \A i \in DOMAIN q : ctl[q[i]] = "idle"
  /\ a = Cardinality(Occupied(ctl)) /\ a <= Concurrency

\* The part of the invariant that speaks of the runner's own variables.
RunnerOK ==
  /\ queue \in Seq(Job) /\ active \in Nat
  /\ pc \in [Job -> Label] /\ attempts \in [Job -> 0 .. MaxAttempts - 1]
  /\ SingleExecution
  /\ SlotsAccounted
  /\ WorkConserving

\* The jobs started by the first n shifts are finitely many, and one shift starts
\* at most one.
LEMMA StartedCount ==
  ASSUME NEW q \in Seq(Job), NEW k \in 0 .. Len(q)
  PROVE  /\ Started(q, k) \subseteq Job
         /\ IsFiniteSet(Started(q, k)) /\ Cardinality(Started(q, k)) \in Nat
         /\ k > 0 => Cardinality(Started(q, k)) <= Cardinality(Started(q, k - 1)) + 1
         /\ k = 0 => Cardinality(Started(q, k)) = 0
<1>1. \A n \in 0 .. Len(q) : Started(q, n) \subseteq Job
  BY DEF Started
<1>2. \A n \in 0 .. Len(q) : /\ IsFiniteSet(Started(q, n))
                             /\ Cardinality(Started(q, n)) \in Nat
  BY <1>1, FS_Subset, FS_CardinalityType
<1>3. ASSUME k > 0 PROVE Cardinality(Started(q, k)) <= Cardinality(Started(q, k - 1)) + 1
  <2> DEFINE T == Started(q, k - 1) \cup {q[k]}
  <2>1. k - 1 \in 0 .. Len(q)
    BY <1>3
  <2>2. IsFiniteSet(T) /\ Cardinality(T) <= Cardinality(Started(q, k - 1)) + 1
    <3>1. IsFiniteSet(Started(q, k - 1)) /\ Cardinality(Started(q, k - 1)) \in Nat
      BY <1>2, <2>1
    <3>2. /\ IsFiniteSet(T)
          /\ Cardinality(T) = IF q[k] \in Started(q, k - 1) THEN Cardinality(Started(q, k - 1))
                               ELSE Cardinality(Started(q, k - 1)) + 1
      BY <3>1, FS_AddElement
    <3> QED
      BY <3>1, <3>2
  <2>3. Started(q, k) \subseteq T
    BY <1>3 DEF Started
  <2>4. Cardinality(Started(q, k)) <= Cardinality(T)
    BY <2>2, <2>3, FS_Subset
  <2>5. Cardinality(T) \in Nat
    BY <2>2, FS_CardinalityType
  <2> QED
    BY <1>2, <2>1, <2>2, <2>4, <2>5
<1>4. ASSUME k = 0 PROVE Cardinality(Started(q, k)) = 0
  <2>1. Started(q, k) = {}
    BY <1>4 DEF Started
  <2> QED
    BY <2>1, FS_EmptySet
<1> QED
  BY <1>1, <1>2, <1>3, <1>4

\* What is left of the list after k shifts.
LEMMA RestOfQueue ==
  ASSUME NEW q \in Seq(Job), NEW k \in 0 .. Len(q), NEW r, r = SubSeq(q, k + 1, Len(q))
  PROVE  /\ r \in Seq(Job) /\ Len(r) = Len(q) - k /\ DOMAIN r = 1 .. Len(q) - k
         /\ \A i \in 1 .. Len(q) - k : r[i] = q[k + i]
<1>1. Len(q) \in Nat /\ k \in Int /\ k + 1 \in Int /\ Len(q) \in Int
  BY LenProperties
<1>2. \A i \in k + 1 .. Len(q) : q[i] \in Job
  BY <1>1, LenProperties
<1>3. /\ SubSeq(q, k + 1, Len(q)) \in Seq(Job)
      /\ Len(SubSeq(q, k + 1, Len(q)))
           = IF k + 1 <= Len(q) THEN Len(q) - (k + 1) + 1 ELSE 0
      /\ \A i \in 1 .. Len(q) - (k + 1) + 1 : SubSeq(q, k + 1, Len(q))[i] = q[k + 1 + i - 1]
  BY <1>1, <1>2, SubSeqProperties
<1>4. r \in Seq(Job) /\ Len(r) = Len(q) - k
  BY <1>1, <1>3
<1>5. DOMAIN r = 1 .. Len(q) - k
  BY <1>4, LenProperties
<1>6. ASSUME NEW i \in 1 .. Len(q) - k PROVE r[i] = q[k + i]
  <2>1. i \in 1 .. Len(q) - (k + 1) + 1 /\ k + 1 + i - 1 = k + i
    BY <1>1
  <2> QED
    BY <2>1, <1>3
<1> QED
  BY <1>4, <1>5, <1>6

\* The pump keeps the runner consistent.
LEMMA PumpKeepsRunner ==
  ASSUME NEW q, NEW a, NEW ctl, NEW att,
         PumpReady(q, a, ctl, att), Pump(q, a, ctl, att), draining' = draining
  PROVE  RunnerOK'
<1>1. PICK k \in 0 .. Len(q) :
        /\ k > 0 => ~draining /\ a + Cardinality(Started(q, k - 1)) < Concurrency
        /\ k < Len(q) => draining \/ a + Cardinality(Started(q, k)) >= Concurrency
        /\ queue' = SubSeq(q, k + 1, Len(q))
        /\ active' = a + Cardinality(Started(q, k))
        /\ pc' = [j \in Job |-> IF j \in Started(q, k) THEN "starting" ELSE ctl[j]]
        /\ attempts' = [j \in Job |-> IF j \in {q[i] : i \in 1 .. k} \cap cancelled
                                      THEN 0 ELSE att[j]]
  BY DEF Pump
<1> DEFINE S == Started(q, k)
<1>2. /\ q \in Seq(Job) /\ a \in Nat /\ ctl \in [Job -> Label]
      /\ att \in [Job -> 0 .. MaxAttempts - 1]
      /\ DOMAIN q = 1 .. Len(q) /\ Len(q) \in Nat
  BY DEF PumpReady
<1>3. /\ S \subseteq Job /\ IsFiniteSet(S) /\ Cardinality(S) \in Nat
      /\ k > 0 => Cardinality(S) <= Cardinality(Started(q, k - 1)) + 1
      /\ k = 0 => Cardinality(S) = 0
  BY <1>2, StartedCount
<1>4. active' \in Nat /\ active' <= Concurrency
  <2>1. CASE k = 0
    BY <2>1, <1>1, <1>2, <1>3 DEF PumpReady
  <2>2. CASE k > 0
    <3>1. k - 1 \in 0 .. Len(q)
      BY <2>2, <1>2
    <3>2. Cardinality(Started(q, k - 1)) \in Nat
      BY <3>1, <1>2, StartedCount
    <3> QED
      BY <2>2, <3>2, <1>1, <1>2, <1>3
  <2> QED
    BY <2>1, <2>2, <1>2
<1>5. pc' \in [Job -> Label]
  BY <1>1, <1>2 DEF Label, InSlot, InRunJob
<1>6. active' = Cardinality(Executing')
  <2>1. Executing' = Occupied(ctl) \cup S
    BY <1>1, <1>3 DEF Executing, Occupied, InSlot, InRunJob
  <2>2. Occupied(ctl) \cap S = {}
    <3> SUFFICES ASSUME NEW j \in S, j \in Occupied(ctl) PROVE FALSE
      OBVIOUS
    <3>1. PICK i \in 1 .. k : j = q[i]
      BY DEF Started
    <3>2. i \in DOMAIN q
      BY <1>2
    <3>3. ctl[j] = "idle"
      BY <3>1, <3>2 DEF PumpReady
    <3> QED
      BY <3>3 DEF Occupied, InSlot, InRunJob, InMarkFailed
  <2>3. /\ IsFiniteSet(Occupied(ctl)) /\ Cardinality(Occupied(ctl)) \in Nat
        /\ Cardinality(Occupied(ctl) \cap S) = 0
    BY <2>2, OccupiedFinite, FS_EmptySet
  <2>4. Cardinality(Occupied(ctl) \cup S) = Cardinality(Occupied(ctl)) + Cardinality(S)
                                             - Cardinality(Occupied(ctl) \cap S)
    BY <2>3, <1>3, FS_Union
  <2> HIDE DEF S
  <2> QED
    BY <2>1, <2>3, <2>4, <1>1, <1>3 DEF PumpReady, S
<1>7. /\ queue' \in Seq(Job) /\ Len(queue') = Len(q) - k
      /\ DOMAIN queue' = 1 .. Len(q) - k
      /\ \A i \in 1 .. Len(q) - k : queue'[i] = q[k + i]
  <2> DEFINE r == SubSeq(q, k + 1, Len(q))
  <2>1. /\ r \in Seq(Job) /\ Len(r) = Len(q) - k /\ DOMAIN r = 1 .. Len(q) - k
        /\ \A i \in 1 .. Len(q) - k : r[i] = q[k + i]
    <3> HIDE DEF r
    <3> QED
      BY <1>2, RestOfQueue DEF r
  <2>2. queue' = r
    BY <1>1
  <2> QED
    BY <2>1, <2>2
<1>8. \A x, y \in DOMAIN queue' : queue'[x] = queue'[y] => x = y
  <2> SUFFICES ASSUME NEW x \in 1 .. Len(q) - k, NEW y \in 1 .. Len(q) - k,
                      q[k + x] = q[k + y]
               PROVE  x = y
    BY <1>7
  <2>1. k + x \in DOMAIN q /\ k + y \in DOMAIN q
    BY <1>2
  <2>2. k + x = k + y
    BY <2>1 DEF PumpReady
  <2> QED
    BY <2>2, <1>2
<1>9. \A x \in DOMAIN queue' : pc'[queue'[x]] = "idle"
  <2> SUFFICES ASSUME NEW x \in 1 .. Len(q) - k PROVE pc'[q[k + x]] = "idle"
    BY <1>7
  <2>1. k + x \in DOMAIN q /\ q[k + x] \in Job
    BY <1>2
  <2>2. q[k + x] \notin S
    <3> SUFFICES ASSUME NEW i \in 1 .. k, q[k + x] = q[i] PROVE FALSE
      BY DEF Started
    <3>1. i \in DOMAIN q
      BY <1>2
    <3>2. k + x = i
      BY <2>1, <3>1 DEF PumpReady
    <3> QED
      BY <3>2, <1>2
  <2>3. ctl[q[k + x]] = "idle"
    BY <2>1 DEF PumpReady
  <2> QED
    BY <2>1, <2>2, <2>3, <1>1
<1>10. attempts' \in [Job -> 0 .. MaxAttempts - 1]
  <2>1. 0 \in 0 .. MaxAttempts - 1
    OBVIOUS
  <2> QED
    BY <2>1, <1>1, <1>2
<1>11. queue' # <<>> /\ ~draining' => active' = Concurrency
  <2> SUFFICES ASSUME queue' # <<>>, ~draining PROVE active' = Concurrency
    OBVIOUS
  <2>1. Len(q) - k \in Nat \ {0}
    <3>1. Len(queue') \in Nat \ {0}
      BY <1>7, EmptySeq
    <3> QED
      BY <3>1, <1>7
  <2>2. k < Len(q)
    <3>1. Len(q) \in Nat
      BY <1>2
    <3> QED
      BY <2>1, <3>1
  <2> QED
    BY <2>2, <1>1, <1>4
<1> QED
  BY <1>4, <1>5, <1>6, <1>7, <1>8, <1>9, <1>10, <1>11
     DEF RunnerOK, SingleExecution, SlotsAccounted, WorkConserving

-----------------------------------------------------------------------------
(* Every step falls into one of four shapes, as far as the runner goes.       *)

ResidentAt(j, label) ==
  label \in InRunJob \/ (label \in InMarkFailed /\ Kind[j] # "GENERATION")

InQueue(j) == \E a \in DOMAIN queue : queue[a] = j

\* A job whose row does not exist is unknown to the runner.
Fresh == \A j \in Job : row[j] = "none" => pc[j] = "idle" /\ ~InQueue(j)

\* The terminal frames emitted are the claims granted.
FramesClaimed == \A j \in Job : frames[j] = IF j \in claimed THEN 1 ELSE 0

\* The inductive invariant.
IInv == /\ TypeOK
        /\ SingleExecution /\ SlotsAccounted /\ WorkConserving
        /\ Fresh /\ FramesClaimed

\* Where the runner may stand for a deploy job that went live: past the build.
PastBuild == {"idle", "completing", "ending", "depFailing", "failing", "failEnding"}

\* At most one job moves on, without entering or leaving a slot, and without
\* entering a build once it is past it.
QuietStep ==
  /\ UNCHANGED <<queue, active, draining>>
  /\ attempts' \in [Job -> 0 .. MaxAttempts - 1]
  /\ \/ UNCHANGED pc
     \/ \E j \in Job, l \in Label :
          /\ pc' = [pc EXCEPT ![j] = l]
          /\ row'[j] # "none" /\ ~InQueue(j)
          /\ pc[j] \in InSlot <=> l \in InSlot
          /\ ResidentAt(j, l) => ResidentAt(j, pc[j])
          /\ row[j] # "none" /\ Kind[j] = "DEPLOY" /\ pc[j] \in PastBuild
               => l \in PastBuild

SubmitStep(j) ==
  /\ pc[j] = "accepted"
  /\ Pump(Append(queue, j), active, [pc EXCEPT ![j] = "idle"], attempts)
  /\ UNCHANGED draining

ReleaseStep(j) == j \in Executing /\ Leave(j) /\ UNCHANGED draining

RequeueStep(j) ==
  /\ j \in Executing /\ pc[j] = "retrying"
  /\ Pump(Append(queue, j), active - 1, [pc EXCEPT ![j] = "idle"], attempts)
  /\ UNCHANGED draining

CloseStep ==
  /\ ~draining /\ draining' /\ queue' = <<>>
  /\ UNCHANGED <<pc, active, attempts>>

ResetStep ==
  /\ queue' = <<>> /\ active' = 0 /\ draining' = FALSE
  /\ pc' = [j \in Job |-> "idle"] /\ attempts' = [j \in Job |-> 0]

\* A job moves on within the same kind of place.
LEMMA MoveIsQuiet ==
  ASSUME IInv, NEW j \in Job, NEW l \in Label, pc[j] # "idle",
         pc' = [pc EXCEPT ![j] = l], UNCHANGED <<queue, active, draining>>,
         attempts' \in [Job -> 0 .. MaxAttempts - 1],
         row'[j] = "none" => row[j] = "none",
         pc[j] \in InSlot <=> l \in InSlot,
         ResidentAt(j, l) => ResidentAt(j, pc[j]),
         Kind[j] = "DEPLOY" /\ pc[j] \in PastBuild => l \in PastBuild
  PROVE  QuietStep
<1>1. ~InQueue(j)
  BY DEF IInv, SingleExecution, InQueue
<1>2. row'[j] # "none"
  BY DEF IInv, Fresh
<1> QED
  BY <1>1, <1>2 DEF QuietStep

\* A task that goes on to its next statement does not touch the runner.
LEMMA GotoIsQuiet ==
  ASSUME IInv, NEW j \in Job, NEW l \in Label, pc[j] # "idle", Goto(j, l),
         UNCHANGED draining,
         row'[j] = "none" => row[j] = "none",
         pc[j] \in InSlot <=> l \in InSlot,
         ResidentAt(j, l) => ResidentAt(j, pc[j]),
         Kind[j] = "DEPLOY" /\ pc[j] \in PastBuild => l \in PastBuild
  PROVE  QuietStep
BY MoveIsQuiet DEF Goto, IInv, TypeOK

\* Nor does a step that leaves the runner's variables alone.
LEMMA IdleMoveIsQuiet ==
  ASSUME IInv, UNCHANGED <<runner, draining>>
  PROVE  QuietStep
BY DEF QuietStep, runner, IInv, TypeOK

\* Nor does the creation of a row.
LEMMA CreateIsQuiet ==
  ASSUME IInv, NEW j \in Job, Create(j)
  PROVE  QuietStep
<1>1. pc[j] = "idle" /\ ~InQueue(j)
  BY DEF Create, IInv, Fresh
<1>2. row'[j] # "none"
  BY DEF Create, IInv, TypeOK
<1>3. /\ pc' = [pc EXCEPT ![j] = "accepted"]
      /\ UNCHANGED <<queue, active, draining, attempts>>
      /\ attempts' \in [Job -> 0 .. MaxAttempts - 1]
  BY DEF Create, Goto, IInv, TypeOK
<1>4. /\ "accepted" \in Label /\ "accepted" \notin InSlot /\ "idle" \notin InSlot
      /\ ~ResidentAt(j, "accepted")
  BY DEF Label, InSlot, InRunJob, InMarkFailed, ResidentAt
<1>5. row[j] = "none"
  BY DEF Create
<1> QED
  BY <1>1, <1>2, <1>3, <1>4, <1>5 DEF QuietStep

\* Nor does an exception before the job is handed out.
LEMMA ThrowIsQuiet ==
  ASSUME IInv, NEW j \in Job, Throw(j)
  PROVE  QuietStep
<1>1. /\ pc[j] \in InRunJob /\ pc[j] # "idle" /\ pc[j] \in InSlot
      /\ UNCHANGED <<queue, active, draining, row>>
  BY DEF Throw, Goto, InRunJob, InSlot, durable
<1>2. PICK l \in {"retrying", "failing", "depFailing"} : pc' = [pc EXCEPT ![j] = l]
  <2>1. CASE Kind[j] = "GENERATION"
    BY <2>1 DEF Throw
  <2>2. CASE Kind[j] # "GENERATION"
    BY <2>2 DEF Throw, Goto
  <2> QED
    BY <2>1, <2>2
<1>3. attempts' \in [Job -> 0 .. MaxAttempts - 1]
  <2>1. attempts \in [Job -> 0 .. MaxAttempts - 1]
    BY DEF IInv, TypeOK
  <2>2. CASE Kind[j] = "GENERATION"
    <3>1. attempts' = [attempts EXCEPT ![j] =
             IF attempts[j] + 1 < MaxAttempts /\ j \notin cancelled /\ ~draining
             THEN attempts[j] + 1 ELSE 0]
      BY <2>2 DEF Throw
    <3> QED
      BY <2>1, <3>1
  <2>3. CASE Kind[j] # "GENERATION"
    BY <2>1, <2>3 DEF Throw, Goto
  <2> QED
    BY <2>2, <2>3
<1>4. ResidentAt(j, pc[j])
  BY <1>1 DEF ResidentAt
<1>5. Kind[j] = "DEPLOY" => l \in PastBuild
  <2>1. Kind[j] = "DEPLOY" /\ l = "retrying" => FALSE
    BY <1>1, <1>2 DEF Throw, Goto, IInv, TypeOK
  <2> QED
    BY <1>2, <2>1 DEF PastBuild
<1> QED
  BY <1>1, <1>2, <1>3, <1>4, <1>5, MoveIsQuiet DEF Label, InSlot, InRunJob, InMarkFailed

\* The steps of the runner, by what they do to it.
LEMMA RunnerStepShape ==
  ASSUME IInv, NEW j \in Job, RunnerStep(j)
  PROVE  QuietStep \/ SubmitStep(j) \/ ReleaseStep(j) \/ RequeueStep(j)
<1> USE DEF InSlot, InRunJob, InMarkFailed, Label, Executing, ResidentAt, PastBuild
<1>0. row \in [Job -> {"none"} \cup NonTerminal \cup Terminal]
  BY DEF IInv, TypeOK
<1>1. CASE Dispatch(j)
  <2>1. CASE draining
    BY <1>1, <2>1, GotoIsQuiet DEF Dispatch, durable
  <2>2. CASE ~draining
    BY <1>1, <2>2 DEF Dispatch, SubmitStep
  <2> QED
    BY <2>1, <2>2
<1>2. CASE StartRow(j)
  <2>1. row'[j] # "none"
    BY <1>0, <1>2 DEF StartRow
  <2> QED
    BY <1>2, <2>1, GotoIsQuiet DEF StartRow
<1>3. CASE MarkBuilding(j)
  BY <1>3, GotoIsQuiet DEF MarkBuilding
<1>4. CASE Complete(j)
  <2>1. pc[j] = "completing" /\ UNCHANGED draining
    BY <1>4 DEF Complete
  <2>2. CASE Leave(j)
    BY <2>1, <2>2 DEF ReleaseStep
  <2>3. CASE End(j, "COMPLETED") /\ Goto(j, "ending")
    <3>1. row'[j] # "none"
      BY <1>0, <2>3 DEF End
    <3> QED
      BY <2>1, <2>3, <3>1, GotoIsQuiet
  <2> QED
    BY <1>4, <2>2, <2>3 DEF Complete
<1>5. CASE EndRun(j)
  BY <1>5 DEF EndRun, ReleaseStep
<1>6. CASE RetryPush(j)
  BY <1>6 DEF RetryPush, RequeueStep
<1>7. CASE FailDeployment(j)
  BY <1>7, GotoIsQuiet DEF FailDeployment
<1>8. CASE MarkFailed(j)
  <2>1. pc[j] = "failing" /\ UNCHANGED draining
    BY <1>8 DEF MarkFailed
  <2>2. CASE Leave(j)
    BY <2>1, <2>2 DEF ReleaseStep
  <2>3. CASE End(j, "FAILED") /\ Goto(j, "failEnding")
    <3>1. row'[j] # "none"
      BY <1>0, <2>3 DEF End
    <3> QED
      BY <2>1, <2>3, <3>1, GotoIsQuiet
  <2> QED
    BY <1>8, <2>2, <2>3 DEF MarkFailed
<1> QED
  BY <1>1, <1>2, <1>3, <1>4, <1>5, <1>6, <1>7, <1>8 DEF RunnerStep

\* No statement of a task touches the runner.
LEMMA TaskStepIsQuiet ==
  ASSUME IInv, NEW t, TaskStep(t)
  PROVE  QuietStep
BY IdleMoveIsQuiet DEF TaskStep, Decide, TaskCas, TaskDep, TaskEnd

\* All steps, by what they do to the runner.
LEMMA StepShape ==
  ASSUME IInv, [Next]_vars
  PROVE  \/ QuietStep
         \/ \E j \in Job : SubmitStep(j) \/ ReleaseStep(j) \/ RequeueStep(j)
         \/ CloseStep
         \/ ResetStep
<1>1. ASSUME NEW j \in Job, RunnerStep(j)
      PROVE  QuietStep \/ SubmitStep(j) \/ ReleaseStep(j) \/ RequeueStep(j)
  BY <1>1, RunnerStepShape
<1>2. ASSUME NEW j \in Job, Finish(j)
      PROVE  QuietStep \/ ReleaseStep(j)
  <2>1. pc[j] = "working" /\ UNCHANGED <<row, draining>>
    BY <1>2 DEF Finish
  <2>2. CASE Leave(j)
    BY <2>1, <2>2 DEF ReleaseStep, Executing, InSlot, InRunJob
  <2>3. CASE Goto(j, "completing")
    BY <2>1, <2>3, GotoIsQuiet
       DEF InSlot, InRunJob, InMarkFailed, Label, ResidentAt, PastBuild
  <2> QED
    BY <1>2, <2>2, <2>3 DEF Finish
<1>3. ASSUME NEW j \in Job,
             \/ Request(j, "cancel") \/ Request(j, "stop")
             \/ Reap(j) \/ ReapWedged(j) \/ SweepHold(j) \/ Progress(j)
      PROVE  QuietStep
  BY <1>3, IdleMoveIsQuiet DEF Request, Reap, ReapWedged, SweepHold, Progress
<1>4. CASE StartDrain
  BY <1>4 DEF StartDrain, CloseStep
<1>5. CASE Restart
  BY <1>5 DEF Restart, ResetStep
<1>6. CASE UNCHANGED vars
  BY <1>6, IdleMoveIsQuiet DEF vars
<1>7. ASSUME NEW j \in Job, LoseCommit(j) PROVE QuietStep
  BY <1>7, GotoIsQuiet
     DEF LoseCommit, InSlot, InRunJob, InMarkFailed, Label, ResidentAt, PastBuild
<1> QED
  BY <1>1, <1>2, <1>3, <1>4, <1>5, <1>6, <1>7, CreateIsQuiet, ThrowIsQuiet, TaskStepIsQuiet
     DEF Next

-----------------------------------------------------------------------------
(* The pump is only ever called on a consistent runner.                       *)

\* A job that is neither in the list nor in a slot may be appended.
LEMMA AppendReady ==
  ASSUME NEW q, NEW a, NEW ctl, NEW att, PumpReady(q, a, ctl, att),
         NEW j \in Job, ctl[j] = "idle", \A i \in DOMAIN q : q[i] # j
  PROVE  PumpReady(Append(q, j), a, ctl, att)
<1>1. q \in Seq(Job) /\ DOMAIN q = 1 .. Len(q) /\ Len(q) \in Nat
  BY LenProperties DEF PumpReady
<1> DEFINE r == Append(q, j)
<1>2. /\ r \in Seq(Job) /\ Len(r) = Len(q) + 1
      /\ \A i \in 1 .. Len(q) : r[i] = q[i]
      /\ r[Len(q) + 1] = j
  BY <1>1, AppendProperties
<1> HIDE DEF r
<1>3. DOMAIN r = 1 .. Len(q) + 1
  BY <1>1, <1>2, LenProperties
<1>4. \A i, k \in DOMAIN r : r[i] = r[k] => i = k
  <2> SUFFICES ASSUME NEW i \in 1 .. Len(q) + 1, NEW k \in 1 .. Len(q) + 1, r[i] = r[k]
               PROVE  i = k
    BY <1>3
  <2>1. CASE i \in 1 .. Len(q) /\ k \in 1 .. Len(q)
    BY <2>1, <1>1, <1>2 DEF PumpReady
  <2>2. CASE i = Len(q) + 1 \/ k = Len(q) + 1
    BY <2>2, <1>1, <1>2
  <2> QED
    BY <1>1, <2>1, <2>2
<1>5. \A i \in DOMAIN r : ctl[r[i]] = "idle"
  <2> SUFFICES ASSUME NEW i \in 1 .. Len(q) + 1 PROVE ctl[r[i]] = "idle"
    BY <1>3
  <2>1. CASE i \in 1 .. Len(q)
    BY <2>1, <1>1, <1>2 DEF PumpReady
  <2>2. CASE i = Len(q) + 1
    BY <2>2, <1>2
  <2> QED
    BY <1>1, <2>1, <2>2
<1> QED
  BY <1>2, <1>4, <1>5 DEF PumpReady, r

\* A submitted job is ready for Pump.
LEMMA SubmitReady ==
  ASSUME IInv, NEW j \in Job, pc[j] = "accepted"
  PROVE  PumpReady(Append(queue, j), active, [pc EXCEPT ![j] = "idle"], attempts)
<1> DEFINE ctl == [pc EXCEPT ![j] = "idle"]
<1>1. /\ ctl \in [Job -> Label] /\ ctl[j] = "idle"
      /\ \A i \in Job : pc[i] = "idle" => ctl[i] = "idle"
  BY DEF IInv, TypeOK, Label
<1>2. Occupied(ctl) = Executing
  BY DEF IInv, TypeOK, Occupied, Executing, InSlot, InRunJob, InMarkFailed
<1>3. queue \in Seq(Job) /\ \A i \in DOMAIN queue : queue[i] \in Job
  BY LenProperties DEF IInv, TypeOK
<1>4. \A i \in DOMAIN queue : queue[i] # j
  BY DEF IInv, SingleExecution
<1> HIDE DEF ctl
<1>5. PumpReady(queue, active, ctl, attempts)
  BY <1>1, <1>2, <1>3 DEF PumpReady, IInv, TypeOK, SingleExecution, SlotsAccounted
<1> QED
  BY <1>1, <1>4, <1>5, AppendReady DEF ctl

\* A slot given back leaves the runner ready for Pump.
LEMMA LeaveReady ==
  ASSUME IInv, NEW j \in Executing, NEW att \in [Job -> 0 .. MaxAttempts - 1]
  PROVE  /\ PumpReady(queue, active - 1, [pc EXCEPT ![j] = "idle"], att)
         /\ PumpReady(Append(queue, j), active - 1, [pc EXCEPT ![j] = "idle"], att)
         /\ Occupied([pc EXCEPT ![j] = "idle"]) = Executing \ {j}
<1> DEFINE ctl == [pc EXCEPT ![j] = "idle"]
<1>0. j \in Job /\ pc[j] # "idle"
  BY DEF Executing, InSlot, InRunJob, InMarkFailed
<1>1. /\ ctl \in [Job -> Label] /\ ctl[j] = "idle"
      /\ \A i \in Job : pc[i] = "idle" => ctl[i] = "idle"
  BY <1>0 DEF IInv, TypeOK, Label
<1>2. Occupied(ctl) = Executing \ {j}
  BY DEF IInv, TypeOK, Occupied, Executing, InSlot, InRunJob, InMarkFailed
<1>3. queue \in Seq(Job) /\ \A i \in DOMAIN queue : queue[i] \in Job
  BY LenProperties DEF IInv, TypeOK
<1>4. \A i \in DOMAIN queue : queue[i] # j
  BY <1>0 DEF IInv, SingleExecution
<1>5. /\ active - 1 = Cardinality(Executing \ {j})
      /\ active - 1 \in Nat /\ active - 1 <= Concurrency
  <2>1. IsFiniteSet(Executing)
    BY FS_Subset DEF Executing
  <2>2. Cardinality(Executing \ {j}) = Cardinality(Executing) - 1
    BY <2>1, FS_RemoveElement
  <2>3. IsFiniteSet(Executing \ {j}) /\ Cardinality(Executing \ {j}) \in Nat
    BY <2>1, FS_RemoveElement, FS_CardinalityType
  <2>4. active = Cardinality(Executing) /\ active <= Concurrency /\ active \in Nat
    BY DEF IInv, TypeOK, SlotsAccounted
  <2> QED
    BY <2>2, <2>3, <2>4
<1> HIDE DEF ctl
<1>6. PumpReady(queue, active - 1, ctl, att)
  BY <1>1, <1>2, <1>3, <1>5 DEF PumpReady, IInv, TypeOK, SingleExecution
<1> QED
  BY <1>0, <1>1, <1>2, <1>4, <1>6, AppendReady DEF ctl

\* Every step keeps the runner consistent.
LEMMA RunnerKept ==
  ASSUME IInv, [Next]_vars
  PROVE  RunnerOK'
<1>1. CASE QuietStep
  <2>1. Executing' = Executing
    BY <1>1 DEF QuietStep, Executing, IInv, TypeOK
  <2>2. pc' \in [Job -> Label]
    BY <1>1 DEF QuietStep, IInv, TypeOK
  <2>3. \A x \in DOMAIN queue : pc'[queue[x]] = "idle"
    BY <1>1 DEF QuietStep, IInv, TypeOK, SingleExecution, InQueue
  <2> QED
    BY <1>1, <2>1, <2>2, <2>3
       DEF QuietStep, RunnerOK, IInv, TypeOK, SingleExecution, SlotsAccounted, WorkConserving
<1>2. ASSUME NEW j \in Job, SubmitStep(j) PROVE RunnerOK'
  BY <1>2, SubmitReady, PumpKeepsRunner DEF SubmitStep
<1>3. ASSUME NEW j \in Job, ReleaseStep(j) PROVE RunnerOK'
  <2>1. [attempts EXCEPT ![j] = 0] \in [Job -> 0 .. MaxAttempts - 1]
    BY DEF IInv, TypeOK
  <2> QED
    BY <1>3, <2>1, LeaveReady, PumpKeepsRunner DEF ReleaseStep, Leave
<1>4. ASSUME NEW j \in Job, RequeueStep(j) PROVE RunnerOK'
  <2>1. attempts \in [Job -> 0 .. MaxAttempts - 1]
    BY DEF IInv, TypeOK
  <2> QED
    BY <1>4, <2>1, LeaveReady, PumpKeepsRunner DEF RequeueStep
<1>5. CASE CloseStep
  <2>1. Executing' = Executing
    BY <1>5 DEF CloseStep, Executing
  <2>2. queue' \in Seq(Job) /\ DOMAIN queue' = {}
    BY <1>5, EmptySeq DEF CloseStep
  <2> QED
    BY <1>5, <2>1, <2>2
       DEF CloseStep, RunnerOK, IInv, TypeOK, SingleExecution, SlotsAccounted, WorkConserving
<1>6. CASE ResetStep
  <2>1. Executing' = {}
    BY <1>6 DEF ResetStep, Executing, InSlot, InRunJob, InMarkFailed
  <2>2. queue' \in Seq(Job) /\ DOMAIN queue' = {}
    BY <1>6, EmptySeq DEF ResetStep
  <2>3. active' = Cardinality(Executing') /\ active' <= Concurrency
    BY <1>6, <2>1, FS_EmptySet DEF ResetStep
  <2>4. pc' \in [Job -> Label] /\ attempts' \in [Job -> 0 .. MaxAttempts - 1]
    BY <1>6 DEF ResetStep, Label
  <2> QED
    BY <1>6, <2>2, <2>3, <2>4
       DEF ResetStep, RunnerOK, SingleExecution, SlotsAccounted, WorkConserving
<1> QED
  BY <1>1, <1>2, <1>3, <1>4, <1>5, <1>6, StepShape

-----------------------------------------------------------------------------
(* The variables outside the runner.                                          *)

DataOK ==
  /\ row \in [Job -> {"none"} \cup NonTerminal \cup Terminal]
  /\ hold \in [Job -> {"none", "ACTIVE", "SETTLED"}]
  /\ dep \in [Job -> {"none", "IN_FLIGHT", "READY", "FAILED"}]
  /\ cancelled \subseteq Job /\ claimed \subseteq Job
  /\ frames \in [Job -> Nat]
  /\ draining \in BOOLEAN
  /\ tasks \subseteq Task
  /\ crashes \in 0 .. MaxCrashes /\ faults \in 0 .. MaxFaults

\* A terminal frame is counted for its job alone.
LEMMA PublishKeeps ==
  ASSUME NEW j \in Job, claimed \subseteq Job, frames \in [Job -> Nat], FramesClaimed,
         PublishTerminal(j)
  PROVE  claimed' \subseteq Job /\ frames' \in [Job -> Nat] /\ FramesClaimed'
BY DEF PublishTerminal, FramesClaimed

\* A task stays a task.
LEMMA TaskTyped ==
  /\ \A j \in Job, by \in Cause, step \in Step : NewTask(j, by, step) \in Task
  /\ \A t \in Task, step \in Step :
       /\ [t EXCEPT !.step = step] \in Task
       /\ [t EXCEPT !.step = step].job = t.job
       /\ [t EXCEPT !.step = step].step = step
  /\ \A t \in Task : AfterCas(t) \in {"dep", "end"} /\ t.job \in Job
BY DEF NewTask, Task, AfterCas, Step

\* A settled status is a status.
LEMMA SettleTyped ==
  ASSUME NEW j \in Job, hold \in [Job -> {"none", "ACTIVE", "SETTLED"}], Settle(j)
  PROVE  hold' \in [Job -> {"none", "ACTIVE", "SETTLED"}]
BY DEF Settle

\* The faults stay within their bound.
LEMMA FaultTyped ==
  ASSUME faults \in 0 .. MaxFaults, Fault
  PROVE  faults' \in 0 .. MaxFaults /\ faults' > 0
BY DEF Fault

\* What the runner's steps do to rows, tasks and frames.
LEMMA RunnerStepData ==
  ASSUME IInv, NEW j \in Job, RunnerStep(j)
  PROVE  DataOK' /\ FramesClaimed'
<1> USE DEF durable, bus, bounds
<1>0. DataOK /\ FramesClaimed
  BY DEF IInv, TypeOK, DataOK
<1>1. CASE Dispatch(j)
  BY <1>0, <1>1, TaskTyped DEF Dispatch, DataOK, FramesClaimed, Cause, Step
<1>2. CASE StartRow(j)
  BY <1>0, <1>2 DEF StartRow, DataOK, FramesClaimed, NonTerminal
<1>3. CASE MarkBuilding(j)
  BY <1>0, <1>3 DEF MarkBuilding, DataOK, FramesClaimed
<1>4. CASE Complete(j)
  BY <1>0, <1>4 DEF Complete, End, DataOK, FramesClaimed, Terminal
<1>5. CASE EndRun(j)
  <2>1. claimed' \subseteq Job /\ frames' \in [Job -> Nat] /\ FramesClaimed'
    BY <1>0, <1>5, PublishKeeps DEF EndRun, DataOK
  <2>2. hold' \in [Job -> {"none", "ACTIVE", "SETTLED"}] /\ faults' \in 0 .. MaxFaults
    BY <1>0, <1>5, SettleTyped, FaultTyped DEF EndRun, DataOK
  <2> QED
    BY <1>0, <1>5, <2>1, <2>2 DEF EndRun, DataOK
<1>6. CASE RetryPush(j)
  BY <1>0, <1>6 DEF RetryPush, DataOK, FramesClaimed
<1>7. CASE FailDeployment(j)
  BY <1>0, <1>7, FaultTyped DEF FailDeployment, DataOK, FramesClaimed
<1>8. CASE MarkFailed(j)
  <2>1. claimed' \subseteq Job /\ frames' \in [Job -> Nat] /\ FramesClaimed'
    BY <1>0, <1>8, PublishKeeps DEF MarkFailed, DataOK, FramesClaimed
  <2>2. row' \in [Job -> {"none"} \cup NonTerminal \cup Terminal] /\ faults' \in 0 .. MaxFaults
    BY <1>0, <1>8, FaultTyped DEF MarkFailed, End, DataOK, Terminal
  <2>3. cancelled' \subseteq Job /\ UNCHANGED <<hold, dep, draining, tasks, crashes>>
    BY <1>0, <1>8 DEF MarkFailed, DataOK
  <2> QED
    BY <1>0, <2>1, <2>2, <2>3 DEF DataOK
<1> QED
  BY <1>1, <1>2, <1>3, <1>4, <1>5, <1>6, <1>7, <1>8 DEF RunnerStep

\* What a task's statements do to rows, tasks and frames.
LEMMA TaskStepData ==
  ASSUME IInv, NEW t \in tasks, TaskStep(t)
  PROVE  DataOK' /\ FramesClaimed'
<1> USE DEF durable, bus, bounds, runner
<1>0. /\ DataOK /\ FramesClaimed
      /\ t \in Task /\ t.job \in Job /\ t.by \in Cause
  BY DEF IInv, TypeOK, DataOK, Task
<1>1. CASE Decide(t)
  <2>1. /\ NewTask(t.job, "handler", "cas") \in Task /\ NewTask(t.job, "cancel", "cas") \in Task
    BY <1>0, TaskTyped DEF Cause, Step
  <2>2. tasks' \subseteq Task
    BY <1>0, <1>1, <2>1 DEF Decide, DataOK
  <2>3. cancelled' \subseteq Job
    BY <1>0, <1>1 DEF Decide, DataOK
  <2> QED
    BY <1>0, <1>1, <2>2, <2>3 DEF Decide, DataOK, FramesClaimed
<1>2. CASE TaskCas(t)
  <2>1. [t EXCEPT !.step = AfterCas(t)] \in Task
    BY <1>0, TaskTyped DEF Step
  <2>2. tasks' \subseteq Task
    BY <1>0, <1>2, <2>1 DEF TaskCas, DataOK
  <2>3. row' \in [Job -> {"none"} \cup NonTerminal \cup Terminal]
    BY <1>0, <1>2 DEF TaskCas, End, Verdict, DataOK, Terminal
  <2>4. faults' \in 0 .. MaxFaults
    BY <1>0, <1>2, FaultTyped DEF TaskCas, DataOK
  <2>5. claimed' \subseteq Job /\ frames' \in [Job -> Nat] /\ FramesClaimed'
    BY <1>0, <1>2, PublishKeeps DEF TaskCas, DataOK, FramesClaimed
  <2>6. cancelled' \subseteq Job /\ UNCHANGED <<hold, dep, draining, crashes>>
    BY <1>0, <1>2 DEF TaskCas, DataOK
  <2> QED
    BY <1>0, <2>2, <2>3, <2>4, <2>5, <2>6 DEF DataOK
<1>3. CASE TaskDep(t)
  <2>1. [t EXCEPT !.step = "end"] \in Task
    BY <1>0, TaskTyped DEF Step
  <2>2. tasks' \subseteq Task
    BY <1>0, <1>3, <2>1 DEF TaskDep, DataOK
  <2>3. dep' \in [Job -> {"none", "IN_FLIGHT", "READY", "FAILED"}] /\ faults' \in 0 .. MaxFaults
    BY <1>0, <1>3, FaultTyped DEF TaskDep, DataOK
  <2> QED
    BY <1>0, <1>3, <2>2, <2>3 DEF TaskDep, DataOK, FramesClaimed
<1>4. CASE TaskEnd(t)
  <2>1. claimed' \subseteq Job /\ frames' \in [Job -> Nat] /\ FramesClaimed'
    BY <1>0, <1>4, PublishKeeps DEF TaskEnd, DataOK, FramesClaimed
  <2>2. hold' \in [Job -> {"none", "ACTIVE", "SETTLED"}] /\ faults' \in 0 .. MaxFaults
    BY <1>0, <1>4, SettleTyped, FaultTyped DEF TaskEnd, DataOK
  <2> QED
    BY <1>0, <1>4, <2>1, <2>2 DEF TaskEnd, DataOK
<1> QED
  BY <1>1, <1>2, <1>3, <1>4 DEF TaskStep

\* The types of rows, tasks and frames are kept by both.
LEMMA DataKept ==
  ASSUME IInv, [Next]_vars
  PROVE  DataOK' /\ FramesClaimed'
<1> USE DEF durable, bus, bounds, runner
<1>0. DataOK /\ FramesClaimed
  BY DEF IInv, TypeOK, DataOK
<1>1. ASSUME NEW j \in Job, Create(j) PROVE DataOK' /\ FramesClaimed'
  BY <1>0, <1>1 DEF Create, DataOK, FramesClaimed, NonTerminal
<1>2. ASSUME NEW j \in Job, Finish(j) PROVE DataOK' /\ FramesClaimed'
  BY <1>0, <1>2 DEF Finish, DataOK, FramesClaimed
<1>3. ASSUME NEW j \in Job, Throw(j) PROVE DataOK' /\ FramesClaimed'
  BY <1>0, <1>3 DEF Throw, DataOK, FramesClaimed
<1>4. ASSUME NEW j \in Job, NEW by \in {"cancel", "stop"}, Request(j, by)
      PROVE  DataOK' /\ FramesClaimed'
  BY <1>0, <1>4, TaskTyped DEF Request, DataOK, FramesClaimed, Cause, Step
<1>5. ASSUME NEW j \in Job, Reap(j) \/ ReapWedged(j) PROVE DataOK' /\ FramesClaimed'
  BY <1>0, <1>5, TaskTyped DEF Reap, ReapWedged, DataOK, FramesClaimed, Cause, Step
<1>6. ASSUME NEW j \in Job, SweepHold(j) \/ Progress(j) PROVE DataOK' /\ FramesClaimed'
  BY <1>0, <1>6 DEF SweepHold, Progress, DataOK, FramesClaimed
<1>7. CASE StartDrain
  <2>1. \A i \in DOMAIN queue : queue[i] \in Job
    BY LenProperties DEF IInv, TypeOK
  <2> QED
    BY <1>0, <1>7, <2>1, TaskTyped DEF StartDrain, DataOK, FramesClaimed, Cause, Step
<1>8. CASE Restart
  <2>1. crashes' \in 0 .. MaxCrashes
    BY <1>0, <1>8 DEF Restart, DataOK
  <2>2. claimed' = {} /\ frames' = [j \in Job |-> 0] /\ cancelled' = {} /\ tasks' = {}
    BY <1>8 DEF Restart
  <2>3. UNCHANGED <<row, hold, dep, faults>> /\ draining' = FALSE
    BY <1>8 DEF Restart
  <2> QED
    BY <1>0, <2>1, <2>2, <2>3 DEF DataOK, FramesClaimed
<1>9. CASE UNCHANGED vars
  BY <1>0, <1>9 DEF vars, DataOK, FramesClaimed
<1>10. ASSUME NEW j \in Job, LoseCommit(j) PROVE DataOK' /\ FramesClaimed'
  BY <1>0, <1>10, FaultTyped DEF LoseCommit, DataOK, FramesClaimed
<1> QED
  BY <1>1, <1>2, <1>3, <1>4, <1>5, <1>6, <1>7, <1>8, <1>9, <1>10, RunnerStepData, TaskStepData
     DEF Next

\* One row at most is written, never with "none", and never one ending of a
\* generation job over another.
LEMMA RowChanges ==
  ASSUME IInv, [Next]_vars
  PROVE  \/ row' = row
         \/ \E i \in Job, s \in NonTerminal \cup Terminal :
              /\ row' = [row EXCEPT ![i] = s]
              /\ Kind[i] = "GENERATION" /\ row[i] \in Terminal => s \notin Terminal
<1> USE DEF NonTerminal, Terminal, durable, End, CanEnd
<1>1. ASSUME NEW i \in Job, RunnerStep(i)
      PROVE  \/ row' = row
             \/ \E s \in NonTerminal \cup Terminal :
                  /\ row' = [row EXCEPT ![i] = s]
                  /\ Kind[i] = "GENERATION" /\ row[i] \in Terminal => s \notin Terminal
  BY <1>1 DEF RunnerStep, Dispatch, StartRow, MarkBuilding, Complete, EndRun, RetryPush,
              FailDeployment, MarkFailed
<1>2. ASSUME NEW t \in tasks, TaskStep(t)
      PROVE  \/ row' = row
             \/ \E i \in Job, s \in NonTerminal \cup Terminal :
                  row' = [row EXCEPT ![i] = s] /\ row[i] \notin Terminal
  <2>1. t.job \in Job /\ Verdict(t.by) \in Terminal
    BY DEF IInv, TypeOK, Task, Verdict
  <2> QED
    BY <1>2, <2>1 DEF TaskStep, Decide, TaskCas, TaskDep, TaskEnd
<1>3. ASSUME NEW i \in Job, Create(i)
      PROVE  row' = [row EXCEPT ![i] = "QUEUED"]
  BY <1>3 DEF Create
<1>4. ASSUME NEW i \in Job,
             \/ Finish(i) \/ LoseCommit(i) \/ Throw(i)
             \/ Request(i, "cancel") \/ Request(i, "stop")
             \/ Reap(i) \/ ReapWedged(i) \/ SweepHold(i) \/ Progress(i)
      PROVE  row' = row
  BY <1>4 DEF Finish, LoseCommit, Throw, Request, Reap, ReapWedged, SweepHold, Progress
<1>5. CASE StartDrain \/ Restart \/ UNCHANGED vars
  BY <1>5 DEF StartDrain, Restart, vars
<1> QED
  BY <1>1, <1>2, <1>3, <1>4, <1>5 DEF Next

\* A row once created never vanishes.
LEMMA RowStays ==
  ASSUME IInv, [Next]_vars, NEW j \in Job, row'[j] = "none"
  PROVE  row[j] = "none"
BY RowChanges DEF IInv, TypeOK, NonTerminal, Terminal

\* The pump touches only the jobs of the list it is given.
LEMMA PumpLeavesOthers ==
  ASSUME NEW q \in Seq(Job), NEW a, NEW ctl, NEW att, Pump(q, a, ctl, att),
         NEW j \in Job, \A i \in DOMAIN q : q[i] # j
  PROVE  pc'[j] = ctl[j] /\ \A i \in DOMAIN queue' : queue'[i] # j
<1>1. PICK k \in 0 .. Len(q) :
        /\ queue' = SubSeq(q, k + 1, Len(q))
        /\ pc' = [i \in Job |-> IF i \in Started(q, k) THEN "starting" ELSE ctl[i]]
  BY DEF Pump
<1>2. DOMAIN q = 1 .. Len(q) /\ Len(q) \in Nat
  BY LenProperties
<1>3. j \notin Started(q, k)
  BY <1>2 DEF Started
<1> DEFINE r == SubSeq(q, k + 1, Len(q))
<1>4. DOMAIN r = 1 .. Len(q) - k /\ \A i \in 1 .. Len(q) - k : r[i] = q[k + i]
  <2> HIDE DEF r
  <2> QED
    BY RestOfQueue DEF r
<1>5. ASSUME NEW i \in 1 .. Len(q) - k PROVE q[k + i] # j
  <2>1. k + i \in DOMAIN q
    BY <1>2
  <2> QED
    BY <2>1
<1>6. queue' = r
  BY <1>1
<1> HIDE DEF r
<1> QED
  BY <1>1, <1>3, <1>4, <1>5, <1>6

\* A waiting list that j may join has only other jobs in it.
LEMMA AppendOthers ==
  ASSUME NEW q \in Seq(Job), NEW i \in Job, NEW j \in Job, i # j, \A a \in DOMAIN q : q[a] # j
  PROVE  Append(q, i) \in Seq(Job) /\ \A a \in DOMAIN Append(q, i) : Append(q, i)[a] # j
<1> DEFINE r == Append(q, i)
<1>1. DOMAIN q = 1 .. Len(q) /\ Len(q) \in Nat
  BY LenProperties
<1>2. /\ r \in Seq(Job) /\ Len(r) = Len(q) + 1
      /\ \A a \in 1 .. Len(q) : r[a] = q[a]
      /\ r[Len(q) + 1] = i
  BY AppendProperties
<1> HIDE DEF r
<1>3. DOMAIN r = 1 .. Len(q) + 1
  BY <1>1, <1>2, LenProperties
<1>4. \A a \in DOMAIN r : r[a] # j
  BY <1>1, <1>2, <1>3
<1> QED
  BY <1>2, <1>4 DEF r

\* A job without a row stays out of the runner.
LEMMA FreshKept ==
  ASSUME IInv, [Next]_vars
  PROVE  Fresh'
<1> SUFFICES ASSUME NEW j \in Job, row'[j] = "none"
             PROVE  pc'[j] = "idle" /\ \A a \in DOMAIN queue' : queue'[a] # j
  BY DEF Fresh, InQueue
<1>1. pc[j] = "idle" /\ \A a \in DOMAIN queue : queue[a] # j
  BY RowStays DEF IInv, Fresh, InQueue
<1>2. queue \in Seq(Job)
  BY DEF IInv, TypeOK
<1>3. CASE QuietStep
  BY <1>1, <1>3 DEF QuietStep, IInv, TypeOK
<1>4. ASSUME NEW i \in Job, SubmitStep(i) \/ RequeueStep(i)
      PROVE  pc'[j] = "idle" /\ \A a \in DOMAIN queue' : queue'[a] # j
  <2>1. i # j
    BY <1>1, <1>4 DEF SubmitStep, RequeueStep, Executing, InSlot, InRunJob, InMarkFailed
  <2> DEFINE q == Append(queue, i)
             ctl == [pc EXCEPT ![i] = "idle"]
  <2>2. ctl[j] = "idle"
    BY <1>1, <2>1 DEF IInv, TypeOK
  <2>3. q \in Seq(Job) /\ \A a \in DOMAIN q : q[a] # j
    BY <1>1, <1>2, <2>1, AppendOthers
  <2>4. PICK n : Pump(q, n, ctl, attempts)
    BY <1>4 DEF SubmitStep, RequeueStep
  <2> HIDE DEF q, ctl
  <2> QED
    BY <2>2, <2>3, <2>4, PumpLeavesOthers
<1>5. ASSUME NEW i \in Job, ReleaseStep(i)
      PROVE  pc'[j] = "idle" /\ \A a \in DOMAIN queue' : queue'[a] # j
  <2> DEFINE ctl == [pc EXCEPT ![i] = "idle"]
             att == [attempts EXCEPT ![i] = 0]
  <2>1. ctl[j] = "idle"
    BY <1>1 DEF IInv, TypeOK
  <2>2. Pump(queue, active - 1, ctl, att)
    BY <1>5 DEF ReleaseStep, Leave
  <2> HIDE DEF ctl, att
  <2> QED
    BY <1>1, <1>2, <2>1, <2>2, PumpLeavesOthers
<1>6. CASE CloseStep \/ ResetStep
  BY <1>1, <1>6 DEF CloseStep, ResetStep
<1> QED
  BY <1>3, <1>4, <1>5, <1>6, StepShape

-----------------------------------------------------------------------------
(* The theorems.                                                              *)

\* The invariant holds initially.
LEMMA InitOK == Init => IInv
<1> SUFFICES ASSUME Init PROVE IInv
  OBVIOUS
<1>1. queue \in Seq(Job) /\ DOMAIN queue = {} /\ queue = <<>>
  BY EmptySeq DEF Init
<1>2. Executing = {}
  BY DEF Init, Executing, InSlot, InRunJob, InMarkFailed
<1>3. SlotsAccounted
  BY <1>2, FS_EmptySet DEF Init, SlotsAccounted
<1>4. TypeOK
  <2>1. attempts \in [Job -> 0 .. MaxAttempts - 1]
    BY DEF Init
  <2>2. /\ row \in [Job -> {"none"} \cup NonTerminal \cup Terminal]
        /\ hold \in [Job -> {"none", "ACTIVE", "SETTLED"}]
        /\ dep \in [Job -> {"none", "IN_FLIGHT", "READY", "FAILED"}]
    BY DEF Init
  <2>3. pc \in [Job -> Label] /\ active \in Nat /\ frames \in [Job -> Nat]
    BY DEF Init, Label
  <2>4. crashes \in 0 .. MaxCrashes /\ faults \in 0 .. MaxFaults
    BY DEF Init
  <2>5. /\ cancelled \subseteq Job /\ claimed \subseteq Job
        /\ draining \in BOOLEAN /\ tasks \subseteq Task
    BY DEF Init
  <2> QED
    BY <1>1, <2>1, <2>2, <2>3, <2>4, <2>5 DEF TypeOK
<1>5. SingleExecution /\ WorkConserving /\ Fresh /\ FramesClaimed
  BY <1>1 DEF Init, SingleExecution, WorkConserving, Fresh, InQueue, FramesClaimed
<1> QED
  BY <1>3, <1>4, <1>5 DEF IInv

\* And every step keeps it.
LEMMA StepOK == IInv /\ [Next]_vars => IInv'
<1> SUFFICES ASSUME IInv, [Next]_vars PROVE IInv'
  OBVIOUS
<1>1. RunnerOK' /\ DataOK' /\ FramesClaimed' /\ Fresh'
  BY RunnerKept, DataKept, FreshKept
<1>2. TypeOK'
  BY <1>1 DEF RunnerOK, DataOK, TypeOK
<1> QED
  BY <1>1, <1>2 DEF IInv, RunnerOK

\* The inductive invariant of the runner and the rows holds in every
\* reachable state: no job runs twice, no slot is lost, no second frame.
THEOREM Invariance == Spec => []IInv
BY InitOK, StepOK, PTL DEF Spec

\* Every variable keeps its type, for any set of jobs and any limits.
THEOREM TypeCorrect == Spec => []TypeOK
<1>1. IInv => TypeOK
  BY DEF IInv
<1> QED
  BY <1>1, Invariance, PTL

\* No job is ever executed twice at once or waits while it executes.
THEOREM ExecutionIsSingle == Spec => []SingleExecution
<1>1. IInv => SingleExecution
  BY DEF IInv
<1> QED
  BY <1>1, Invariance, PTL

\* The runner's counter equals the jobs in execution, never above the limit.
THEOREM SlotsAreAccounted == Spec => []SlotsAccounted
<1>1. IInv => SlotsAccounted
  BY DEF IInv
<1> QED
  BY <1>1, Invariance, PTL

\* Nobody waits beside a free slot: the pump of a step leaves either no one in the
\* list or no slot.
THEOREM WorkIsConserved == Spec => []WorkConserving
<1>1. IInv => WorkConserving
  BY DEF IInv
<1> QED
  BY <1>1, Invariance, PTL

\* A process emits at most one terminal frame per job.
THEOREM TerminalFrameIsUnique == Spec => []OneTerminalFrame
<1>1. IInv => OneTerminalFrame
  BY DEF IInv, FramesClaimed, OneTerminalFrame
<1> QED
  BY <1>1, Invariance, PTL

\* The ending of a generation job is never replaced by another ending.
THEOREM EndingIsKept == Spec => EndingKept
<1>1. ASSUME IInv, [Next]_vars
      PROVE  [\A j \in Job :
                Kind[j] = "GENERATION" /\ row[j] \in Terminal /\ row'[j] \in Terminal
                  => row'[j] = row[j]]_vars
  <2> SUFFICES ASSUME NEW j \in Job, Kind[j] = "GENERATION",
                      row[j] \in Terminal, row'[j] \in Terminal
               PROVE  row'[j] = row[j]
    OBVIOUS
  <2>1. CASE row' = row
    BY <2>1
  <2>2. ASSUME NEW i \in Job, NEW s \in NonTerminal \cup Terminal,
               row' = [row EXCEPT ![i] = s],
               Kind[i] = "GENERATION" /\ row[i] \in Terminal => s \notin Terminal
        PROVE  row'[j] = row[j]
    BY <1>1, <2>2 DEF IInv, TypeOK
  <2> QED
    BY <1>1, <2>1, <2>2, RowChanges
<1> QED
  BY <1>1, Invariance, PTL DEF Spec, EndingKept

\* The pump starts no job that has been cancelled.
LEMMA PumpSkipsCancelled ==
  ASSUME NEW q, NEW a, NEW ctl, NEW att, Pump(q, a, ctl, att),
         NEW j \in Job, j \in cancelled
  PROVE  pc'[j] = ctl[j]
BY DEF Pump, Started

\* A signalled job that is out of the registry never enters it again.
THEOREM StoppedStaysOut == Spec => StoppedStaysStopped
<1>1. ASSUME IInv, [Next]_vars
      PROVE  [\A j \in Job : j \in cancelled /\ j \notin Resident => j \notin Resident']_vars
  <2> SUFFICES ASSUME NEW j \in Job, j \in cancelled, ~ResidentAt(j, pc[j])
               PROVE  ~ResidentAt(j, pc'[j])
    BY DEF Resident, ResidentAt
  <2>0. pc \in [Job -> Label]
    BY <1>1 DEF IInv, TypeOK
  <2>1. CASE QuietStep
    BY <2>0, <2>1 DEF QuietStep
  <2>2. ASSUME NEW i \in Job, SubmitStep(i) \/ ReleaseStep(i) \/ RequeueStep(i)
        PROVE  ~ResidentAt(j, pc'[j])
    <3>1. PICK q, a, att : Pump(q, a, [pc EXCEPT ![i] = "idle"], att)
      BY <2>2 DEF SubmitStep, ReleaseStep, RequeueStep, Leave
    <3>2. pc'[j] = pc[j] \/ pc'[j] = "idle"
      BY <2>0, <3>1, PumpSkipsCancelled
    <3> QED
      BY <3>2 DEF ResidentAt, InRunJob, InMarkFailed
  <2>3. CASE CloseStep
    BY <2>3 DEF CloseStep
  <2>4. CASE ResetStep
    BY <2>4 DEF ResetStep, ResidentAt, InRunJob, InMarkFailed
  <2> QED
    BY <1>1, <2>1, <2>2, <2>3, <2>4, StepShape
<1> QED
  BY <1>1, Invariance, PTL DEF Spec, StoppedStaysStopped

-----------------------------------------------------------------------------
(* While nothing has failed, nobody is left waiting for an ending.            *)

\* Somebody is about to end the row of j.
EndDue(j) == \E t \in tasks : t.job = j /\ t.step = "cas"

\* What leaves in silence relies on: whoever has heard of a stop leaves the rest to
\* the one who ends the row, and that one tells the browser.
CaredFor(j) ==
  /\ row[j] \in Terminal => Told(j)
  /\ row[j] \in NonTerminal => InHand(j) \/ Told(j)
  /\ j \in cancelled => EndDue(j) \/ Told(j) \/ (j \in Resident /\ Kind[j] # "GENERATION")
  /\ pc[j] \in {"marking", "working", "completing"} => row[j] \in {"RUNNING"} \cup Terminal
  /\ (\E t \in tasks : t.job = j) => row[j] # "none"

Flawless == crashes = 0 /\ faults = 0

\* Whoever publishes has announced.
LEMMA PublishAnnounces ==
  ASSUME IInv, NEW j \in Job, PublishTerminal(j)
  PROVE  frames'[j] = 1 /\ \A i \in Job \ {j} : frames'[i] = frames[i]
BY DEF PublishTerminal, IInv, TypeOK, FramesClaimed

\* The pump leaves a job alone that it does not find waiting.
LEMMA PumpKeepsEnding ==
  ASSUME IInv, NEW i \in Job, NEW j \in Job, i # j, pc[j] # "idle",
         \E a, att : \/ Pump(queue, a, [pc EXCEPT ![i] = "idle"], att)
                     \/ Pump(Append(queue, i), a, [pc EXCEPT ![i] = "idle"], att)
  PROVE  pc'[j] = pc[j]
<1> DEFINE ctl == [pc EXCEPT ![i] = "idle"]
<1>1. ctl[j] = pc[j]
  BY DEF IInv, TypeOK
<1>2. queue \in Seq(Job) /\ \A a \in DOMAIN queue : queue[a] # j
  BY DEF IInv, TypeOK, SingleExecution
<1>3. Append(queue, i) \in Seq(Job) /\ \A a \in DOMAIN Append(queue, i) : Append(queue, i)[a] # j
  BY <1>2, AppendOthers
<1>4. PICK a, att : Pump(queue, a, ctl, att) \/ Pump(Append(queue, i), a, ctl, att)
  OBVIOUS
<1> HIDE DEF ctl
<1>5. CASE Pump(queue, a, ctl, att)
  BY <1>1, <1>2, <1>5, PumpLeavesOthers
<1>6. CASE Pump(Append(queue, i), a, ctl, att)
  <2> DEFINE q == Append(queue, i)
  <2>1. q \in Seq(Job) /\ Pump(q, a, ctl, att) /\ \A n \in DOMAIN q : q[n] # j
    BY <1>3, <1>6
  <2> HIDE DEF q
  <2> QED
    BY <1>1, <2>1, PumpLeavesOthers
<1> QED
  BY <1>4, <1>5, <1>6

\* A waiting job is started by the pump, goes on waiting, or had been cancelled.
LEMMA PumpHands ==
  ASSUME NEW q \in Seq(Job), NEW a, NEW ctl, NEW att, Pump(q, a, ctl, att), NEW j \in Job
  PROVE  /\ pc'[j] \in {ctl[j], "starting"}
         /\ (\E n \in DOMAIN q : q[n] = j) => pc'[j] = "starting" \/ InQueue(j)' \/ j \in cancelled
<1>1. PICK k \in 0 .. Len(q) :
        /\ queue' = SubSeq(q, k + 1, Len(q))
        /\ pc' = [i \in Job |-> IF i \in Started(q, k) THEN "starting" ELSE ctl[i]]
  BY DEF Pump
<1>2. DOMAIN q = 1 .. Len(q) /\ Len(q) \in Nat
  BY LenProperties
<1>3. ASSUME NEW n \in DOMAIN q, q[n] = j
      PROVE  pc'[j] = "starting" \/ InQueue(j)' \/ j \in cancelled
  <2>1. CASE n <= k
    BY <1>1, <1>2, <1>3, <2>1 DEF Started
  <2>2. CASE n > k
    <3>1. DOMAIN queue' = 1 .. Len(q) - k /\ \A i \in 1 .. Len(q) - k : queue'[i] = q[k + i]
      BY <1>1, RestOfQueue
    <3>2. n - k \in 1 .. Len(q) - k /\ k + (n - k) = n
      BY <1>2, <2>2
    <3> QED
      BY <1>3, <3>1, <3>2 DEF InQueue
  <2> QED
    BY <1>2, <2>1, <2>2
<1> QED
  BY <1>1, <1>3

\* What happens to the other jobs when i moves on, leaves its slot or joins the list.
LEMMA OthersInHand ==
  ASSUME IInv, NEW i \in Job, NEW j \in Job, i # j,
         \/ UNCHANGED queue /\ \E l : pc' = [pc EXCEPT ![i] = l]
         \/ \E a, att : \/ Pump(queue, a, [pc EXCEPT ![i] = "idle"], att)
                        \/ Pump(Append(queue, i), a, [pc EXCEPT ![i] = "idle"], att)
  PROVE  /\ pc[j] # "idle" => pc'[j] = pc[j]
         /\ pc[j] = "idle" => pc'[j] \in {"idle", "starting"}
         /\ InQueue(j) => pc'[j] = "starting" \/ InQueue(j)' \/ j \in cancelled
<1>1. pc \in [Job -> Label] /\ queue \in Seq(Job)
  BY DEF IInv, TypeOK
<1>2. CASE UNCHANGED queue /\ \E l : pc' = [pc EXCEPT ![i] = l]
  BY <1>1, <1>2 DEF InQueue
<1>3. ASSUME NEW a, NEW att, Pump(queue, a, [pc EXCEPT ![i] = "idle"], att)
      PROVE  /\ pc[j] = "idle" => pc'[j] \in {"idle", "starting"}
             /\ InQueue(j) => pc'[j] = "starting" \/ InQueue(j)' \/ j \in cancelled
  <2> DEFINE ctl == [pc EXCEPT ![i] = "idle"]
  <2>1. ctl[j] = pc[j] /\ Pump(queue, a, ctl, att)
    BY <1>1, <1>3
  <2> HIDE DEF ctl
  <2> QED
    BY <1>1, <2>1, PumpHands DEF InQueue
<1>4. ASSUME NEW a, NEW att, Pump(Append(queue, i), a, [pc EXCEPT ![i] = "idle"], att)
      PROVE  /\ pc[j] = "idle" => pc'[j] \in {"idle", "starting"}
             /\ InQueue(j) => pc'[j] = "starting" \/ InQueue(j)' \/ j \in cancelled
  <2> DEFINE ctl == [pc EXCEPT ![i] = "idle"]
             q   == Append(queue, i)
  <2>1. ctl[j] = pc[j] /\ Pump(q, a, ctl, att)
    BY <1>1, <1>4
  <2>2. q \in Seq(Job) /\ (InQueue(j) => \E n \in DOMAIN q : q[n] = j)
    BY <1>1, AppendProperties, LenProperties DEF InQueue
  <2> HIDE DEF ctl, q
  <2> QED
    BY <2>1, <2>2, PumpHands
<1> QED
  BY <1>2, <1>3, <1>4, PumpKeepsEnding

\* A job that joins the list is started, waits, or had been cancelled.
LEMMA JoinerInHand ==
  ASSUME IInv, NEW j \in Job, NEW a, NEW att,
         Pump(Append(queue, j), a, [pc EXCEPT ![j] = "idle"], att)
  PROVE  /\ pc'[j] \in {"idle", "starting"}
         /\ pc'[j] = "starting" \/ InQueue(j)' \/ j \in cancelled
<1> DEFINE ctl == [pc EXCEPT ![j] = "idle"]
           q   == Append(queue, j)
<1>1. pc \in [Job -> Label] /\ queue \in Seq(Job)
  BY DEF IInv, TypeOK
<1>2. ctl[j] = "idle" /\ Pump(q, a, ctl, att)
  BY <1>1
<1>3. q \in Seq(Job) /\ \E n \in DOMAIN q : q[n] = j
  <2>1. Len(queue) + 1 \in DOMAIN q /\ q[Len(queue) + 1] = j /\ q \in Seq(Job)
    BY <1>1, AppendProperties, LenProperties
  <2> QED
    BY <2>1
<1> HIDE DEF ctl, q
<1> QED
  BY <1>2, <1>3, PumpHands

\* A job that leaves its slot is out of the runner.
LEMMA LeaverIsIdle ==
  ASSUME IInv, NEW j \in Job, pc[j] # "idle", Leave(j)
  PROVE  pc'[j] = "idle"
<1> DEFINE ctl == [pc EXCEPT ![j] = "idle"]
           att == [attempts EXCEPT ![j] = 0]
<1>1. queue \in Seq(Job) /\ ctl[j] = "idle" /\ \A n \in DOMAIN queue : queue[n] # j
  BY DEF IInv, TypeOK, SingleExecution
<1>2. Pump(queue, active - 1, ctl, att)
  BY DEF Leave
<1> HIDE DEF ctl, att
<1> QED
  BY <1>1, <1>2, PumpLeavesOthers

\* A step that leaves job j, and whoever is at work on it, where they are.
Aside(j) ==
  /\ row'[j] = row[j] /\ frames'[j] = frames[j]
  /\ j \in cancelled' => j \in cancelled
  /\ pc[j] # "idle" => pc'[j] = pc[j]
  /\ pc[j] = "idle" => pc'[j] \in {"idle", "starting"}
  /\ InQueue(j) => pc'[j] = "starting" \/ InQueue(j)' \/ j \in cancelled \/ EndDue(j)'
  /\ FramePending(j) => FramePending(j)'
  /\ EndDue(j) => EndDue(j)'
  /\ \A t \in tasks' : t.job = j => row[j] # "none" \/ \E u \in tasks : u.job = j

LEMMA AsideCares ==
  ASSUME IInv, NEW j \in Job, CaredFor(j), Aside(j)
  PROVE  CaredFor(j)'
<1>1. InQueue(j) => pc[j] = "idle"
  BY DEF IInv, SingleExecution, InQueue
<1>2. Told(j) => Told(j)'
  BY DEF Aside, Told
<1>3. j \in Resident => pc[j] # "idle"
  BY DEF Resident, InRunJob, InMarkFailed
<1>4. row'[j] \in NonTerminal => InHand(j)' \/ Told(j)'
  <2>1. InHand(j) => InHand(j)' \/ Told(j)'
    BY <1>1, <1>2, <1>3 DEF Aside, CaredFor, InHand, InQueue, EndDue
  <2> QED
    BY <1>2, <2>1 DEF Aside, CaredFor
<1>5. j \in Resident => j \in Resident'
  BY <1>3 DEF Aside, Resident
<1>6. pc'[j] \in {"marking", "working", "completing"} => row'[j] \in {"RUNNING"} \cup Terminal
  BY DEF Aside, CaredFor
<1> QED
  BY <1>2, <1>4, <1>5, <1>6 DEF Aside, CaredFor

\* What a step of job i's run does to any other job.
LEMMA RunStepAside ==
  ASSUME IInv, NEW i \in Job, NEW j \in Job, i # j, faults' = 0,
         RunnerStep(i) \/ Create(i) \/ Finish(i) \/ Throw(i)
  PROVE  Aside(j)
<1> USE DEF durable, bus, bounds, Fault
<1>0. row \in [Job -> {"none"} \cup NonTerminal \cup Terminal] /\ frames \in [Job -> Nat] /\ faults \in Nat
  BY DEF IInv, TypeOK
<1>1. \/ UNCHANGED queue /\ \E l : pc' = [pc EXCEPT ![i] = l]
      \/ \E a, att : \/ Pump(queue, a, [pc EXCEPT ![i] = "idle"], att)
                     \/ Pump(Append(queue, i), a, [pc EXCEPT ![i] = "idle"], att)
  <2>1. ASSUME NEW l, Goto(i, l) PROVE UNCHANGED queue /\ \E m : pc' = [pc EXCEPT ![i] = m]
    BY <2>1 DEF Goto
  <2>2. ASSUME Leave(i) PROVE \E a, att : Pump(queue, a, [pc EXCEPT ![i] = "idle"], att)
    BY <2>2 DEF Leave
  <2>3. CASE Dispatch(i)
    BY <2>1, <2>3 DEF Dispatch
  <2>4. CASE StartRow(i) \/ MarkBuilding(i) \/ FailDeployment(i) \/ Create(i)
    BY <2>1, <2>4 DEF StartRow, MarkBuilding, FailDeployment, Create
  <2>5. CASE Complete(i) \/ EndRun(i) \/ MarkFailed(i) \/ Finish(i)
    BY <2>1, <2>2, <2>5 DEF Complete, EndRun, MarkFailed, Finish
  <2>6. CASE RetryPush(i)
    BY <2>6 DEF RetryPush
  <2>7. CASE Throw(i)
    BY <2>1, <2>7 DEF Throw
  <2> QED
    BY <2>3, <2>4, <2>5, <2>6, <2>7 DEF RunnerStep
<1>2. /\ pc[j] # "idle" => pc'[j] = pc[j]
      /\ pc[j] = "idle" => pc'[j] \in {"idle", "starting"}
      /\ InQueue(j) => pc'[j] = "starting" \/ InQueue(j)' \/ j \in cancelled
  BY <1>1, OthersInHand
<1>3. row'[j] = row[j] /\ UNCHANGED cancelled
  BY <1>0 DEF RunnerStep, Dispatch, StartRow, MarkBuilding, Complete, EndRun, RetryPush, FailDeployment,
              MarkFailed, Create, Finish, Throw, End
<1>4. frames'[j] = frames[j]
  <2>1. UNCHANGED frames \/ PublishTerminal(i)
    BY <1>0 DEF RunnerStep, Dispatch, StartRow, MarkBuilding, Complete, EndRun, RetryPush, FailDeployment,
                MarkFailed, Create, Finish, Throw
  <2> QED
    BY <2>1, PublishAnnounces
<1>5. tasks' = tasks \/ tasks' = tasks \cup {NewTask(i, "drain", "cas")}
  BY DEF RunnerStep, Dispatch, StartRow, MarkBuilding, Complete, EndRun, RetryPush, FailDeployment,
         MarkFailed, Create, Finish, Throw
<1>6. FramePending(j) => FramePending(j)'
  BY <1>2, <1>5 DEF FramePending
<1>7. EndDue(j) => EndDue(j)'
  BY <1>5 DEF EndDue
<1>8. \A t \in tasks' : t.job = j => \E u \in tasks : u.job = j
  BY <1>5 DEF NewTask
<1> QED
  BY <1>2, <1>3, <1>4, <1>6, <1>7, <1>8 DEF Aside

\* What it does to the job itself.
LEMMA RunStepCares ==
  ASSUME IInv, NEW j \in Job, faults' = 0, CaredFor(j),
         RunnerStep(j) \/ Create(j) \/ Finish(j) \/ Throw(j)
  PROVE  CaredFor(j)'
<1> USE DEF durable, bus, bounds, Fault
<1>0. /\ row \in [Job -> {"none"} \cup NonTerminal \cup Terminal] /\ pc \in [Job -> Label]
      /\ faults \in Nat /\ cancelled' = cancelled
  <2>1. cancelled' = cancelled
    BY DEF RunnerStep, Dispatch, StartRow, MarkBuilding, Complete, EndRun, RetryPush, FailDeployment,
           MarkFailed, Create, Finish, Throw, PublishTerminal
  <2> QED
    BY <2>1 DEF IInv, TypeOK
\* Once the browser is told, or the row's end is due, only the row matters.
<1>a. ASSUME Told(j)', row'[j] # "none",
             pc'[j] \in {"marking", "working", "completing"} => row'[j] \in {"RUNNING"} \cup Terminal
      PROVE  CaredFor(j)'
  BY <1>a DEF CaredFor
<1>b. ASSUME pc[j] \notin {"ending", "failEnding"}, UNCHANGED <<frames, tasks>>
      PROVE  (Told(j) => Told(j)') /\ (EndDue(j) => EndDue(j)')
  BY <1>b DEF Told, FramePending, EndDue
<1>c. row[j] = "none" => pc[j] = "idle"
  BY DEF IInv, Fresh
\* A step within the slot, or into the waiting list.
<1>d. ASSUME UNCHANGED <<frames, tasks>>, pc[j] \notin {"idle", "ending", "failEnding"},
             row'[j] \in {"RUNNING", row[j]},
             pc'[j] # "idle" \/ InQueue(j)' \/ (j \in cancelled /\ j \notin Resident),
             Kind[j] # "GENERATION" /\ j \in Resident => j \in Resident',
             pc'[j] \in {"marking", "working", "completing"} => row'[j] \in {"RUNNING"} \cup Terminal
      PROVE  CaredFor(j)'
  <2>1. (Told(j) => Told(j)') /\ (EndDue(j) => EndDue(j)')
    BY <1>b, <1>d
  <2>2. row'[j] \in Terminal => Told(j)'
    BY <1>d, <2>1 DEF CaredFor, Terminal
  <2>3. j \in cancelled' => EndDue(j)' \/ Told(j)' \/ (j \in Resident' /\ Kind[j] # "GENERATION")
    BY <1>0, <1>d, <2>1 DEF CaredFor
  <2>4. InHand(j)' \/ Told(j)'
    BY <1>d, <2>1 DEF InHand, InQueue, EndDue, CaredFor
  <2>5. row'[j] # "none"
    BY <1>c, <1>d
  <2> QED
    BY <1>d, <2>2, <2>3, <2>4, <2>5 DEF CaredFor
<1>1. CASE Dispatch(j)
  <2>1. pc[j] = "accepted" /\ UNCHANGED <<row, frames>> /\ j \notin Resident
    BY <1>1 DEF Dispatch, Resident, InRunJob, InMarkFailed
  <2>2. CASE draining
    <3> DEFINE t == NewTask(j, "drain", "cas")
    <3>1. tasks' = tasks \cup {t} /\ t.job = j /\ t.step = "cas" /\ pc'[j] = "idle"
      BY <1>0, <1>1, <2>2 DEF Dispatch, Goto, NewTask
    <3>2. EndDue(j)' /\ (Told(j) => Told(j)')
      BY <2>1, <3>1 DEF EndDue, Told, FramePending
    <3>3. InHand(j)'
      BY <3>2 DEF EndDue, InHand
    <3> QED
      BY <1>0, <1>c, <2>1, <3>1, <3>2, <3>3 DEF CaredFor
  <2>3. CASE ~draining
    <3>1. UNCHANGED tasks /\ Pump(Append(queue, j), active, [pc EXCEPT ![j] = "idle"], attempts)
      BY <1>1, <2>3 DEF Dispatch
    <3>2. pc'[j] \in {"idle", "starting"} /\ (pc'[j] = "starting" \/ InQueue(j)' \/ j \in cancelled)
      BY <3>1, JoinerInHand
    <3> QED
      BY <1>d, <2>1, <3>1, <3>2
  <2> QED
    BY <2>2, <2>3
<1>2. CASE StartRow(j)
  <2>1. /\ pc[j] = "starting" /\ pc'[j] \in {"marking", "working"} /\ row'[j] = "RUNNING"
        /\ UNCHANGED <<frames, tasks>>
    BY <1>0, <1>2 DEF StartRow, Goto
  <2> QED
    BY <1>d, <2>1 DEF Resident, InRunJob
<1>3. CASE MarkBuilding(j)
  <2>1. pc[j] = "marking" /\ pc'[j] = "working" /\ UNCHANGED <<row, frames, tasks>>
    BY <1>0, <1>3 DEF MarkBuilding, Goto
  <2> QED
    BY <1>d, <2>1 DEF Resident, InRunJob, CaredFor
<1>4. CASE Complete(j)
  <2>1. pc[j] = "completing" /\ UNCHANGED <<frames, tasks>>
    BY <1>4 DEF Complete
  <2>2. CASE End(j, "COMPLETED") /\ Goto(j, "ending")
    <3>1. pc'[j] = "ending" /\ row'[j] = "COMPLETED"
      BY <1>0, <2>2 DEF End, Goto
    <3> QED
      BY <1>a, <3>1 DEF Told, FramePending
  <2>3. CASE row[j] # "RUNNING" /\ UNCHANGED row /\ Leave(j)
    <3>1. row[j] \in Terminal /\ pc'[j] = "idle"
      BY <2>1, <2>3, LeaverIsIdle DEF CaredFor
    <3>2. Told(j)'
      BY <1>b, <2>1, <3>1 DEF CaredFor
    <3> QED
      BY <1>a, <2>3, <3>1, <3>2 DEF Terminal
  <2> QED
    BY <1>4, <2>2, <2>3 DEF Complete
<1>5. CASE EndRun(j)
  <2>1. pc[j] \in {"ending", "failEnding"} /\ PublishTerminal(j) /\ Leave(j) /\ UNCHANGED row
    BY <1>5 DEF EndRun
  <2>2. Told(j)' /\ pc'[j] = "idle"
    BY <2>1, PublishAnnounces, LeaverIsIdle DEF Told
  <2> QED
    BY <1>a, <1>c, <2>1, <2>2
<1>6. CASE RetryPush(j)
  <2>1. /\ pc[j] = "retrying" /\ UNCHANGED <<row, frames, tasks>> /\ j \notin Resident
        /\ Pump(Append(queue, j), active - 1, [pc EXCEPT ![j] = "idle"], attempts)
    BY <1>6 DEF RetryPush, Resident, InRunJob, InMarkFailed
  <2>2. pc'[j] \in {"idle", "starting"} /\ (pc'[j] = "starting" \/ InQueue(j)' \/ j \in cancelled)
    BY <2>1, JoinerInHand
  <2> QED
    BY <1>d, <2>1, <2>2
<1>7. CASE FailDeployment(j)
  <2>1. pc[j] = "depFailing" /\ pc'[j] = "failing" /\ UNCHANGED <<row, frames, tasks>>
    BY <1>0, <1>7 DEF FailDeployment, Goto
  <2> QED
    BY <1>d, <2>1 DEF Resident, InMarkFailed
<1>8. CASE MarkFailed(j)
  <2>1. pc[j] = "failing" /\ UNCHANGED <<frames, tasks>>
    BY <1>0, <1>8 DEF MarkFailed
  <2>2. CASE End(j, "FAILED") /\ Goto(j, "failEnding")
    <3>1. pc'[j] = "failEnding" /\ row'[j] = "FAILED"
      BY <1>0, <2>2 DEF End, Goto
    <3> QED
      BY <1>a, <3>1 DEF Told, FramePending
  <2>3. CASE ~CanEnd(j) /\ Leave(j) /\ UNCHANGED row
    <3>1. row[j] \in Terminal /\ pc'[j] = "idle"
      BY <1>0, <1>c, <2>1, <2>3, LeaverIsIdle DEF CanEnd
    <3>2. Told(j)'
      BY <1>b, <2>1, <3>1 DEF CaredFor
    <3> QED
      BY <1>a, <2>3, <3>1, <3>2 DEF Terminal
  <2> QED
    BY <1>0, <1>8, <2>2, <2>3 DEF MarkFailed
<1>9. CASE Create(j)
  <2>1. /\ row[j] = "none" /\ pc[j] = "idle" /\ pc'[j] = "accepted" /\ row'[j] = "QUEUED"
        /\ UNCHANGED <<frames, tasks>> /\ j \notin Resident
    BY <1>0, <1>c, <1>9 DEF Create, Goto, Resident, InRunJob, InMarkFailed
  <2>2. (Told(j) => Told(j)') /\ (EndDue(j) => EndDue(j)')
    BY <1>b, <2>1
  <2> QED
    BY <1>0, <2>1, <2>2 DEF CaredFor, InHand, Terminal
<1>10. CASE Finish(j)
  <2>1. pc[j] = "working" /\ UNCHANGED <<row, frames, tasks>>
    BY <1>10 DEF Finish
  <2>2. (Told(j) => Told(j)') /\ (EndDue(j) => EndDue(j)')
    BY <1>b, <2>1
  <2>3. CASE Kind[j] = "GENERATION" /\ j \in cancelled /\ Leave(j)
    <3>1. pc'[j] = "idle" /\ (EndDue(j)' \/ Told(j)')
      BY <2>1, <2>2, <2>3, LeaverIsIdle DEF CaredFor
    <3>2. EndDue(j)' => InHand(j)'
      BY DEF EndDue, InHand
    <3> QED
      BY <1>c, <2>1, <2>2, <3>1, <3>2 DEF CaredFor
  <2>4. CASE Goto(j, "completing")
    <3>1. pc'[j] = "completing"
      BY <1>0, <2>4 DEF Goto
    <3> QED
      BY <1>d, <2>1, <3>1 DEF Resident, InRunJob, CaredFor
  <2> QED
    BY <1>10, <2>3, <2>4 DEF Finish
<1>11. CASE Throw(j)
  <2>1. /\ pc[j] \in {"starting", "marking", "working", "completing"} /\ UNCHANGED <<row, frames, tasks>>
        /\ pc'[j] \in {"retrying", "failing", "depFailing"}
        /\ Kind[j] # "GENERATION" => pc'[j] # "retrying"
    BY <1>0, <1>11 DEF Throw, Goto
  <2> QED
    BY <1>d, <2>1 DEF Resident, InRunJob, InMarkFailed
<1> QED
  BY <1>1, <1>2, <1>3, <1>4, <1>5, <1>6, <1>7, <1>8, <1>9, <1>10, <1>11 DEF RunnerStep

\* A task's statements end the row and tell the browser, of its own job.
LEMMA TaskStepCares ==
  ASSUME IInv, NEW t \in tasks, TaskStep(t), faults' = 0, NEW j \in Job, CaredFor(j)
  PROVE  CaredFor(j)'
<1> USE DEF durable, bus, bounds, runner, Fault
<1>0. /\ row \in [Job -> {"none"} \cup NonTerminal \cup Terminal] /\ frames \in [Job -> Nat]
      /\ faults \in Nat /\ t \in Task /\ t.job \in Job /\ UNCHANGED runner
  <2>1. UNCHANGED runner
    BY DEF TaskStep, Decide, TaskCas, TaskDep, TaskEnd
  <2> QED
    BY <2>1 DEF IInv, TypeOK, Task
<1>1. /\ InQueue(j)' = InQueue(j) /\ pc' = pc /\ (j \in Resident' <=> j \in Resident)
      /\ pc[j] = "idle" => pc'[j] \in {"idle", "starting"}
  BY <1>0 DEF InQueue, Resident
\* What is left of the tasks, and what is new.
<1>a. ASSUME NEW S, tasks' = (tasks \ {t}) \cup S, \A u \in S : u.job = t.job,
             t.step \in {"dep", "end"} => j # t.job \/ \E u \in S : u.job = t.job /\ u.step \in {"dep", "end"},
             t.step = "cas" => j # t.job
      PROVE  /\ FramePending(j) => FramePending(j)'
             /\ EndDue(j) => EndDue(j)'
             /\ \A u \in tasks' : u.job = j => \E v \in tasks : v.job = j
  BY <1>1, <1>a DEF FramePending, EndDue
\* A step that is not about j.
<1>b. ASSUME row'[j] = row[j], frames'[j] = frames[j], UNCHANGED cancelled,
             FramePending(j) => FramePending(j)', EndDue(j) => EndDue(j)',
             \A u \in tasks' : u.job = j => \E v \in tasks : v.job = j
      PROVE  CaredFor(j)'
  <2>1. Aside(j)
    BY <1>1, <1>b DEF Aside
  <2> QED
    BY <2>1, AsideCares
<1>2. CASE Decide(t)
  <2> DEFINE i == t.job
             refused == t.by = "stop" /\ i \in Resident /\ Kind[i] = "DEPLOY"
             signal  == ~refused /\ (t.by = "stop" \/ i \in Resident)
             handler == IF signal /\ i \in Listening THEN {NewTask(i, "handler", "cas")} ELSE {}
             strand  == IF i \in Resident THEN {} ELSE {NewTask(i, "cancel", "cas")}
             S == handler \cup strand
  <2>1. /\ t.step = "check" /\ tasks' = (tasks \ {t}) \cup S /\ UNCHANGED <<row, frames>>
        /\ cancelled' = IF signal THEN cancelled \cup {i} ELSE cancelled
    BY <1>2 DEF Decide
  <2>2. \A u \in S : u.job = t.job /\ u.step = "cas"
    BY DEF NewTask
  <2>3. signal => S # {} \/ (i \in Resident /\ Kind[i] # "GENERATION")
    BY DEF Listening, Resident
  <2> HIDE DEF S, signal
  <2>4. /\ FramePending(j) => FramePending(j)'
        /\ EndDue(j) => EndDue(j)'
        /\ \A u \in tasks' : u.job = j => \E v \in tasks : v.job = j
    BY <1>a, <2>1, <2>2
  <2>5. S # {} /\ i = j => EndDue(j)'
    BY <2>1, <2>2 DEF EndDue
  <2>6. Told(j) => Told(j)'
    BY <2>1, <2>4 DEF Told
  <2>7. j \in cancelled' => EndDue(j)' \/ Told(j)' \/ (j \in Resident' /\ Kind[j] # "GENERATION")
    BY <1>1, <2>1, <2>3, <2>4, <2>5, <2>6 DEF CaredFor
  <2>8. InHand(j) => InHand(j)'
    BY <1>0, <2>4 DEF InHand, EndDue
  <2> QED
    BY <1>1, <2>1, <2>4, <2>6, <2>7, <2>8 DEF CaredFor
<1>3. CASE TaskCas(t)
  <2>1. t.step = "cas" /\ UNCHANGED <<frames, cancelled>>
    BY <1>0, <1>3 DEF TaskCas
  <2>2. CASE End(t.job, Verdict(t.by)) /\ tasks' = (tasks \ {t}) \cup {[t EXCEPT !.step = AfterCas(t)]}
    <3>1. [t EXCEPT !.step = AfterCas(t)].job = t.job /\ [t EXCEPT !.step = AfterCas(t)].step \in {"dep", "end"}
      BY <1>0, TaskTyped DEF Step
    <3>2. CASE j = t.job
      <4>1. Told(j)'
        BY <2>2, <3>1, <3>2 DEF Told, FramePending
      <4>2. row'[j] \in Terminal
        BY <1>0, <2>2, <3>2 DEF End, Verdict, Terminal
      <4> QED
        BY <4>1, <4>2 DEF CaredFor, Terminal, NonTerminal
    <3>3. CASE j # t.job
      <4>1. row'[j] = row[j]
        BY <1>0, <2>2, <3>3 DEF End
      <4> DEFINE S == {[t EXCEPT !.step = AfterCas(t)]}
      <4>2. tasks' = (tasks \ {t}) \cup S /\ \A u \in S : u.job = t.job
        BY <2>2, <3>1
      <4> HIDE DEF S
      <4>3. /\ FramePending(j) => FramePending(j)'
            /\ EndDue(j) => EndDue(j)'
            /\ \A u \in tasks' : u.job = j => \E v \in tasks : v.job = j
        BY <1>a, <2>1, <3>3, <4>2
      <4> QED
        BY <1>b, <2>1, <4>1, <4>3
    <3> QED
      BY <3>2, <3>3
  <2>3. CASE ~CanEnd(t.job) /\ UNCHANGED row /\ tasks' = tasks \ {t}
    <3>1. CASE j = t.job
      <4>1. row[j] \in Terminal
        BY <1>0, <2>3, <3>1 DEF CanEnd, CaredFor
      <4>2. Told(j)'
        BY <1>1, <2>1, <2>3, <4>1 DEF CaredFor, Told, FramePending
      <4> QED
        BY <2>3, <4>1, <4>2 DEF CaredFor, Terminal, NonTerminal
    <3>2. CASE j # t.job
      <4>1. /\ FramePending(j) => FramePending(j)'
            /\ EndDue(j) => EndDue(j)'
            /\ \A u \in tasks' : u.job = j => \E v \in tasks : v.job = j
        BY <1>1, <2>3, <3>2 DEF FramePending, EndDue
      <4> QED
        BY <1>b, <2>1, <2>3, <4>1
    <3> QED
      BY <3>1, <3>2
  <2> QED
    BY <1>0, <1>3, <2>2, <2>3 DEF TaskCas
<1>4. CASE TaskDep(t)
  <2>1. /\ t.step = "dep" /\ UNCHANGED <<row, frames, cancelled>>
        /\ tasks' = (tasks \ {t}) \cup {[t EXCEPT !.step = "end"]}
    BY <1>4 DEF TaskDep
  <2>2. [t EXCEPT !.step = "end"].job = t.job /\ [t EXCEPT !.step = "end"].step = "end"
    BY <1>0, TaskTyped DEF Step
  <2> DEFINE S == {[t EXCEPT !.step = "end"]}
  <2>3. tasks' = (tasks \ {t}) \cup S /\ \A u \in S : u.job = t.job /\ u.step = "end"
    BY <2>1, <2>2
  <2>4. \E u \in S : u.job = t.job /\ u.step \in {"dep", "end"}
    BY <2>2
  <2> HIDE DEF S
  <2>5. /\ FramePending(j) => FramePending(j)'
        /\ EndDue(j) => EndDue(j)'
        /\ \A u \in tasks' : u.job = j => \E v \in tasks : v.job = j
    BY <1>a, <2>1, <2>3, <2>4
  <2> QED
    BY <1>b, <2>1, <2>5
<1>5. CASE TaskEnd(t)
  <2>1. /\ t.step = "end" /\ UNCHANGED <<row, cancelled>> /\ PublishTerminal(t.job)
        /\ tasks' = tasks \ {t}
    BY <1>0, <1>5 DEF TaskEnd
  <2>2. CASE j = t.job
    <3>1. Told(j)' /\ row'[j] # "none"
      BY <2>1, <2>2, PublishAnnounces DEF Told, CaredFor
    <3> QED
      BY <1>1, <2>1, <3>1 DEF CaredFor
  <2>3. CASE j # t.job
    <3>1. /\ FramePending(j) => FramePending(j)'
          /\ EndDue(j) => EndDue(j)'
          /\ \A u \in tasks' : u.job = j => \E v \in tasks : v.job = j
      BY <1>1, <2>1, <2>3 DEF FramePending, EndDue
    <3>2. row'[j] = row[j] /\ frames'[j] = frames[j] /\ UNCHANGED cancelled
      BY <1>0, <2>1, <2>3, PublishAnnounces
    <3> QED
      BY <1>b, <3>1, <3>2
  <2> QED
    BY <2>2, <2>3
<1> QED
  BY <1>2, <1>3, <1>4, <1>5 DEF TaskStep

\* And so does every step.
LEMMA StepCares ==
  ASSUME IInv, [Next]_vars, Flawless', Flawless => \A j \in Job : CaredFor(j), NEW j \in Job
  PROVE  CaredFor(j)'
<1> USE DEF durable, bus, bounds, runner
<1>0. /\ row \in [Job -> {"none"} \cup NonTerminal \cup Terminal]
      /\ crashes \in Nat /\ faults \in Nat /\ crashes' = 0 /\ faults' = 0
  BY DEF IInv, TypeOK, Flawless
<1>1. ~Restart /\ ~Fault
  BY <1>0 DEF Restart, Fault
<1>2. CaredFor(j)
  <2>1. UNCHANGED <<crashes, faults>>
    BY <1>1 DEF Next, RunnerStep, Dispatch, StartRow, MarkBuilding, Complete, EndRun, RetryPush, FailDeployment,
                MarkFailed, Create, Finish, Throw, LoseCommit, Request, Reap, ReapWedged, SweepHold, Progress,
                TaskStep, Decide, TaskCas, TaskDep, TaskEnd, StartDrain, vars
  <2> QED
    BY <1>0, <2>1 DEF Flawless
<1>3. ASSUME NEW i \in Job, RunnerStep(i) \/ Create(i) \/ Finish(i) \/ Throw(i) PROVE CaredFor(j)'
  <2>1. CASE i = j
    BY <1>0, <1>2, <1>3, <2>1, RunStepCares
  <2>2. CASE i # j
    BY <1>0, <1>2, <1>3, <2>2, RunStepAside, AsideCares
  <2> QED
    BY <2>1, <2>2
<1>4. ASSUME NEW i \in Job,
             \/ Request(i, "cancel") \/ Request(i, "stop")
             \/ Reap(i) \/ ReapWedged(i) \/ SweepHold(i) \/ Progress(i)
      PROVE  CaredFor(j)'
  <2>1. /\ UNCHANGED <<row, pc, queue, frames, cancelled>>
        /\ \/ tasks' = tasks
           \/ CanEnd(i) /\ \E by, step : tasks' = tasks \cup {NewTask(i, by, step)}
    <3>1. ASSUME SweepHold(i) \/ Progress(i) PROVE tasks' = tasks
      BY <3>1 DEF SweepHold, Progress
    <3>2. ASSUME NEW by, Request(i, by)
          PROVE  CanEnd(i) /\ \E step : tasks' = tasks \cup {NewTask(i, by, step)}
      BY <3>2 DEF Request
    <3>3. ASSUME Reap(i) \/ ReapWedged(i)
          PROVE  CanEnd(i) /\ \E step : tasks' = tasks \cup {NewTask(i, "reap", step)}
      BY <3>3 DEF Reap, ReapWedged
    <3>4. UNCHANGED <<row, pc, queue, frames, cancelled>>
      BY <1>4 DEF Request, Reap, ReapWedged, SweepHold, Progress
    <3> QED
      BY <1>4, <3>1, <3>2, <3>3, <3>4
  <2>2. \A u \in tasks' : u.job = j => row[j] # "none" \/ \E v \in tasks : v.job = j
    BY <2>1 DEF CanEnd, NonTerminal, NewTask
  <2>3. tasks \subseteq tasks'
    BY <2>1
  <2>4. (FramePending(j) => FramePending(j)') /\ (EndDue(j) => EndDue(j)') /\ InQueue(j)' = InQueue(j)
    BY <2>1, <2>3 DEF FramePending, EndDue, InQueue
  <2>5. Aside(j)
    BY <2>1, <2>2, <2>4 DEF Aside
  <2> QED
    BY <1>2, <2>5, AsideCares
<1>5. CASE StartDrain
  <2>1. /\ UNCHANGED <<row, pc, frames, cancelled>>
        /\ tasks' = tasks \cup {NewTask(queue[n], "drain", "cas") : n \in DOMAIN queue}
    BY <1>5 DEF StartDrain
  <2>2. (FramePending(j) => FramePending(j)') /\ (EndDue(j) => EndDue(j)')
    BY <2>1 DEF FramePending, EndDue
  <2>3. InQueue(j) => EndDue(j)'
    <3>1. ASSUME NEW n \in DOMAIN queue, queue[n] = j PROVE EndDue(j)'
      <4>1. NewTask(j, "drain", "cas") \in tasks'
        BY <2>1, <3>1
      <4> QED
        BY <4>1 DEF EndDue, NewTask
    <3> QED
      BY <3>1 DEF InQueue
  <2>4. \A u \in tasks' : u.job = j => row[j] # "none" \/ \E v \in tasks : v.job = j
    <3>1. InQueue(j) => row[j] # "none"
      BY DEF IInv, Fresh
    <3> QED
      BY <2>1, <3>1 DEF InQueue, NewTask
  <2>5. Aside(j)
    BY <2>1, <2>2, <2>3, <2>4 DEF Aside
  <2> QED
    BY <1>2, <2>5, AsideCares
<1>6. ASSUME NEW t \in tasks, TaskStep(t) PROVE CaredFor(j)'
  BY <1>0, <1>2, <1>6, TaskStepCares
<1>7. CASE UNCHANGED vars
  <2>1. UNCHANGED <<row, pc, queue, frames, cancelled, tasks>>
    BY <1>7 DEF vars
  <2> QED
    BY <1>2, <2>1, AsideCares DEF Aside, FramePending, EndDue, InQueue
<1>8. \A i \in Job : ~LoseCommit(i)
  BY <1>1 DEF LoseCommit
<1> QED
  BY <1>1, <1>3, <1>4, <1>5, <1>6, <1>7, <1>8 DEF Next

\* While nothing has failed, every job is in somebody's hands, or its browser is told
\* of its ending.
THEOREM EndingsAreAnnounced == Spec => []EndingAnnounced
<1> DEFINE AllCaredFor == Flawless => \A j \in Job : CaredFor(j)
<1>1. Init => AllCaredFor
  BY DEF Init, CaredFor, Terminal, NonTerminal
<1>2. IInv /\ AllCaredFor /\ [Next]_vars => AllCaredFor'
  BY StepCares
<1>3. AllCaredFor => EndingAnnounced
  BY DEF Flawless, CaredFor, EndingAnnounced
<1> QED
  BY <1>1, <1>2, <1>3, Invariance, PTL DEF Spec

-----------------------------------------------------------------------------
(* A deployment that went live stays live.                                    *)

\* A deploy job past its build, which nothing will execute again.
Rests(j) ==
  /\ Kind[j] = "DEPLOY" /\ row[j] # "none"
  /\ pc[j] \in PastBuild /\ ~InQueue(j)

\* Only such a job has a Deployment that went live.
ReadyRests == \A j \in Job : dep[j] = "READY" => Rests(j)

\* No step executes it again: only GENERATION jobs are retried, and only a job
\* without a row is created.
LEMMA RestKept ==
  ASSUME IInv, [Next]_vars, NEW j \in Job, Rests(j)
  PROVE  Rests(j)'
<1>1. row'[j] # "none"
  BY RowStays DEF Rests
<1>2. /\ queue \in Seq(Job) /\ pc \in [Job -> Label] /\ "idle" \in PastBuild
      /\ \A a \in DOMAIN queue : queue[a] # j
  BY DEF IInv, TypeOK, PastBuild, Rests, InQueue
<1> SUFFICES pc'[j] \in PastBuild /\ \A a \in DOMAIN queue' : queue'[a] # j
  BY <1>1 DEF Rests, InQueue
<1>3. CASE QuietStep
  <2>1. pc'[j] \in PastBuild
    BY <1>2, <1>3 DEF QuietStep, Rests
  <2> QED
    BY <1>2, <1>3, <2>1 DEF QuietStep
<1>4. ASSUME NEW i \in Job, SubmitStep(i) \/ RequeueStep(i)
      PROVE  pc'[j] \in PastBuild /\ \A a \in DOMAIN queue' : queue'[a] # j
  <2>1. i # j
    BY <1>4 DEF SubmitStep, RequeueStep, Rests, PastBuild
  <2> DEFINE q == Append(queue, i)
             ctl == [pc EXCEPT ![i] = "idle"]
  <2>2. ctl[j] \in PastBuild
    BY <1>2, <2>1 DEF Rests
  <2>3. q \in Seq(Job) /\ \A a \in DOMAIN q : q[a] # j
    BY <1>2, <2>1, AppendOthers
  <2>4. PICK n : Pump(q, n, ctl, attempts)
    BY <1>4 DEF SubmitStep, RequeueStep
  <2> HIDE DEF q, ctl
  <2> QED
    BY <2>2, <2>3, <2>4, PumpLeavesOthers
<1>5. ASSUME NEW i \in Job, ReleaseStep(i)
      PROVE  pc'[j] \in PastBuild /\ \A a \in DOMAIN queue' : queue'[a] # j
  <2> DEFINE ctl == [pc EXCEPT ![i] = "idle"]
             att == [attempts EXCEPT ![i] = 0]
  <2>1. ctl[j] \in PastBuild
    BY <1>2 DEF Rests
  <2>2. Pump(queue, active - 1, ctl, att)
    BY <1>5 DEF ReleaseStep, Leave
  <2> HIDE DEF ctl, att
  <2> QED
    BY <1>2, <2>1, <2>2, PumpLeavesOthers
<1>6. CASE CloseStep \/ ResetStep
  BY <1>2, <1>6 DEF CloseStep, ResetStep, Rests
<1> QED
  BY <1>3, <1>4, <1>5, <1>6, StepShape

\* A Deployment goes live at the end of its build, and leaves that state at its
\* run's own hands.
LEMMA DepChanges ==
  ASSUME IInv, ReadyRests, [Next]_vars, NEW j \in Job
  PROVE  /\ dep[j] = "READY" /\ pc[j] # "depFailing" => dep'[j] = "READY"
         /\ dep[j] # "READY" /\ dep'[j] = "READY" =>
              Kind[j] = "DEPLOY" /\ pc[j] = "working" /\ (Finish(j) \/ LoseCommit(j))
<1> USE DEF durable, ReadyRests, Rests, PastBuild
<1>0. dep \in [Job -> {"none", "IN_FLIGHT", "READY", "FAILED"}]
  BY DEF IInv, TypeOK
<1>1. ASSUME NEW i \in Job, RunnerStep(i)
      PROVE  \/ dep' = dep
             \/ dep' = [dep EXCEPT ![i] = "IN_FLIGHT"] /\ pc[i] = "marking"
             \/ dep' = [dep EXCEPT ![i] = "FAILED"] /\ pc[i] = "depFailing"
  <2>1. CASE MarkBuilding(i)
    BY <2>1 DEF MarkBuilding
  <2>2. CASE FailDeployment(i)
    BY <2>2 DEF FailDeployment
  <2>3. CASE Dispatch(i) \/ StartRow(i) \/ Complete(i) \/ EndRun(i) \/ RetryPush(i)
             \/ MarkFailed(i)
    BY <2>3 DEF Dispatch, StartRow, Complete, EndRun, RetryPush, MarkFailed
  <2> QED
    BY <1>1, <2>1, <2>2, <2>3 DEF RunnerStep
<1>2. ASSUME NEW t \in tasks, TaskStep(t)
      PROVE  dep' = dep \/ dep' = [dep EXCEPT ![t.job] = IF @ = "IN_FLIGHT" THEN "FAILED" ELSE @]
  BY <1>2 DEF TaskStep, Decide, TaskCas, TaskDep, TaskEnd
<1>3. ASSUME NEW i \in Job, Create(i)
      PROVE  row[i] = "none" /\ \E s \in {"IN_FLIGHT", "none"} : dep' = [dep EXCEPT ![i] = s]
  BY <1>3 DEF Create
<1>4. ASSUME NEW i \in Job, Finish(i) \/ LoseCommit(i)
      PROVE  /\ pc[i] = "working"
             /\ dep' = [dep EXCEPT ![i] = IF Kind[i] = "DEPLOY" THEN "READY" ELSE @]
  BY <1>0, <1>4 DEF Finish, LoseCommit
<1>5. ASSUME NEW i \in Job, Progress(i)
      PROVE  pc[i] = "working" /\ dep' = [dep EXCEPT ![i] = "IN_FLIGHT"]
  BY <1>5 DEF Progress
<1>6. ASSUME NEW i \in Job,
             \/ Throw(i) \/ Request(i, "cancel") \/ Request(i, "stop")
             \/ Reap(i) \/ ReapWedged(i) \/ SweepHold(i)
      PROVE  dep' = dep
  BY <1>6 DEF Throw, Request, Reap, ReapWedged, SweepHold
<1>7. ASSUME StartDrain \/ Restart \/ UNCHANGED vars PROVE dep' = dep
  BY <1>7 DEF StartDrain, Restart, vars
<1> DEFINE Goal == /\ dep[j] = "READY" /\ pc[j] # "depFailing" => dep'[j] = "READY"
                   /\ dep[j] # "READY" /\ dep'[j] = "READY" =>
                        Kind[j] = "DEPLOY" /\ pc[j] = "working" /\ (Finish(j) \/ LoseCommit(j))
<1>8. ASSUME dep' = dep PROVE Goal
  BY <1>8
<1>9. ASSUME NEW i \in Job, RunnerStep(i) PROVE Goal
  BY <1>0, <1>1, <1>9
<1>10. ASSUME NEW t \in tasks, TaskStep(t) PROVE Goal
  <2>1. t.job \in Job
    BY DEF IInv, TypeOK, Task
  <2> QED
    BY <1>0, <1>2, <1>10, <2>1
<1>11. ASSUME NEW i \in Job, Create(i) \/ Progress(i) PROVE Goal
  BY <1>0, <1>3, <1>5, <1>11
<1>12. ASSUME NEW i \in Job, Finish(i) \/ LoseCommit(i) PROVE Goal
  BY <1>0, <1>4, <1>12
<1> HIDE DEF Goal
<1>13. Goal
  BY <1>6, <1>7, <1>8, <1>9, <1>10, <1>11, <1>12 DEF Next
<1> QED
  BY <1>13 DEF Goal

\* Deployments that went live belong to jobs past their build, always.
LEMMA ReadyRestsKept ==
  ASSUME IInv, ReadyRests, [Next]_vars
  PROVE  ReadyRests'
<1> SUFFICES ASSUME NEW j \in Job, dep'[j] = "READY" PROVE Rests(j)'
  BY DEF ReadyRests
<1>1. CASE dep[j] = "READY"
  BY <1>1, RestKept DEF ReadyRests
<1>2. CASE dep[j] # "READY"
  <2>1. Kind[j] = "DEPLOY" /\ pc[j] = "working" /\ (Finish(j) \/ LoseCommit(j))
    BY <1>2, DepChanges
  <2>2. row[j] # "none" /\ ~InQueue(j)
    BY <2>1 DEF IInv, Fresh, SingleExecution, InQueue
  <2>3. /\ UNCHANGED <<row, queue>>
        /\ \E l \in {"completing", "depFailing"} : pc' = [pc EXCEPT ![j] = l]
    BY <2>1 DEF Finish, LoseCommit, Goto
  <2>4. pc'[j] \in PastBuild
    BY <2>3 DEF IInv, TypeOK, PastBuild
  <2> QED
    BY <2>1, <2>2, <2>3, <2>4 DEF Rests, InQueue
<1> QED
  BY <1>1, <1>2

\* A live deployment is taken back by nobody but its own run, however requests,
\* reapers, retries, drains, faults and restarts interleave.
THEOREM ReadyIsKept == Spec => ReadyKept
<1>1. Init => ReadyRests
  BY DEF Init, ReadyRests
<1>2. IInv /\ ReadyRests /\ [Next]_vars => ReadyRests'
  BY ReadyRestsKept
<1>3. IInv /\ ReadyRests /\ [Next]_vars
        => [\A j \in Job : dep[j] = "READY" /\ pc[j] # "depFailing" => dep'[j] = "READY"]_vars
  BY DepChanges
<1> QED
  BY <1>1, <1>2, <1>3, Invariance, PTL DEF Spec, ReadyKept

-----------------------------------------------------------------------------
(* The runner implements the bounded pool.                                    *)

\* The instance has a copy of the operator of its own.
LEMMA SameCardinality == \A S : Pool!Cardinality(S) = Cardinality(S)
BY DEF Pool!Cardinality, Cardinality

\* What Pump does to the runner is what the pool allows.
LEMMA PumpServes ==
  ASSUME NEW q, NEW a, NEW ctl, NEW att,
         PumpReady(q, a, ctl, att), Pump(q, a, ctl, att), draining' = draining
  PROVE  Pool!Serve(q, Occupied(ctl))
<1>1. PICK k \in 0 .. Len(q) :
        /\ k > 0 => ~draining
        /\ queue' = SubSeq(q, k + 1, Len(q))
        /\ pc' = [j \in Job |-> IF j \in Started(q, k) THEN "starting" ELSE ctl[j]]
  BY DEF Pump
<1> DEFINE S == Started(q, k)
<1>2. q \in Seq(Job) /\ DOMAIN q = 1 .. Len(q) /\ Len(q) \in Nat
  BY LenProperties DEF PumpReady
<1>3. S \subseteq Job /\ S \in SUBSET {q[i] : i \in 1 .. k}
  BY <1>2, StartedCount DEF Started
<1>4. Executing' = Occupied(ctl) \cup S
  BY <1>1, <1>3 DEF Executing, Occupied, InSlot, InRunJob
<1>5. S \cap Occupied(ctl) = {}
  <2> SUFFICES ASSUME NEW j \in S, j \in Occupied(ctl) PROVE FALSE
    OBVIOUS
  <2>1. PICK i \in 1 .. k : j = q[i]
    BY DEF Started
  <2>2. i \in DOMAIN q
    BY <1>2
  <2>3. ctl[j] = "idle"
    BY <2>1, <2>2 DEF PumpReady
  <2> QED
    BY <2>3 DEF Occupied, InSlot, InRunJob, InMarkFailed
<1>6. RunnerOK'
  BY PumpKeepsRunner
<1>7. /\ Cardinality(Executing') <= Concurrency
      /\ ~draining /\ queue' # <<>> => Cardinality(Executing') = Concurrency
  BY <1>6 DEF RunnerOK, SlotsAccounted, WorkConserving
<1>8. draining => k = 0
  BY <1>1, <1>2
<1> HIDE DEF S
<1> QED
  BY <1>1, <1>3, <1>4, <1>5, <1>7, <1>8, SameCardinality DEF Pool!Serve

\* The runner, whatever its retries, stops and faults, is a bounded first-in
\* first-out pool: every step is a step of WorkerPool or leaves the pool alone.
THEOREM RunnerImplementsPool == Spec => PoolImplemented
<1>1. Init => Pool!Init
  BY DEF Init, Pool!Init, Executing, InSlot, InRunJob, InMarkFailed
<1>2. ASSUME IInv, [Next]_vars PROVE [Pool!Next]_(Pool!vars)
  <2>1. CASE QuietStep
    <3>1. Executing' = Executing
      BY <1>2, <2>1 DEF QuietStep, Executing, IInv, TypeOK
    <3> QED
      BY <2>1, <3>1 DEF QuietStep, Pool!vars
  <2>2. ASSUME NEW j \in Job, SubmitStep(j) PROVE Pool!Submit(j)
    <3>1. j \notin Executing
      BY <2>2 DEF SubmitStep, Executing, InSlot, InRunJob, InMarkFailed
    <3>2. Occupied([pc EXCEPT ![j] = "idle"]) = Executing
      BY <1>2, <2>2 DEF SubmitStep, IInv, TypeOK, Occupied, Executing, InSlot, InRunJob,
                        InMarkFailed
    <3>3. Pool!Serve(Append(queue, j), Occupied([pc EXCEPT ![j] = "idle"]))
      BY <1>2, <2>2, SubmitReady, PumpServes DEF SubmitStep
    <3> QED
      BY <3>1, <3>2, <3>3 DEF Pool!Submit
  <2>3. ASSUME NEW j \in Job, ReleaseStep(j) PROVE Pool!Release(j)
    <3>1. j \in Executing
      BY <2>3 DEF ReleaseStep
    <3> DEFINE att == [attempts EXCEPT ![j] = 0]
    <3>2. att \in [Job -> 0 .. MaxAttempts - 1]
      BY <1>2 DEF IInv, TypeOK
    <3>3. Pump(queue, active - 1, [pc EXCEPT ![j] = "idle"], att)
      BY <2>3 DEF ReleaseStep, Leave
    <3> HIDE DEF att
    <3>4. /\ PumpReady(queue, active - 1, [pc EXCEPT ![j] = "idle"], att)
          /\ Occupied([pc EXCEPT ![j] = "idle"]) = Executing \ {j}
      BY <1>2, <3>1, <3>2, LeaveReady
    <3>5. Pool!Serve(queue, Occupied([pc EXCEPT ![j] = "idle"]))
      BY <2>3, <3>3, <3>4, PumpServes DEF ReleaseStep
    <3> QED
      BY <3>1, <3>4, <3>5 DEF Pool!Release
  <2>4. ASSUME NEW j \in Job, RequeueStep(j) PROVE Pool!Requeue(j)
    <3>1. j \in Executing /\ attempts \in [Job -> 0 .. MaxAttempts - 1]
      BY <1>2, <2>4 DEF RequeueStep, IInv, TypeOK
    <3>2. /\ PumpReady(Append(queue, j), active - 1, [pc EXCEPT ![j] = "idle"], attempts)
          /\ Occupied([pc EXCEPT ![j] = "idle"]) = Executing \ {j}
      BY <1>2, <3>1, LeaveReady
    <3>3. Pool!Serve(Append(queue, j), Occupied([pc EXCEPT ![j] = "idle"]))
      BY <2>4, <3>2, PumpServes DEF RequeueStep
    <3> QED
      BY <3>1, <3>2, <3>3 DEF Pool!Requeue
  <2>5. CASE CloseStep
    <3>1. Executing' = Executing
      BY <2>5 DEF CloseStep, Executing
    <3> QED
      BY <2>5, <3>1 DEF CloseStep, Pool!Close, Pool!Next
  <2>6. CASE ResetStep
    <3>1. Executing' = {}
      BY <2>6 DEF ResetStep, Executing, InSlot, InRunJob, InMarkFailed
    <3> QED
      BY <2>6, <3>1 DEF ResetStep, Pool!Reset, Pool!Next
  <2> QED
    BY <1>2, <2>1, <2>2, <2>3, <2>4, <2>5, <2>6, StepShape DEF Pool!Next
<1> QED
  BY <1>1, <1>2, Invariance, PTL DEF Spec, PoolImplemented, Pool!Spec
=============================================================================
