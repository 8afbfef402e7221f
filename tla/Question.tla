------------------------------ MODULE Question ------------------------------
(* A question the agent asks its user, ask_user and request_secret: the run
   pauses on a RUNNING ToolCall row, the API claims that row for an answer and
   hands the answer over on the bus.  The row and the bus are two channels of
   the same news, and a timeout, a cancel, a retried request, a second tab and
   a failed statement race for them.

   The agent loop runs these tools one at a time, so a job waits for at most
   one question.  A step is the code between two awaits on the database or on
   the bus's waiter; `worker.pc` names the await the agent is in. *)
EXTENDS Integers, Sequences

CONSTANTS
  Ask, Secret,       \* questions of ask_user and of request_secret
  Answer,            \* what a user may answer
  UserRequest,           \* bound: the HTTP requests made, of several tabs or as retries
  Nothing,
  Patience,          \* waits of at most five seconds before the deadline
  MaxQuestionFaults  \* bound: statements that fail, or whose outcome is lost

Questions == Ask \cup Secret

Undelivered == {"cancelled", "timedOut", "error"}
Result      == Answer \cup Undelivered

ASSUME QuestionAssumption ==
  /\ Patience \in Nat \ {0} /\ MaxQuestionFaults \in Nat
  /\ Ask \cap Secret = {}
  /\ Nothing \notin Questions \cup Result
  /\ Answer \cap Undelivered = {}

VARIABLES
  toolCall,       \* the questions' ToolCall rows
  secrets,        \* the secret questions whose keys are in ProjectSecret
  jobRunning,     \* Job.status is RUNNING
  residentHere,   \* bus.resident has the job
  stopped,        \* bus.cancelled has the job
  activeQuestion, \* bus.activeQuestions of the job
  pendingAnswers, \* bus.pendingAnswers of the job
  worker,         \* the agent's pause; pc "waiting" is the job's one waiter on the bus
  request,        \* HTTP requests
  accepted,       \* history: the answer a request's claim stored
  outcome,        \* history: what the model was told
  questionFaults

theBus       == <<residentHere, stopped, activeQuestion, pendingAnswers>>
history      == <<accepted, outcome>>
questionVars == <<toolCall, secrets, jobRunning, theBus, worker, request, history, questionFaults>>

NoCall    == [status |-> "none", output |-> Nothing]
Resting   == [pc |-> "idle", asked |-> Nothing, rounds |-> 0, result |-> Nothing]
NoRequest == [at |-> "none", q |-> Nothing, answer |-> Nothing, running |-> FALSE]

QuestionInit ==
  /\ toolCall = [q \in Questions |-> NoCall]
  /\ secrets = {}
  /\ jobRunning = TRUE /\ residentHere = TRUE /\ stopped = FALSE
  /\ activeQuestion = Nothing /\ pendingAnswers = <<>>
  /\ worker = Resting
  /\ request = [r \in UserRequest |-> NoRequest]
  /\ accepted = [q \in Questions |-> Nothing]
  /\ outcome = [q \in Questions |-> Nothing]
  /\ questionFaults = 0

AnswerFault == questionFaults < MaxQuestionFaults /\ questionFaults' = questionFaults + 1

-----------------------------------------------------------------------------
(* The agent: runOne, the tool, awaitAnswer. *)

UnchangedByWorker == UNCHANGED <<secrets, jobRunning, residentHere, stopped, request, accepted>>

\* runOne: the row, unless the job is cancelled.
CreateCall(q) ==
  /\ worker.pc = "idle" /\ residentHere /\ ~stopped
  /\ toolCall[q] = NoCall
  /\ toolCall' = [toolCall EXCEPT ![q].status = "RUNNING"]
  /\ worker' = [Resting EXCEPT !.pc = "created", !.asked = q]
  /\ UNCHANGED <<activeQuestion, pendingAnswers, outcome, questionFaults>>
  /\ UnchangedByWorker

At(pc, n) == worker' = [worker EXCEPT !.pc = pc, !.rounds = n]

\* awaitAnswer's finally: clearQuestion, with active and pending on the bus.
QuitFrom(active, pending, pc, result) ==
  /\ worker' = [worker EXCEPT !.pc = pc, !.result = result]
  /\ activeQuestion' = IF active = worker.asked THEN Nothing ELSE active
  /\ pendingAnswers' = IF active = worker.asked THEN <<>> ELSE pending

Quit(pc, result) == QuitFrom(activeQuestion, pendingAnswers, pc, result)

\* Mutant of Loop: waitForUserResponse does not ask whether the job is cancelled.
LoopRegardless(n, active, pending) ==
  \/ n < Patience /\ pending # <<>> /\ QuitFrom(active, pending, "returning", Head(pending))
  \/ /\ n < Patience /\ pending = <<>>
     /\ At("waiting", n + 1)
     /\ activeQuestion' = active /\ pendingAnswers' = pending
  \/ n = Patience /\ stopped /\ QuitFrom(active, pending, "returning", "cancelled")
  \/ /\ n = Patience /\ ~stopped
     /\ At("expiring", n)
     /\ activeQuestion' = active /\ pendingAnswers' = pending

\* The loop's condition, after n waits, and waitForUserResponse up to its timer.
Loop(n, active, pending) ==
  \/ stopped /\ QuitFrom(active, pending, "returning", "cancelled")
  \/ /\ ~stopped /\ n < Patience /\ pending # <<>>
     /\ QuitFrom(active, pending, "returning", Head(pending))
  \/ /\ ~stopped
     /\ \/ n < Patience /\ pending = <<>> /\ At("waiting", n + 1)
        \/ n = Patience /\ At("expiring", n)
     /\ activeQuestion' = active /\ pendingAnswers' = pending

\* registerQuestion, the ask_user frame, and the first wait.
RegisterQuestion ==
  /\ worker.pc = "created"
  /\ Loop(0, worker.asked, <<>>)
  /\ UNCHANGED <<toolCall, outcome, questionFaults>>
  /\ UnchangedByWorker

\* request_secret stores the form on the row first, a statement that may fail.
RegisterFails ==
  /\ worker.pc = "created" /\ worker.asked \in Secret /\ AnswerFault
  /\ worker' = [worker EXCEPT !.pc = "failing"]
  /\ UNCHANGED <<toolCall, outcome, activeQuestion, pendingAnswers>>
  /\ UnchangedByWorker

\* The waiter's timer, five seconds or what is left until the deadline.
TimerFires ==
  /\ worker.pc = "waiting"
  /\ worker' = [worker EXCEPT !.pc = "reading"]
  /\ UNCHANGED <<toolCall, outcome, activeQuestion, pendingAnswers, questionFaults>>
  /\ UnchangedByWorker

\* Mutant of Persisted: whatever the row holds.
PersistedWhatever(q) == toolCall[q].status = "SUCCESS"

\* The answer the row holds, if the API claimed it.
Persisted(q) == toolCall[q].status = "SUCCESS" /\ toolCall[q].output \in Answer

\* Mutant of ReadPersisted: the loop has no deadline.
ReadForever ==
  /\ worker.pc = "reading"
  /\ \/ /\ Persisted(worker.asked)
        /\ Quit("returning", toolCall[worker.asked].output)
     \/ /\ ~Persisted(worker.asked)
        /\ Loop(0, activeQuestion, pendingAnswers)
  /\ UNCHANGED <<toolCall, outcome, questionFaults>>
  /\ UnchangedByWorker

\* The look at the row after a wait without an answer.
ReadPersisted ==
  /\ worker.pc = "reading"
  /\ \/ /\ Persisted(worker.asked)
        /\ Quit("returning", toolCall[worker.asked].output)
     \/ /\ ~Persisted(worker.asked)
        /\ Loop(worker.rounds, activeQuestion, pendingAnswers)
  /\ UNCHANGED <<toolCall, outcome, questionFaults>>
  /\ UnchangedByWorker

\* The deadline has passed: RUNNING becomes FAILED, unless the API was first.
Expire ==
  /\ worker.pc = "expiring"
  /\ \/ /\ toolCall[worker.asked].status = "RUNNING"
        /\ toolCall' = [toolCall EXCEPT ![worker.asked].status = "FAILED"]
        /\ Quit("returning", "timedOut")
     \/ /\ toolCall[worker.asked].status # "RUNNING"
        /\ At("rereading", worker.rounds)
        /\ UNCHANGED <<toolCall, activeQuestion, pendingAnswers>>
  /\ UNCHANGED <<outcome, questionFaults>>
  /\ UnchangedByWorker

\* The answer that was accepted a moment before the deadline.
Reread ==
  /\ worker.pc = "rereading"
  /\ LET output == toolCall[worker.asked].output
     IN  Quit("returning", IF output \in Answer THEN output ELSE "timedOut")
  /\ UNCHANGED <<toolCall, outcome, questionFaults>>
  /\ UnchangedByWorker

\* A statement of awaitAnswer or runOne fails; the update to FAILED may have
\* been made all the same.
AwaitThrows ==
  /\ worker.pc \in {"reading", "expiring", "rereading", "returning"} /\ AnswerFault
  /\ \/ UNCHANGED toolCall
     \/ /\ worker.pc = "expiring" /\ toolCall[worker.asked].status = "RUNNING"
        /\ toolCall' = [toolCall EXCEPT ![worker.asked].status = "FAILED"]
  /\ Quit("failing", Nothing)
  /\ UNCHANGED outcome
  /\ UnchangedByWorker

\* runOne: the tool's result on the row, and in the model's next message.
Return ==
  /\ worker.pc = "returning"
  /\ toolCall' = [toolCall EXCEPT ![worker.asked] =
                    [status |-> "SUCCESS", output |-> worker.result]]
  /\ outcome' = [outcome EXCEPT ![worker.asked] = worker.result]
  /\ worker' = Resting
  /\ UNCHANGED <<activeQuestion, pendingAnswers, questionFaults>>
  /\ UnchangedByWorker

\* runOne's catch.  When its update fails as well the attempt is over, and the
\* runner may start another.
ReturnError ==
  /\ worker.pc = "failing"
  /\ \/ /\ toolCall' = [toolCall EXCEPT ![worker.asked].status = "FAILED"]
        /\ UNCHANGED questionFaults
     \/ AnswerFault /\ UNCHANGED toolCall
  /\ outcome' = [outcome EXCEPT ![worker.asked] = "error"]
  /\ worker' = Resting
  /\ UNCHANGED <<activeQuestion, pendingAnswers>>
  /\ UnchangedByWorker

WorkerStep ==
  \/ RegisterQuestion \/ RegisterFails \/ TimerFires \/ ReadPersisted
  \/ Expire \/ Reread \/ AwaitThrows \/ Return \/ ReturnError

-----------------------------------------------------------------------------
(* The API: submitJobAnswer and submitSecretAnswer. *)

UnchangedByRequest == UNCHANGED <<residentHere, stopped, activeQuestion, outcome>>

Move(r, at) == request' = [request EXCEPT ![r].at = at]

\* A user answers a question the page shows, for the first time or again; the
\* handler reads the Job row.
Submit(r, q, a) ==
  /\ request[r].at = "none" /\ toolCall[q] # NoCall
  /\ request' = [request EXCEPT ![r] =
                   [at |-> "looking", q |-> q, answer |-> a, running |-> jobRunning]]
  /\ UNCHANGED <<toolCall, secrets, jobRunning, pendingAnswers, worker, accepted, questionFaults>>
  /\ UnchangedByRequest

\* An accepted answer that is submitted again.  Keys are not compared with
\* those saved; the caller gets the saved answer.
Repeated(r) ==
  LET q == request[r].q
  IN  Persisted(q) /\ (q \in Secret \/ toolCall[q].output = request[r].answer)

\* The ToolCall row is read, then the bus is asked.  A job that is not resident
\* is stranded, and terminateStrandedJob ends it.
Look(r) ==
  LET q == request[r].q
      asks == request[r].running /\ (q \in Secret => toolCall[q].status = "RUNNING")
  IN  /\ request[r].at = "looking"
      /\ \/ /\ Repeated(r)
            /\ request' = [request EXCEPT ![r].at = "ok", ![r].answer = toolCall[q].output]
            /\ UNCHANGED jobRunning
         \/ /\ ~Repeated(r) /\ asks /\ ~residentHere
            /\ jobRunning' = FALSE
            /\ Move(r, "refused")
         \/ /\ ~Repeated(r) /\ asks /\ residentHere /\ activeQuestion = q
            /\ Move(r, IF q \in Secret THEN "saving" ELSE "claiming")
            /\ UNCHANGED jobRunning
         \/ /\ ~Repeated(r) /\ (asks => residentHere /\ activeQuestion # q)
            /\ Move(r, "refused")
            /\ UNCHANGED jobRunning
      /\ UNCHANGED <<toolCall, secrets, pendingAnswers, worker, accepted, questionFaults>>
      /\ UnchangedByRequest

\* saveProjectSecrets, before the claim.
SaveSecrets(r) ==
  /\ request[r].at = "saving"
  /\ secrets' = secrets \cup {request[r].q}
  /\ Move(r, "claiming")
  /\ UNCHANGED <<toolCall, jobRunning, pendingAnswers, worker, accepted, questionFaults>>
  /\ UnchangedByRequest

\* The claim: RUNNING becomes SUCCESS with the answer.  Its acknowledgement may
\* be lost; the request then fails and nobody hands the answer over.
Claim(r) ==
  LET q == request[r].q
  IN  /\ request[r].at = "claiming"
      /\ \/ /\ toolCall[q].status = "RUNNING"
            /\ toolCall' = [toolCall EXCEPT ![q] = [status |-> "SUCCESS", output |-> request[r].answer]]
            /\ accepted' = [accepted EXCEPT ![q] = request[r].answer]
            /\ \/ Move(r, "pushing") /\ UNCHANGED questionFaults
               \/ Move(r, "refused") /\ AnswerFault
         \/ /\ toolCall[q].status # "RUNNING"
            /\ Move(r, IF q \in Secret THEN "refused" ELSE "lost")
            /\ UNCHANGED <<toolCall, accepted, questionFaults>>
      /\ UNCHANGED <<secrets, jobRunning, pendingAnswers, worker>>
      /\ UnchangedByRequest

\* Somebody else was first: with the same answer, or not.
AfterLostClaim(r) ==
  /\ request[r].at = "lost"
  /\ Move(r, IF Repeated(r) THEN "ok" ELSE "refused")
  /\ UNCHANGED <<toolCall, secrets, jobRunning, pendingAnswers, worker, accepted, questionFaults>>
  /\ UnchangedByRequest

\* Mutant of ForThisQuestion: an answer is handed to whatever question is open.
ForAnyQuestion(q) == ~stopped /\ activeQuestion # Nothing

\* pushUserResponse's guard.
ForThisQuestion(q) == ~stopped /\ activeQuestion = q

\* pushUserResponse: to the waiter, or kept until there is one.
Push(r) ==
  LET a == request[r].answer
  IN  /\ request[r].at = "pushing"
      /\ \/ /\ ForThisQuestion(request[r].q) /\ worker.pc = "waiting"
            /\ worker' = [worker EXCEPT !.pc = "returning", !.result = a]
            /\ activeQuestion' = Nothing /\ pendingAnswers' = <<>>
         \/ /\ ForThisQuestion(request[r].q) /\ worker.pc # "waiting"
            /\ pendingAnswers' = Append(pendingAnswers, a)
            /\ UNCHANGED <<worker, activeQuestion>>
         \/ ~ForThisQuestion(request[r].q) /\ UNCHANGED <<worker, activeQuestion, pendingAnswers>>
      /\ Move(r, "ok")
      /\ UNCHANGED <<toolCall, secrets, jobRunning, residentHere, stopped, history, questionFaults>>

RequestStep(r) == Look(r) \/ SaveSecrets(r) \/ Claim(r) \/ AfterLostClaim(r) \/ Push(r)

-----------------------------------------------------------------------------
(* The job around it. *)

\* requestCancel: the waiter resolves with null, whereupon awaitAnswer returns.
RequestCancel ==
  /\ residentHere /\ ~stopped
  /\ stopped' = TRUE
  /\ activeQuestion' = Nothing /\ pendingAnswers' = <<>>
  /\ worker' = IF worker.pc = "waiting"
               THEN [worker EXCEPT !.pc = "returning", !.result = "cancelled"] ELSE worker
  /\ UNCHANGED <<toolCall, secrets, jobRunning, residentHere, request, history, questionFaults>>

\* The run is over, of itself or because it was stopped.
RunEnds ==
  /\ residentHere /\ worker.pc = "idle"
  /\ residentHere' = FALSE /\ jobRunning' = FALSE
  /\ UNCHANGED <<toolCall, secrets, stopped, activeQuestion, pendingAnswers>>
  /\ UNCHANGED <<worker, request, history, questionFaults>>

\* The process dies with its bus, the run and the requests in flight; the row
\* of the job stays.
ProcessDies ==
  /\ residentHere /\ AnswerFault
  /\ residentHere' = FALSE /\ stopped' = FALSE
  /\ activeQuestion' = Nothing /\ pendingAnswers' = <<>>
  /\ worker' = Resting
  /\ request' = [r \in UserRequest |-> IF request[r].at \in {"none", "ok"} THEN request[r]
                                   ELSE [request[r] EXCEPT !.at = "refused"]]
  /\ UNCHANGED <<toolCall, secrets, jobRunning, history>>

QuestionNext ==
  \/ \E q \in Questions : CreateCall(q)
  \/ WorkerStep
  \/ \E r \in UserRequest : RequestStep(r)
  \/ \E r \in UserRequest, q \in Questions, a \in Answer : Submit(r, q, a)
  \/ RequestCancel \/ RunEnds \/ ProcessDies

QuestionSpec == QuestionInit /\ [][QuestionNext]_questionVars

\* Timers fire and statements are answered.
QuestionFairness ==
  /\ WF_questionVars(WorkerStep)
  /\ \A r \in UserRequest : WF_questionVars(RequestStep(r))

-----------------------------------------------------------------------------
(* Properties. *)

QuestionTypeOK ==
  /\ toolCall \in [Questions -> [status : {"none", "RUNNING", "SUCCESS", "FAILED"},
                                 output : Result \cup {Nothing}]]
  /\ secrets \subseteq Secret
  /\ {jobRunning, residentHere, stopped} \subseteq BOOLEAN
  /\ activeQuestion \in Questions \cup {Nothing}
  /\ pendingAnswers \in Seq(Answer)
  /\ worker \in [pc : {"idle", "created", "waiting", "reading", "expiring", "rereading",
                       "returning", "failing"},
                 asked : Questions \cup {Nothing}, rounds : 0 .. Patience,
                 result : Result \cup {Nothing}]
  /\ request \in [UserRequest -> [at : {"none", "looking", "saving", "claiming", "pushing", "lost",
                                    "ok", "refused"},
                              q : Questions \cup {Nothing}, answer : Answer \cup {Nothing},
                              running : BOOLEAN]]
  /\ accepted \in [Questions -> Answer \cup {Nothing}]
  /\ outcome \in [Questions -> Result \cup {Nothing}]
  /\ questionFaults \in 0 .. MaxQuestionFaults

\* What the model is told is the answer that was accepted for this question,
\* never one given to another; and an accepted answer is not lost to the
\* timeout, only to a cancel or to a failed statement (await-answer.ts:54 and
\* the note on pushUserResponse in project.service.ts:925).
AcceptedIsDelivered ==
  \A q \in Questions :
    /\ outcome[q] \in Answer => outcome[q] = accepted[q]
    /\ outcome[q] = "timedOut" => accepted[q] = Nothing

\* A request that was answered OK named the one answer accepted for its question,
\* also when tabs, retries and lost responses compete.
AcknowledgedIsAccepted ==
  \A r \in UserRequest : request[r].at = "ok" => request[r].answer = accepted[request[r].q]

\* The agent is never told of a key that was not stored
\* (projectSecret.service.ts:91: "Order matters").
ToldKeysAreStored == \A q \in Secret : outcome[q] \in Answer => q \in secrets

\* A cancelled job does not sit at its question (bus.ts:344: "must release its
\* runner slot immediately").
CancelReleasesRunner == stopped => worker.pc # "waiting"

\* What the requests have been told, as their callers see it.
Acknowledgements ==
  [r \in UserRequest |->
     IF request[r].at = "ok" THEN [question |-> request[r].q, answer |-> request[r].answer]
     ELSE Nothing]

\* Row, bus, timer and retries together keep the promise of a rendezvous: the
\* answer a question accepts is the first and the only one, its keys are stored
\* before, the agent is told once and of nothing else, is not told of a timeout
\* beside an accepted answer, and a request is told OK only of that answer
\* (await-answer.ts:54, project.service.ts:925, projectSecret.service.ts:91
\* "Order matters").
Meeting == INSTANCE Rendezvous
             WITH Question <- Questions, Guarded <- Secret, Request <- UserRequest,
                  stored <- secrets, told <- outcome,
                  acknowledged <- Acknowledgements

RendezvousImplemented == Meeting!Spec

\* The awaits a pause may still go through, at most.
AwaitsLeft ==
  CASE worker.pc = "idle"       -> 0
    [] worker.pc = "failing"    -> 1
    [] worker.pc = "returning"  -> 2
    [] worker.pc = "rereading"  -> 3
    [] worker.pc = "expiring"   -> 4
    [] worker.pc = "reading"    -> 5 + 2 * (Patience - worker.rounds)
    [] worker.pc = "waiting"    -> 6 + 2 * (Patience - worker.rounds)
    [] worker.pc = "created"    -> 7 + 2 * Patience

\* A pause that has begun only comes nearer to its end, whatever answers, retries,
\* cancels and failures it meets: no step gives it back a wait it has used up
\* (the deadline of await-answer.ts's loop).
PauseShrinks ==
  [][worker.pc # "idle" => UNCHANGED worker \/ AwaitsLeft' < AwaitsLeft]_questionVars

\* Every question comes to an end, and the runner's slot with it.
EveryQuestionEnds == worker.pc # "idle" ~> worker.pc = "idle"
=============================================================================
