---------------------------- MODULE QuestionProofs ----------------------------
(* Theorems about Question that hold for any questions, answers, requests,
   patience and number of faults. *)
EXTENDS Question, SequenceTheorems, TLAPS

USE QuestionAssumption

-----------------------------------------------------------------------------
(* The inductive invariant. *)

\* Whatever the worker is busy with has a question, whatever is submitted an answer.
Addressed ==
  /\ worker.pc # "idle" => worker.asked \in Questions
  /\ \A r \in UserRequest : request[r].at # "none" =>
       request[r].q \in Questions /\ request[r].answer \in Answer

\* A row that waits has no answer, the answer on a row is the accepted one, and it
\* stays there until the model is told.
RowsStand ==
  \A q \in Questions :
    /\ toolCall[q].status \in {"none", "RUNNING"} => accepted[q] = Nothing
    /\ toolCall[q].status = "none" => outcome[q] = Nothing
    /\ toolCall[q].output \in Answer => toolCall[q].output = accepted[q]
    /\ accepted[q] # Nothing => toolCall[q].output = accepted[q] \/ outcome[q] # Nothing

\* The bus has answers for the question the worker is at, and accepted ones only.
BusStands ==
  /\ activeQuestion # Nothing =>
       /\ activeQuestion = worker.asked
       /\ worker.pc \in {"waiting", "reading", "expiring", "rereading"}
  /\ pendingAnswers # <<>> => activeQuestion # Nothing
  /\ \A i \in 1 .. Len(pendingAnswers) : pendingAnswers[i] = accepted[activeQuestion]

\* The worker has not told the model yet; it returns the accepted answer, and times
\* out when there is none and will be none.
WorkerStands ==
  /\ worker.pc # "idle" => outcome[worker.asked] = Nothing
  /\ worker.pc # "idle" => toolCall[worker.asked].status # "none"
  /\ worker.pc = "rereading" => toolCall[worker.asked].status # "RUNNING"
  /\ worker.pc = "returning" =>
       /\ worker.result # Nothing
       /\ worker.result \in Answer => worker.result = accepted[worker.asked]
       /\ worker.result = "timedOut" =>
            accepted[worker.asked] = Nothing /\ toolCall[worker.asked].status # "RUNNING"

RequestsStand ==
  \A r \in UserRequest :
    /\ request[r].at \in {"pushing", "ok"} => request[r].answer = accepted[request[r].q]
    /\ request[r].at = "lost" => request[r].q \notin Secret
    /\ request[r].at = "saving" => request[r].q \in Secret
    /\ request[r].at = "claiming" /\ request[r].q \in Secret => request[r].q \in secrets

OutcomesStand ==
  \A q \in Questions :
    /\ outcome[q] \in Answer => outcome[q] = accepted[q]
    /\ outcome[q] = "timedOut" => accepted[q] = Nothing
    /\ outcome[q] \in {"timedOut", "cancelled"} => toolCall[q].status # "RUNNING"
    /\ q \in Secret /\ accepted[q] # Nothing => q \in secrets

IInv ==
  /\ QuestionTypeOK /\ Addressed /\ RowsStand /\ BusStands /\ WorkerStands /\ RequestsStand
  /\ OutcomesStand /\ CancelReleasesRunner

-----------------------------------------------------------------------------
(* Types. *)

CallType    == [status : {"none", "RUNNING", "SUCCESS", "FAILED"}, output : Result \cup {Nothing}]
WorkerType  == [pc : {"idle", "created", "waiting", "reading", "expiring", "rereading", "returning",
                      "failing"},
                asked : Questions \cup {Nothing}, rounds : 0 .. Patience,
                result : Result \cup {Nothing}]
RequestType == [at : {"none", "looking", "saving", "claiming", "pushing", "lost", "ok", "refused"},
                q : Questions \cup {Nothing}, answer : Answer \cup {Nothing}, running : BOOLEAN]

\* What has few values.
Flags ==
  /\ {jobRunning, residentHere, stopped} \subseteq BOOLEAN
  /\ questionFaults \in 0 .. MaxQuestionFaults

Told ==
  /\ toolCall \in [Questions -> CallType]
  /\ accepted \in [Questions -> Answer \cup {Nothing}]
  /\ outcome \in [Questions -> Result \cup {Nothing}]
  /\ secrets \subseteq Secret

TheBus == activeQuestion \in Questions \cup {Nothing} /\ pendingAnswers \in Seq(Answer)

LEMMA TypeParts ==
  QuestionTypeOK <=> /\ Flags /\ Told /\ TheBus /\ worker \in WorkerType
                     /\ request \in [UserRequest -> RequestType]
BY DEF QuestionTypeOK, Flags, Told, TheBus, CallType, WorkerType, RequestType

LEMMA TypePartsNext ==
  QuestionTypeOK' <=> (/\ Flags /\ Told /\ TheBus /\ worker \in WorkerType
                       /\ request \in [UserRequest -> RequestType])'
BY DEF QuestionTypeOK, Flags, Told, TheBus, CallType, WorkerType, RequestType

\* The values that tell nothing.
LEMMA Words ==
  /\ {"cancelled", "timedOut", "error"} \subseteq Result /\ Answer \subseteq Result
  /\ {"cancelled", "timedOut", "error"} \cap Answer = {} /\ Nothing \notin Result /\ Nothing \notin Questions
BY DEF Result, Undelivered, Questions

LEMMA FaultType ==
  ASSUME Flags, AnswerFault
  PROVE  questionFaults' \in 0 .. MaxQuestionFaults
BY DEF Flags, AnswerFault

LEMMA HeadIsAnswer ==
  ASSUME NEW s \in Seq(Answer), s # <<>>
  PROVE  Head(s) = s[1] /\ Head(s) \in Answer /\ 1 \in 1 .. Len(s)
OBVIOUS

-----------------------------------------------------------------------------
(* What the worker's pause is left with: it waits on, with the bus as it was
   found, or quits, with the answer it found or none. *)

WaitsOn(active, pending) ==
  /\ ~stopped /\ worker'.pc \in {"waiting", "expiring"} /\ worker'.asked = worker.asked
  /\ activeQuestion' = active /\ pendingAnswers' = pending

Quits(active, pending, pc) ==
  /\ worker'.pc = pc /\ worker'.asked = worker.asked
  /\ activeQuestion' = IF active = worker.asked THEN Nothing ELSE active
  /\ pendingAnswers' = IF active = worker.asked THEN <<>> ELSE pending

LEMMA QuitMoves ==
  ASSUME worker \in WorkerType, NEW active, NEW pending, NEW pc \in {"returning", "failing"},
         NEW result \in Result \cup {Nothing}, QuitFrom(active, pending, pc, result)
  PROVE  worker' \in WorkerType /\ Quits(active, pending, pc) /\ worker'.result = result
BY DEF QuitFrom, Quits, WorkerType

LEMMA LoopMoves ==
  ASSUME worker \in WorkerType, NEW active, NEW pending \in Seq(Answer), NEW n \in 0 .. Patience,
         Loop(n, active, pending)
  PROVE  /\ worker' \in WorkerType
         /\ \/ WaitsOn(active, pending)
            \/ /\ Quits(active, pending, "returning")
               /\ worker'.result = "cancelled" \/ (pending # <<>> /\ worker'.result = Head(pending))
<1>1. CASE stopped /\ QuitFrom(active, pending, "returning", "cancelled")
  BY <1>1, QuitMoves, Words
<1>2. CASE ~stopped /\ n < Patience /\ pending # <<>> /\ QuitFrom(active, pending, "returning", Head(pending))
  <2>1. Head(pending) \in Result
    BY <1>2, HeadIsAnswer, Words
  <2> QED
    BY <1>2, <2>1, QuitMoves
<1>3. CASE /\ ~stopped /\ activeQuestion' = active /\ pendingAnswers' = pending
           /\ \/ n < Patience /\ pending = <<>> /\ At("waiting", n + 1)
              \/ n = Patience /\ At("expiring", n)
  <2>1. PICK pc \in {"waiting", "expiring"}, m \in 0 .. Patience : worker' = [worker EXCEPT !.pc = pc, !.rounds = m]
    <3>1. n < Patience => n + 1 \in 0 .. Patience
      OBVIOUS
    <3> QED
      BY <1>3, <3>1 DEF At
  <2>2. worker' \in WorkerType /\ worker'.pc = pc /\ worker'.asked = worker.asked
    BY <2>1 DEF WorkerType
  <2> QED
    BY <1>3, <2>2 DEF WaitsOn
<1> QED
  BY <1>1, <1>2, <1>3 DEF Loop

-----------------------------------------------------------------------------
(* The agent's steps. *)

\* The row of the question the worker is at may have expired.
RowMayExpire ==
  \/ toolCall' = toolCall
  \/ /\ toolCall[worker.asked].status = "RUNNING"
     /\ toolCall' = [toolCall EXCEPT ![worker.asked].status = "FAILED"]

LEMMA RowsKept ==
  ASSUME IInv, worker.pc # "idle", RowMayExpire, UNCHANGED <<outcome, accepted, secrets>>
  PROVE  Told' /\ RowsStand' /\ OutcomesStand'
<1> USE TypeParts DEF IInv
<1>1. CASE toolCall' = toolCall
  BY <1>1 DEF Told, RowsStand, OutcomesStand
<1>2. CASE /\ toolCall[worker.asked].status = "RUNNING"
           /\ toolCall' = [toolCall EXCEPT ![worker.asked].status = "FAILED"]
  <2> DEFINE q == worker.asked
  <2>1. q \in Questions
    BY DEF Addressed
  <2>2. Told'
    BY <1>2, <2>1 DEF Told, CallType
  <2>3. ASSUME NEW p \in Questions
        PROVE  /\ toolCall'[p].output = toolCall[p].output
               /\ p = q => toolCall'[p].status = "FAILED"
               /\ p # q => toolCall'[p].status = toolCall[p].status
    BY <1>2 DEF Told, CallType
  <2> HIDE DEF q
  <2> QED
    BY <2>2, <2>3 DEF RowsStand, OutcomesStand
<1> QED
  BY <1>1, <1>2 DEF RowMayExpire

\* The worker goes on with its pause, or ends it.
LEMMA PauseKept ==
  ASSUME IInv, worker.pc # "idle", RowMayExpire, Flags',
         UNCHANGED <<outcome, accepted, secrets, request, stopped>>,
         NEW active \in Questions \cup {Nothing}, NEW pending \in Seq(Answer),
         active # Nothing => active = worker.asked,
         pending # <<>> => active # Nothing,
         \A i \in 1 .. Len(pending) : pending[i] = accepted[active],
         worker' \in WorkerType,
         \/ WaitsOn(active, pending)
         \/ Quits(active, pending, "failing")
         \/ /\ Quits(active, pending, "returning")
            /\ worker'.result # Nothing
            /\ worker'.result \in Answer => worker'.result = accepted[worker.asked]
            /\ worker'.result = "timedOut" =>
                 accepted[worker.asked] = Nothing /\ toolCall'[worker.asked].status # "RUNNING"
  PROVE  IInv'
<1> USE DEF IInv
<1>1. /\ worker.asked \in Questions /\ worker.asked # Nothing /\ worker'.asked = worker.asked
      /\ worker'.pc \in {"waiting", "expiring", "failing", "returning"}
  BY Words DEF Addressed, WaitsOn, Quits
<1>2. Told' /\ RowsStand' /\ OutcomesStand'
  BY RowsKept
<1>3. TheBus' /\ BusStands'
  <2>1. CASE WaitsOn(active, pending)
    BY <1>1, <2>1 DEF WaitsOn, TheBus, BusStands
  <2>2. CASE Quits(active, pending, "failing") \/ Quits(active, pending, "returning")
    <3>1. activeQuestion' = Nothing /\ pendingAnswers' = <<>>
      BY <1>1, <2>2 DEF Quits
    <3> QED
      BY <3>1 DEF TheBus, BusStands
  <2> QED
    BY <2>1, <2>2
<1>4. toolCall'[worker.asked].status # "none"
  BY <1>1, TypeParts DEF WorkerStands, RowMayExpire, Told, CallType
<1>5. WorkerStands'
  BY <1>1, <1>4 DEF WorkerStands, WaitsOn, Quits
<1>6. Addressed' /\ RequestsStand' /\ QuestionTypeOK'
  BY <1>1, <1>2, <1>3, TypeParts, TypePartsNext DEF Addressed, RequestsStand
<1>7. CancelReleasesRunner'
  BY DEF CancelReleasesRunner, WaitsOn, Quits
<1> QED
  BY <1>2, <1>3, <1>5, <1>6, <1>7

LEMMA RegisterKept ==
  ASSUME IInv, RegisterQuestion \/ RegisterFails
  PROVE  IInv'
<1> USE DEF IInv
<1>1. /\ UNCHANGED <<toolCall, outcome, accepted, secrets, request, stopped, jobRunning, residentHere>>
      /\ worker.pc = "created" /\ Flags'
  BY TypeParts, FaultType DEF RegisterQuestion, RegisterFails, UnchangedByWorker, Flags
<1>2. RowMayExpire /\ activeQuestion = Nothing /\ pendingAnswers = <<>> /\ worker.asked \in Questions
  BY <1>1 DEF RowMayExpire, BusStands, Addressed
<1> DEFINE none == <<>>
           zero == 0
<1>0. none = <<>> /\ none \in Seq(Answer) /\ 1 .. Len(none) = {} /\ zero \in 0 .. Patience
  OBVIOUS
<1>3. CASE RegisterQuestion
  <2>1. Loop(zero, worker.asked, none)
    BY <1>3 DEF RegisterQuestion
  <2> HIDE DEF none, zero
  <2>2. /\ worker' \in WorkerType
        /\ \/ WaitsOn(worker.asked, none)
           \/ Quits(worker.asked, none, "returning") /\ worker'.result = "cancelled"
    BY <1>0, <2>1, LoopMoves, TypeParts
  <2> QED
    BY <1>0, <1>1, <1>2, <2>2, PauseKept, Words
<1>4. CASE RegisterFails
  <2>1. worker' \in WorkerType /\ worker'.pc = "failing" /\ worker'.asked = worker.asked
    BY <1>4, TypeParts DEF RegisterFails, WorkerType
  <2>2. activeQuestion' = Nothing /\ pendingAnswers' = <<>>
    BY <1>2, <1>4 DEF RegisterFails
  <2>3. Quits(Nothing, none, "failing")
    BY <2>1, <2>2 DEF Quits
  <2> HIDE DEF none
  <2> QED
    BY <1>0, <1>1, <1>2, <2>1, <2>3, PauseKept
<1> QED
  BY <1>3, <1>4

\* The bus as a pause finds it.
LEMMA BusFound ==
  ASSUME IInv
  PROVE  /\ activeQuestion \in Questions \cup {Nothing} /\ pendingAnswers \in Seq(Answer)
         /\ activeQuestion # Nothing => activeQuestion = worker.asked
         /\ pendingAnswers # <<>> => activeQuestion # Nothing
         /\ \A i \in 1 .. Len(pendingAnswers) : pendingAnswers[i] = accepted[activeQuestion]
BY TypeParts DEF IInv, TheBus, BusStands

\* A wait that was without an answer, and the end of waiting.
LEMMA ReadsKept ==
  ASSUME IInv, ReadPersisted \/ Reread
  PROVE  IInv'
<1> USE DEF IInv
<1>1. /\ UNCHANGED <<toolCall, outcome, accepted, secrets, request, stopped, jobRunning, residentHere>>
      /\ worker.pc \in {"reading", "rereading"} /\ Flags' /\ worker \in WorkerType /\ RowMayExpire
  BY TypeParts DEF ReadPersisted, Reread, UnchangedByWorker, Flags, RowMayExpire
<1> DEFINE q == worker.asked
           output == toolCall[q].output
<1>2. q \in Questions /\ (output \in Answer => output = accepted[q])
  BY <1>1 DEF Addressed, RowsStand
<1>3. CASE ReadPersisted /\ Persisted(q)
  <2>1. QuitFrom(activeQuestion, pendingAnswers, "returning", output) /\ output \in Answer
    BY <1>3, <1>1 DEF ReadPersisted, Quit, Persisted
  <2>2. /\ worker' \in WorkerType /\ Quits(activeQuestion, pendingAnswers, "returning")
        /\ worker'.result = output
    BY <1>1, <2>1, QuitMoves, Words
  <2>3. worker'.result = accepted[worker.asked] /\ worker'.result \notin {"timedOut", Nothing}
    BY <1>2, <2>1, <2>2, Words
  <2> QED
    BY <1>1, <2>2, <2>3, BusFound, PauseKept
<1>4. CASE ReadPersisted /\ ~Persisted(q)
  <2>1. Loop(worker.rounds, activeQuestion, pendingAnswers) /\ worker.rounds \in 0 .. Patience
    BY <1>4, <1>1 DEF ReadPersisted, WorkerType
  <2>2. /\ worker' \in WorkerType
        /\ \/ WaitsOn(activeQuestion, pendingAnswers)
           \/ /\ Quits(activeQuestion, pendingAnswers, "returning")
              /\ \/ worker'.result = "cancelled"
                 \/ pendingAnswers # <<>> /\ worker'.result = Head(pendingAnswers)
    BY <1>1, <2>1, BusFound, LoopMoves
  <2>3. pendingAnswers # <<>> => Head(pendingAnswers) \in Answer /\ Head(pendingAnswers) = accepted[worker.asked]
    BY BusFound, HeadIsAnswer
  <2>4. \/ WaitsOn(activeQuestion, pendingAnswers)
        \/ /\ Quits(activeQuestion, pendingAnswers, "returning")
           /\ worker'.result \in Answer => worker'.result = accepted[worker.asked]
           /\ worker'.result \notin {"timedOut", Nothing}
    BY <2>2, <2>3, Words
  <2> QED
    BY <1>1, <2>2, <2>4, BusFound, PauseKept
<1>5. CASE Reread
  <2> DEFINE result == IF output \in Answer THEN output ELSE "timedOut"
  <2>1. QuitFrom(activeQuestion, pendingAnswers, "returning", result) /\ result \in Result
    BY <1>5, Words DEF Reread, Quit
  <2>2. /\ worker' \in WorkerType /\ Quits(activeQuestion, pendingAnswers, "returning")
        /\ worker'.result = result
    BY <1>1, <2>1, QuitMoves
  <2>3. toolCall'[worker.asked].status # "RUNNING" /\ outcome[worker.asked] = Nothing
    BY <1>1, <1>5 DEF Reread, WorkerStands
  <2>4. output \notin Answer => accepted[q] = Nothing
    BY <1>2, <2>3, TypeParts DEF RowsStand, Told
  <2>5. /\ worker'.result # Nothing
        /\ worker'.result \in Answer => worker'.result = accepted[worker.asked]
        /\ worker'.result = "timedOut" => accepted[worker.asked] = Nothing
    BY <1>2, <2>2, <2>4, Words
  <2> QED
    BY <1>1, <2>2, <2>3, <2>5, BusFound, PauseKept
<1> QED
  BY <1>1, <1>3, <1>4, <1>5 DEF ReadPersisted, Reread

\* The worker's pc moves and nothing else does.
LEMMA WorkerMovesKept ==
  ASSUME IInv, UNCHANGED <<toolCall, outcome, accepted, secrets, request, stopped, jobRunning,
                           residentHere, activeQuestion, pendingAnswers, questionFaults>>,
         worker.pc \in {"waiting", "expiring"}, NEW pc \in {"reading", "rereading"},
         pc = "rereading" => toolCall[worker.asked].status # "RUNNING",
         worker' \in WorkerType, worker'.pc = pc, worker'.asked = worker.asked
  PROVE  IInv'
<1> USE DEF IInv
<1>1. QuestionTypeOK'
  BY TypeParts, TypePartsNext DEF Flags, Told, TheBus
<1>2. Addressed' /\ RowsStand' /\ OutcomesStand' /\ RequestsStand'
  BY DEF Addressed, RowsStand, OutcomesStand, RequestsStand
<1>3. BusStands' /\ WorkerStands' /\ CancelReleasesRunner'
  BY DEF BusStands, WorkerStands, CancelReleasesRunner
<1> QED
  BY <1>1, <1>2, <1>3

LEMMA ExpireKept ==
  ASSUME IInv, Expire \/ TimerFires
  PROVE  IInv'
<1> USE DEF IInv
<1>1. /\ UNCHANGED <<outcome, accepted, secrets, request, stopped, jobRunning, residentHere, questionFaults>>
      /\ worker \in WorkerType /\ worker.asked \in Questions /\ Flags'
  BY TypeParts DEF Expire, TimerFires, UnchangedByWorker, Flags, Addressed
<1>2. CASE Expire /\ toolCall[worker.asked].status = "RUNNING"
  <2>1. /\ toolCall' = [toolCall EXCEPT ![worker.asked].status = "FAILED"]
        /\ QuitFrom(activeQuestion, pendingAnswers, "returning", "timedOut")
        /\ worker.pc = "expiring"
    BY <1>2 DEF Expire, Quit
  <2>2. /\ worker' \in WorkerType /\ Quits(activeQuestion, pendingAnswers, "returning")
        /\ worker'.result = "timedOut"
    BY <1>1, <2>1, QuitMoves, Words
  <2>3. accepted[worker.asked] = Nothing /\ toolCall'[worker.asked].status # "RUNNING"
    BY <1>1, <1>2, <2>1, TypeParts DEF RowsStand, Told, CallType
  <2>4. worker'.result \notin Answer \cup {Nothing} /\ RowMayExpire
    BY <1>2, <2>1, <2>2, Words DEF RowMayExpire
  <2> QED
    BY <1>1, <2>1, <2>2, <2>3, <2>4, BusFound, PauseKept
<1>3. CASE Expire /\ toolCall[worker.asked].status # "RUNNING"
  <2>1. /\ UNCHANGED <<toolCall, activeQuestion, pendingAnswers>> /\ worker.pc = "expiring"
        /\ worker' \in WorkerType /\ worker'.pc = "rereading" /\ worker'.asked = worker.asked
    BY <1>1, <1>3 DEF Expire, At, WorkerType
  <2> QED
    BY <1>1, <1>3, <2>1, WorkerMovesKept
<1>4. CASE TimerFires
  <2>1. /\ UNCHANGED <<toolCall, activeQuestion, pendingAnswers>> /\ worker.pc = "waiting"
        /\ worker' \in WorkerType /\ worker'.pc = "reading" /\ worker'.asked = worker.asked
    BY <1>1, <1>4 DEF TimerFires, WorkerType
  <2> QED
    BY <1>1, <2>1, WorkerMovesKept
<1> QED
  BY <1>2, <1>3, <1>4

LEMMA ThrowsKept ==
  ASSUME IInv, AwaitThrows
  PROVE  IInv'
<1> USE DEF IInv
<1>1. /\ UNCHANGED <<outcome, accepted, secrets, request, stopped, jobRunning, residentHere>>
      /\ worker \in WorkerType /\ worker.pc # "idle" /\ Flags' /\ RowMayExpire
      /\ QuitFrom(activeQuestion, pendingAnswers, "failing", Nothing)
  BY TypeParts, FaultType DEF AwaitThrows, UnchangedByWorker, Flags, RowMayExpire, Quit
<1>2. worker' \in WorkerType /\ Quits(activeQuestion, pendingAnswers, "failing")
  BY <1>1, QuitMoves
<1> QED
  BY <1>1, <1>2, BusFound, PauseKept

\* The model is told, or the question comes up.
LEMMA CreateKept ==
  ASSUME IInv, NEW q \in Questions, CreateCall(q)
  PROVE  IInv'
<1> USE DEF IInv
<1>1. /\ UNCHANGED <<activeQuestion, pendingAnswers, outcome, questionFaults, secrets, jobRunning,
                     residentHere, stopped, request, accepted>>
      /\ toolCall[q] = NoCall /\ worker.pc = "idle"
  BY DEF CreateCall, UnchangedByWorker
<1>2. toolCall[q].status = "none" /\ outcome[q] = Nothing /\ accepted[q] = Nothing
  BY <1>1 DEF NoCall, RowsStand
<1>3. worker' \in WorkerType /\ worker'.pc = "created" /\ worker'.asked = q
  <2>1. Resting \in WorkerType
    BY DEF Resting, WorkerType
  <2>2. worker' = [Resting EXCEPT !.pc = "created", !.asked = q]
    BY DEF CreateCall
  <2> QED
    BY <2>1, <2>2 DEF WorkerType
<1>4. Told' /\ \A p \in Questions :
        /\ toolCall'[p].output = toolCall[p].output
        /\ p = q => toolCall'[p].status = "RUNNING"
        /\ p # q => toolCall'[p].status = toolCall[p].status
  BY <1>1, TypeParts DEF CreateCall, Told, CallType
<1>5. QuestionTypeOK'
  BY <1>1, <1>3, <1>4, TypeParts, TypePartsNext DEF Flags, TheBus
<1>6. Addressed' /\ RequestsStand' /\ CancelReleasesRunner'
  BY <1>1, <1>3 DEF Addressed, RequestsStand, CancelReleasesRunner
<1>7. RowsStand' /\ OutcomesStand'
  BY <1>1, <1>2, <1>4, Words DEF RowsStand, OutcomesStand
<1>8. BusStands'
  BY <1>1 DEF BusStands
<1>9. WorkerStands'
  BY <1>1, <1>2, <1>3, <1>4 DEF WorkerStands
<1> QED
  BY <1>5, <1>6, <1>7, <1>8, <1>9

LEMMA ReturnKept ==
  ASSUME IInv, Return \/ ReturnError
  PROVE  IInv'
<1> USE DEF IInv
<1> DEFINE q == worker.asked
           told == IF worker.pc = "returning" THEN worker.result ELSE "error"
<1>1. /\ UNCHANGED <<activeQuestion, pendingAnswers, secrets, jobRunning, residentHere, stopped, request,
                     accepted>>
      /\ worker' = Resting /\ outcome' = [outcome EXCEPT ![q] = told]
      /\ worker.pc \in {"returning", "failing"} /\ Flags' /\ worker \in WorkerType
  BY TypeParts, FaultType DEF Return, ReturnError, UnchangedByWorker, Flags
<1>2. q \in Questions /\ outcome[q] = Nothing /\ toolCall[q].status # "none"
  BY <1>1 DEF Addressed, WorkerStands
<1>3. /\ told \in Result /\ told # Nothing
      /\ told \in Answer => told = accepted[q]
      /\ told = "timedOut" => accepted[q] = Nothing
      /\ told # "error" => worker.pc = "returning"
  BY <1>1, Words DEF WorkerStands, WorkerType
<1>4. \A p \in Questions : p # q => toolCall'[p] = toolCall[p] /\ outcome'[p] = outcome[p]
  BY <1>1, TypeParts DEF Return, ReturnError, Told
<1>5. outcome'[q] = told
  BY <1>1, <1>2, TypeParts DEF Told
<1>6. toolCall' \in [Questions -> CallType]
  <2>1. [status |-> "SUCCESS", output |-> worker.result] \in CallType
    BY <1>1 DEF WorkerType, CallType
  <2>2. CASE Return
    BY <2>1, <2>2, TypeParts DEF Return, Told
  <2>3. CASE ReturnError
    BY <2>3, TypeParts DEF ReturnError, Told, CallType
  <2> QED
    BY <2>2, <2>3
<1>7. /\ toolCall'[q].status # "none"
      /\ worker.pc = "returning" => toolCall'[q].status # "RUNNING"
      /\ toolCall'[q].output \in Answer => toolCall'[q].output = accepted[q]
      /\ toolCall'[q].status = "RUNNING" => accepted[q] = Nothing
  <2>1. CASE Return
    <3>1. toolCall'[q] = [status |-> "SUCCESS", output |-> worker.result] /\ worker.result = told
      BY <1>2, <2>1, TypeParts DEF Return, Told
    <3> QED
      BY <1>3, <3>1
  <2>2. CASE ReturnError
    <3>1. /\ toolCall'[q].output = toolCall[q].output
          /\ toolCall'[q].status \in {toolCall[q].status, "FAILED"}
      BY <1>2, <2>2, TypeParts DEF ReturnError, Told, CallType
    <3>2. worker.pc # "returning"
      BY <2>2 DEF ReturnError
    <3> QED
      BY <1>2, <3>1, <3>2 DEF RowsStand
  <2> QED
    BY <2>1, <2>2
<1> HIDE DEF q, told
<1>8. Told' /\ worker' \in WorkerType
  <2>1. outcome' \in [Questions -> Result \cup {Nothing}]
    BY <1>1, <1>3, TypeParts DEF Told
  <2> QED
    BY <1>1, <1>6, <2>1, TypeParts DEF Told, Resting, WorkerType
<1>9. RowsStand' /\ OutcomesStand'
  <2>1. ASSUME NEW p \in Questions, p # q
        PROVE  /\ toolCall'[p] = toolCall[p] /\ outcome'[p] = outcome[p]
    BY <1>4, <2>1
  <2>2. RowsStand'
    BY <1>1, <1>3, <1>5, <1>7, <2>1 DEF RowsStand
  <2>3. OutcomesStand'
    BY <1>1, <1>3, <1>5, <1>7, <2>1 DEF OutcomesStand
  <2> QED
    BY <2>2, <2>3
<1>10. activeQuestion = Nothing /\ pendingAnswers = <<>>
  BY <1>1 DEF BusStands
<1>11. Addressed' /\ BusStands' /\ WorkerStands' /\ RequestsStand' /\ CancelReleasesRunner'
  BY <1>1, <1>10 DEF Addressed, BusStands, WorkerStands, RequestsStand, CancelReleasesRunner, Resting
<1>12. QuestionTypeOK'
  BY <1>1, <1>8, TypeParts, TypePartsNext DEF TheBus
<1> QED
  BY <1>8, <1>9, <1>11, <1>12

-----------------------------------------------------------------------------
(* The steps of a request, and the job's. *)

\* r is where it says now, and the other requests are where they were.
Moved(r, at, q, a) ==
  /\ request' \in [UserRequest -> RequestType]
  /\ request'[r].at = at /\ request'[r].q = q /\ request'[r].answer = a
  /\ \A s \in UserRequest \ {r} : request'[s] = request[s]

\* A request moves on, with the answer it had or the one it found.
LEMMA MoveKept ==
  ASSUME IInv, NEW r \in UserRequest, NEW at \in {"looking", "saving", "claiming", "lost", "ok", "refused"},
         NEW q \in Questions, NEW a \in Answer, Moved(r, at, q, a),
         at = "ok" => a = accepted[q],
         at = "lost" => q \notin Secret,
         at = "saving" => q \in Secret,
         at = "claiming" /\ q \in Secret => q \in secrets',
         secrets' = secrets \/ secrets' = secrets \cup ({q} \cap Secret),
         UNCHANGED <<toolCall, outcome, accepted, stopped, residentHere, activeQuestion, pendingAnswers, worker,
                     questionFaults>>, jobRunning' \in BOOLEAN
  PROVE  IInv'
<1> USE DEF IInv
<1>3. QuestionTypeOK'
  BY TypeParts, TypePartsNext DEF Flags, Told, TheBus, Moved
<1>4. ASSUME NEW s \in UserRequest
      PROVE  /\ s = r => /\ request'[s].at = at /\ request'[s].q = q /\ request'[s].answer = a
             /\ s # r => request'[s] = request[s]
  BY DEF Moved
<1>5. Addressed' /\ RequestsStand'
  BY <1>4 DEF Addressed, RequestsStand
<1>6. RowsStand' /\ BusStands' /\ WorkerStands' /\ OutcomesStand' /\ CancelReleasesRunner'
  BY DEF RowsStand, BusStands, WorkerStands, OutcomesStand, CancelReleasesRunner
<1> QED
  BY <1>3, <1>5, <1>6

\* A request as it is, written out.
LEMMA MoveMoves ==
  ASSUME IInv, NEW r \in UserRequest, request[r].at # "none",
         NEW at \in {"saving", "claiming", "pushing", "lost", "ok", "refused"}, Move(r, at)
  PROVE  /\ request[r].q \in Questions /\ request[r].answer \in Answer
         /\ Moved(r, at, request[r].q, request[r].answer)
BY TypeParts DEF IInv, Move, Addressed, RequestType, Moved

LEMMA RepeatedIsAccepted ==
  ASSUME IInv, NEW r \in UserRequest, request[r].at # "none", Repeated(r)
  PROVE  /\ toolCall[request[r].q].output \in Answer
         /\ toolCall[request[r].q].output = accepted[request[r].q]
         /\ request[r].q \notin Secret => request[r].answer = accepted[request[r].q]
<1>1. request[r].q \in Questions
  BY DEF IInv, Addressed
<1> QED
  BY <1>1 DEF IInv, Repeated, Persisted, RowsStand

LEMMA SubmitKept ==
  ASSUME IInv, NEW r \in UserRequest, NEW q \in Questions, NEW a \in Answer, Submit(r, q, a)
  PROVE  IInv'
<1>1. jobRunning \in BOOLEAN
  BY TypeParts DEF IInv, Flags
<1>2. Moved(r, "looking", q, a)
  BY <1>1, TypeParts DEF IInv, Submit, Moved, RequestType
<1> QED
  BY <1>1, <1>2, MoveKept DEF Submit, UnchangedByRequest

LEMMA LookKept ==
  ASSUME IInv, NEW r \in UserRequest, Look(r)
  PROVE  IInv'
<1> DEFINE q == request[r].q
<1>1. /\ request[r].at = "looking" /\ q \in Questions /\ request[r].answer \in Answer
      /\ request[r].running \in BOOLEAN /\ request[r] \in RequestType
      /\ UNCHANGED <<toolCall, secrets, pendingAnswers, worker, accepted, questionFaults, residentHere, stopped,
                     activeQuestion, outcome>>
      /\ jobRunning' \in BOOLEAN
  BY TypeParts DEF Look, UnchangedByRequest, IInv, Addressed, Flags, RequestType
<1>2. CASE Repeated(r) /\ request' = [request EXCEPT ![r].at = "ok", ![r].answer = toolCall[q].output]
  <2> DEFINE a == toolCall[q].output
  <2>1. a \in Answer /\ a = accepted[q]
    BY <1>1, <1>2, RepeatedIsAccepted
  <2>2. Moved(r, "ok", q, a)
    BY <1>1, <1>2, <2>1, TypeParts DEF IInv, RequestType, Moved
  <2> QED
    BY <1>1, <2>1, <2>2, MoveKept
<1>3. ASSUME NEW at \in {"refused", "saving"}, Move(r, at), at = "saving" => q \in Secret PROVE IInv'
  <2>1. Moved(r, at, request[r].q, request[r].answer)
    BY <1>1, <1>3, MoveMoves
  <2> QED
    BY <1>1, <1>3, <2>1, MoveKept
<1>4. ASSUME q \notin Secret, Move(r, "claiming") PROVE IInv'
  <2>1. Moved(r, "claiming", request[r].q, request[r].answer)
    BY <1>1, <1>4, MoveMoves
  <2> QED
    BY <1>1, <1>4, <2>1, MoveKept
<1> QED
  BY <1>2, <1>3, <1>4 DEF Look

LEMMA SaveKept ==
  ASSUME IInv, NEW r \in UserRequest, SaveSecrets(r) \/ AfterLostClaim(r)
  PROVE  IInv'
<1>1. /\ request[r].at \in {"saving", "lost"} /\ request[r].q \in Questions /\ request[r].answer \in Answer
      /\ request[r].running \in BOOLEAN
      /\ UNCHANGED <<toolCall, pendingAnswers, worker, accepted, questionFaults, residentHere, stopped,
                     activeQuestion, outcome, jobRunning>> /\ jobRunning \in BOOLEAN
  BY TypeParts DEF SaveSecrets, AfterLostClaim, UnchangedByRequest, IInv, Addressed, Flags, RequestType
<1>2. CASE SaveSecrets(r)
  <2>1. request[r].q \in Secret
    BY <1>2 DEF SaveSecrets, IInv, RequestsStand
  <2>2. Moved(r, "claiming", request[r].q, request[r].answer)
    BY <1>1, <1>2, MoveMoves DEF SaveSecrets
  <2>3. secrets' = secrets \cup ({request[r].q} \cap Secret)
    BY <1>2, <2>1 DEF SaveSecrets
  <2> QED
    BY <1>1, <2>1, <2>2, <2>3, MoveKept
<1>3. CASE AfterLostClaim(r)
  <2>1. secrets' = secrets /\ request[r].at = "lost" /\ request[r].q \notin Secret
    BY <1>3 DEF AfterLostClaim, IInv, RequestsStand
  <2>2. PICK at \in {"ok", "refused"} : Move(r, at) /\ (at = "ok" => Repeated(r))
    BY <1>3 DEF AfterLostClaim
  <2>3. Moved(r, at, request[r].q, request[r].answer)
    BY <1>1, <2>2, MoveMoves
  <2>4. at = "ok" => request[r].answer = accepted[request[r].q]
    BY <1>1, <2>1, <2>2, RepeatedIsAccepted
  <2> QED
    BY <1>1, <2>1, <2>3, <2>4, MoveKept
<1> QED
  BY <1>2, <1>3

\* Only a row that waits is claimed, and it has no answer.
LEMMA ClaimKept ==
  ASSUME IInv, NEW r \in UserRequest, Claim(r)
  PROVE  IInv'
<1> USE DEF IInv
<1> DEFINE q == request[r].q
           a == request[r].answer
<1>1. /\ request[r].at = "claiming" /\ q \in Questions /\ a \in Answer
      /\ UNCHANGED <<secrets, jobRunning, pendingAnswers, worker, residentHere, stopped, activeQuestion, outcome>>
      /\ jobRunning \in BOOLEAN
  BY TypeParts DEF Claim, UnchangedByRequest, Addressed, Flags
<1>2. CASE toolCall[q].status # "RUNNING" /\ UNCHANGED <<toolCall, accepted, questionFaults>>
  <2>1. PICK at \in {"refused", "lost"} : Move(r, at) /\ (at = "lost" => q \notin Secret)
    BY <1>1, <1>2 DEF Claim
  <2>2. Moved(r, at, q, a)
    BY <1>1, <2>1, MoveMoves
  <2> QED
    BY <1>1, <1>2, <2>1, <2>2, MoveKept
<1>3. CASE /\ toolCall[q].status = "RUNNING"
           /\ toolCall' = [toolCall EXCEPT ![q] = [status |-> "SUCCESS", output |-> a]]
           /\ accepted' = [accepted EXCEPT ![q] = a]
  <2>1. PICK at \in {"pushing", "refused"} : Move(r, at)
    BY <1>3 DEF Claim
  <2>2. Moved(r, at, q, a)
    BY <1>1, <2>1, MoveMoves
  <2>3. Flags'
    BY <1>1, <1>3, TypeParts, FaultType DEF Claim, Flags
  <2>4. accepted[q] = Nothing
    BY <1>1, <1>3 DEF RowsStand
  <2>5. [status |-> "SUCCESS", output |-> a] \in CallType
    BY <1>1, Words DEF CallType
  <2>6. Told'
    BY <1>1, <1>3, <2>5, TypeParts DEF Told
  <2>7. /\ toolCall'[q].status = "SUCCESS" /\ toolCall'[q].output = a /\ accepted'[q] = a /\ a # Nothing
        /\ \A p \in Questions \ {q} : toolCall'[p] = toolCall[p] /\ accepted'[p] = accepted[p]
    BY <1>1, <1>3, TypeParts, Words DEF Told
  <2>8. q \in Secret => q \in secrets
    BY <1>1 DEF RequestsStand
  <2> HIDE DEF q, a
  <2>9. QuestionTypeOK'
    BY <1>1, <2>2, <2>3, <2>6, TypeParts, TypePartsNext DEF TheBus, Moved
  <2>10. Addressed' /\ CancelReleasesRunner'
    BY <1>1, <2>2 DEF Addressed, CancelReleasesRunner, Moved
  <2>11. RowsStand'
    BY <1>1, <2>7 DEF RowsStand
  <2>12. OutcomesStand'
    BY <1>1, <1>3, <2>4, <2>7, <2>8, Words DEF OutcomesStand
  <2>13. RequestsStand'
    <3>1. ASSUME NEW s \in UserRequest, s # r, request[s].at \in {"pushing", "ok"}
          PROVE  request[s].answer = accepted'[request[s].q]
      <4>1. /\ request[s].q \in Questions /\ request[s].answer \in Answer
            /\ request[s].answer = accepted[request[s].q]
        BY <3>1 DEF Addressed, RequestsStand
      <4>2. request[s].q # q
        BY <2>4, <4>1, Words
      <4> QED
        BY <2>7, <4>1, <4>2
    <3> QED
      BY <1>1, <2>2, <2>7, <3>1 DEF RequestsStand, Moved
  <2>14. BusStands'
    <3>1. ASSUME NEW i \in 1 .. Len(pendingAnswers)
          PROVE  pendingAnswers[i] = accepted'[activeQuestion]
      <4>1. pendingAnswers[i] \in Answer /\ pendingAnswers[i] = accepted[activeQuestion]
        BY TypeParts DEF TheBus, BusStands
      <4>2. activeQuestion \in Questions
        BY TypeParts DEF TheBus, BusStands
      <4>3. activeQuestion # q
        BY <2>4, <4>1, Words
      <4> QED
        BY <2>7, <4>1, <4>2, <4>3
    <3> QED
      BY <1>1, <3>1 DEF BusStands
  <2>15. WorkerStands'
    <3>1. CASE worker.pc = "idle"
      BY <1>1, <3>1 DEF WorkerStands
    <3>2. CASE worker.pc # "idle" /\ worker.asked # q
      BY <1>1, <2>7, <3>2 DEF WorkerStands, Addressed
    <3>3. CASE worker.pc # "idle" /\ worker.asked = q
      BY <1>1, <1>3, <2>4, <2>7, <3>3, Words DEF WorkerStands, q, a
    <3> QED
      BY <3>1, <3>2, <3>3
  <2> QED
    BY <2>9, <2>10, <2>11, <2>12, <2>13, <2>14, <2>15
<1> QED
  BY <1>2, <1>3 DEF Claim

\* What is pushed was accepted, and only reaches its own question.
LEMMA PushKept ==
  ASSUME IInv, NEW r \in UserRequest, Push(r)
  PROVE  IInv'
<1> USE DEF IInv
<1> DEFINE q == request[r].q
           a == request[r].answer
<1>1. /\ request[r].at = "pushing" /\ q \in Questions /\ a \in Answer /\ a = accepted[q] /\ Moved(r, "ok", q, a)
      /\ UNCHANGED <<toolCall, secrets, jobRunning, residentHere, stopped, accepted, outcome, questionFaults>>
  BY MoveMoves DEF Push, Addressed, RequestsStand, history
<1>2. Addressed' /\ RequestsStand' /\ (worker'.pc = "idle" \/ worker'.asked \in Questions)
      /\ worker' \in WorkerType /\ TheBus'
  <2>1. worker' \in WorkerType /\ worker'.asked = worker.asked /\ (worker'.pc = "idle" <=> worker.pc = "idle")
    <3>1. a \in Result
      BY <1>1, Words
    <3>2. \/ worker' = worker
          \/ worker.pc = "waiting" /\ worker' = [worker EXCEPT !.pc = "returning", !.result = a]
      BY DEF Push
    <3>3. worker \in WorkerType
      BY TypeParts
    <3> HIDE DEF a
    <3> QED
      BY <3>1, <3>2, <3>3 DEF WorkerType
  <2>2. TheBus'
    <3>1. /\ activeQuestion' \in {activeQuestion, Nothing}
          /\ pendingAnswers' \in {pendingAnswers, <<>>} \/ pendingAnswers' = Append(pendingAnswers, a)
      BY DEF Push
    <3>2. activeQuestion \in Questions \cup {Nothing} /\ pendingAnswers \in Seq(Answer) /\ a \in Answer
      BY <1>1, TypeParts DEF TheBus
    <3> HIDE DEF a
    <3>3. Append(pendingAnswers, a) \in Seq(Answer) /\ <<>> \in Seq(Answer)
      BY <3>2
    <3>4. pendingAnswers' \in Seq(Answer)
      BY <3>1, <3>2, <3>3
    <3> QED
      BY <3>1, <3>2, <3>4 DEF TheBus
  <2> QED
    BY <1>1, <2>1, <2>2 DEF Addressed, RequestsStand, Moved
<1>3. RowsStand' /\ OutcomesStand'
  BY <1>1 DEF RowsStand, OutcomesStand
<1>4. QuestionTypeOK'
  BY <1>1, <1>2, TypeParts, TypePartsNext DEF Flags, Told, Moved
<1>5. BusStands' /\ WorkerStands' /\ CancelReleasesRunner'
  <2>1. CASE ~ForThisQuestion(q)
    BY <1>1, <2>1 DEF Push, BusStands, WorkerStands, CancelReleasesRunner
  <2>2. CASE ForThisQuestion(q) /\ worker.pc = "waiting"
    <3>1. /\ worker'.pc = "returning" /\ worker'.result = a /\ worker'.asked = worker.asked
          /\ activeQuestion' = Nothing /\ pendingAnswers' = <<>>
      BY <2>2, TypeParts DEF Push, WorkerType
    <3>2. q = worker.asked
      BY <1>1, <2>2, Words DEF ForThisQuestion, BusStands
    <3> QED
      BY <1>1, <2>2, <3>1, <3>2, Words DEF BusStands, WorkerStands, CancelReleasesRunner
  <2>3. CASE ForThisQuestion(q) /\ worker.pc # "waiting"
    <3>1. UNCHANGED <<worker, activeQuestion>> /\ pendingAnswers' = Append(pendingAnswers, a)
      BY <2>3 DEF Push
    <3>2. activeQuestion = q /\ q # Nothing
      BY <1>1, <2>3, Words DEF ForThisQuestion
    <3>3. ASSUME NEW i \in 1 .. Len(pendingAnswers') PROVE pendingAnswers'[i] = accepted[q]
      <4>1. pendingAnswers \in Seq(Answer) /\ \A j \in 1 .. Len(pendingAnswers) : pendingAnswers[j] = accepted[q]
        BY <3>2, TypeParts DEF TheBus, BusStands
      <4> HIDE DEF q, a
      <4> QED
        BY <1>1, <3>1, <4>1
    <3>4. /\ worker.pc \in {"waiting", "reading", "expiring", "rereading"} /\ worker.asked = q
          /\ activeQuestion' = q /\ worker' = worker /\ q # Nothing
      BY <3>1, <3>2 DEF BusStands
    <3> HIDE DEF q, a
    <3>5. BusStands'
      BY <1>1, <3>3, <3>4 DEF BusStands
    <3> QED
      BY <1>1, <3>4, <3>5 DEF WorkerStands, CancelReleasesRunner
  <2> QED
    BY <2>1, <2>2, <2>3
<1> QED
  BY <1>2, <1>3, <1>4, <1>5

\* The job is stopped, ends, or dies with its process.
LEMMA JobKept ==
  ASSUME IInv, RequestCancel \/ RunEnds \/ ProcessDies
  PROVE  IInv'
<1> USE DEF IInv
<1>1. UNCHANGED <<toolCall, secrets, accepted, outcome>> /\ Flags'
  BY TypeParts, FaultType DEF RequestCancel, RunEnds, ProcessDies, history, Flags
<1>2. RowsStand' /\ OutcomesStand'
  BY <1>1 DEF RowsStand, OutcomesStand
<1>3. CASE RunEnds
  <2>1. UNCHANGED <<stopped, activeQuestion, pendingAnswers, worker, request>>
    BY <1>3 DEF RunEnds
  <2>2. Addressed' /\ BusStands' /\ WorkerStands' /\ RequestsStand' /\ CancelReleasesRunner'
    BY <1>1, <2>1 DEF Addressed, BusStands, WorkerStands, RequestsStand, CancelReleasesRunner
  <2> QED
    BY <1>1, <1>2, <2>1, <2>2, TypeParts, TypePartsNext DEF Told, TheBus
<1>4. ASSUME RequestCancel \/ ProcessDies
      PROVE  /\ TheBus' /\ BusStands' /\ worker' \in WorkerType /\ WorkerStands' /\ CancelReleasesRunner'
             /\ worker'.pc # "idle" => worker'.asked \in Questions
  <2>1. activeQuestion' = Nothing /\ pendingAnswers' = <<>>
    BY <1>4 DEF RequestCancel, ProcessDies
  <2>2. TheBus' /\ BusStands'
    BY <2>1 DEF TheBus, BusStands
  <2>3. /\ worker' \in WorkerType
        /\ \/ worker'.pc = "idle"
           \/ worker' = worker /\ worker.pc # "waiting"
           \/ worker.pc = "waiting" /\ worker'.asked = worker.asked /\ worker'.pc = "returning"
              /\ worker'.result = "cancelled"
    <3>1. CASE RequestCancel
      BY <3>1, Words, TypeParts DEF RequestCancel, WorkerType
    <3>2. CASE ProcessDies
      BY <3>2 DEF ProcessDies, Resting, WorkerType
    <3> QED
      BY <1>4, <3>1, <3>2
  <2> QED
    BY <1>1, <2>2, <2>3, Words DEF WorkerStands, CancelReleasesRunner, Addressed
<1>5. CASE RequestCancel
  <2>1. request' = request
    BY <1>5 DEF RequestCancel
  <2>2. Addressed' /\ RequestsStand'
    BY <1>1, <1>4, <1>5, <2>1 DEF Addressed, RequestsStand
  <2> QED
    BY <1>1, <1>2, <1>4, <1>5, <2>1, <2>2, TypeParts, TypePartsNext DEF Told
<1>6. CASE ProcessDies
  <2>1. request' \in [UserRequest -> RequestType]
    BY <1>6, TypeParts DEF ProcessDies, RequestType
  <2>2. ASSUME NEW r \in UserRequest
        PROVE  \/ request'[r] = request[r]
               \/ /\ request'[r].at = "refused" /\ request[r].at # "none"
                  /\ request'[r].q = request[r].q /\ request'[r].answer = request[r].answer
    BY <1>6, TypeParts DEF ProcessDies, RequestType
  <2>3. Addressed' /\ RequestsStand'
    BY <1>1, <1>4, <1>6, <2>2 DEF Addressed, RequestsStand
  <2> QED
    BY <1>1, <1>2, <1>4, <1>6, <2>1, <2>3, TypeParts, TypePartsNext DEF Told
<1> QED
  BY <1>3, <1>5, <1>6

-----------------------------------------------------------------------------
(* The theorems. *)

LEMMA InvInit == QuestionInit => IInv
<1> SUFFICES ASSUME QuestionInit PROVE IInv
  OBVIOUS
<1>1. QuestionTypeOK
  <2>1. Flags /\ Told
    <3>1. 0 \in 0 .. MaxQuestionFaults
      OBVIOUS
    <3> QED
      BY <3>1 DEF QuestionInit, Flags, Told, NoCall, CallType
  <2>2. TheBus
    BY DEF QuestionInit, TheBus
  <2>3. Resting \in WorkerType /\ NoRequest \in RequestType
    <3>1. 0 \in 0 .. Patience
      OBVIOUS
    <3> QED
      BY <3>1 DEF Resting, WorkerType, NoRequest, RequestType
  <2> QED
    BY <2>1, <2>2, <2>3, TypeParts DEF QuestionInit
<1>2. Addressed /\ RowsStand /\ BusStands /\ WorkerStands
  BY Words DEF QuestionInit, Addressed, RowsStand, BusStands, WorkerStands, NoCall, Resting, NoRequest
<1>3. RequestsStand /\ OutcomesStand /\ CancelReleasesRunner
  BY Words DEF QuestionInit, RequestsStand, OutcomesStand, CancelReleasesRunner, NoRequest
<1> QED
  BY <1>1, <1>2, <1>3 DEF IInv

LEMMA InvStep == IInv /\ [QuestionNext]_questionVars => IInv'
<1> SUFFICES ASSUME IInv, [QuestionNext]_questionVars PROVE IInv'
  OBVIOUS
<1>1. CASE WorkerStep
  BY <1>1, RegisterKept, ExpireKept, ReadsKept, ThrowsKept, ReturnKept DEF WorkerStep
<1>2. ASSUME NEW r \in UserRequest, RequestStep(r) PROVE IInv'
  BY <1>2, LookKept, SaveKept, ClaimKept, PushKept DEF RequestStep
<1>3. CASE RequestCancel \/ RunEnds \/ ProcessDies
  BY <1>3, JobKept
<1>4. CASE UNCHANGED questionVars
  <2>1. UNCHANGED <<toolCall, secrets, jobRunning, residentHere, stopped, activeQuestion, pendingAnswers, worker,
                    request, accepted, outcome, questionFaults>>
    BY <1>4 DEF questionVars, theBus, history
  <2> QED
    BY <2>1 DEF IInv, QuestionTypeOK, Addressed, RowsStand, BusStands, WorkerStands, RequestsStand, OutcomesStand,
       CancelReleasesRunner
<1> QED
  BY <1>1, <1>2, <1>3, <1>4, CreateKept, SubmitKept DEF QuestionNext

\* Every variable keeps its type, for any questions, answers and requests.
THEOREM QuestionTypeCorrect == QuestionSpec => []QuestionTypeOK
<1>1. IInv => QuestionTypeOK
  BY DEF IInv
<1> QED
  BY <1>1, InvInit, InvStep, PTL DEF QuestionSpec

\* The model is told the accepted answer of its question and no other, and is told of a
\* timeout only when no answer was accepted, whatever tabs, retries, a cancel, failing
\* statements and the death of the process do.
THEOREM TheAcceptedIsDelivered == QuestionSpec => []AcceptedIsDelivered
<1>1. IInv => AcceptedIsDelivered
  BY DEF IInv, OutcomesStand, AcceptedIsDelivered
<1> QED
  BY <1>1, InvInit, InvStep, PTL DEF QuestionSpec

\* Whoever was answered OK has named the accepted answer.
THEOREM TheAcknowledgedIsAccepted == QuestionSpec => []AcknowledgedIsAccepted
<1>1. IInv => AcknowledgedIsAccepted
  BY DEF IInv, RequestsStand, AcknowledgedIsAccepted
<1> QED
  BY <1>1, InvInit, InvStep, PTL DEF QuestionSpec

\* The keys the model is told of are stored.
THEOREM TheToldKeysAreStored == QuestionSpec => []ToldKeysAreStored
<1>1. IInv => ToldKeysAreStored
  <2> SUFFICES ASSUME IInv, NEW q \in Secret, outcome[q] \in Answer PROVE q \in secrets
    BY DEF ToldKeysAreStored
  <2>1. accepted[q] # Nothing /\ q \in Questions
    BY Words DEF IInv, OutcomesStand, Questions
  <2> QED
    BY <2>1 DEF IInv, OutcomesStand
<1> QED
  BY <1>1, InvInit, InvStep, PTL DEF QuestionSpec

\* A job that is stopped waits no longer.
THEOREM CancelReleases == QuestionSpec => []CancelReleasesRunner
<1>1. IInv => CancelReleasesRunner
  BY DEF IInv
<1> QED
  BY <1>1, InvInit, InvStep, PTL DEF QuestionSpec

-----------------------------------------------------------------------------
(* The question implements the rendezvous. *)

\* A request that moves on is told something exactly when it gets to its OK.
LEMMA AcknowledgedOnce ==
  ASSUME NEW r \in UserRequest, NEW at, NEW q, NEW a, Moved(r, at, q, a), request[r].at # "ok"
  PROVE  /\ Acknowledgements[r] = Nothing
         /\ at # "ok" => Acknowledgements' = Acknowledgements
         /\ at = "ok" => Acknowledgements' =
                           [Acknowledgements EXCEPT ![r] = [question |-> q, answer |-> a]]
BY DEF Moved, Acknowledgements

\* A request's way to its OK, about the accepted answer, is an acknowledgement.
LEMMA OkIsAcknowledged ==
  ASSUME NEW r \in UserRequest, NEW q \in Questions, Moved(r, "ok", q, accepted[q]),
         request[r].at # "ok", accepted[q] # Nothing, UNCHANGED <<secrets, accepted, outcome>>
  PROVE  Meeting!Next
<1>1. Meeting!Acknowledge(r, q)
  BY AcknowledgedOnce DEF Meeting!Acknowledge
<1> QED
  BY <1>1 DEF Meeting!Next

\* Any other way of it is not seen.
LEMMA MoveIsHidden ==
  ASSUME IInv, NEW r \in UserRequest, request[r].at \notin {"none", "ok"},
         NEW at \in {"saving", "claiming", "pushing", "lost", "refused"}, Move(r, at),
         UNCHANGED <<secrets, accepted, outcome>>
  PROVE  UNCHANGED Meeting!vars
<1>1. Moved(r, at, request[r].q, request[r].answer)
  BY MoveMoves
<1> QED
  BY <1>1, AcknowledgedOnce DEF Meeting!vars

\* The agent tells the model at the end of its pause, and once.
LEMMA WorkerMeets ==
  ASSUME IInv, WorkerStep
  PROVE  [Meeting!Next]_(Meeting!vars)
<1>1. UNCHANGED <<secrets, accepted, request>> /\ Acknowledgements' = Acknowledgements
  BY DEF WorkerStep, RegisterQuestion, RegisterFails, TimerFires, ReadPersisted, Expire, Reread,
         AwaitThrows, Return, ReturnError, UnchangedByWorker, Acknowledgements
<1>2. CASE RegisterQuestion \/ RegisterFails \/ TimerFires \/ ReadPersisted \/ Expire \/ Reread
           \/ AwaitThrows
  BY <1>1, <1>2 DEF RegisterQuestion, RegisterFails, TimerFires, ReadPersisted, Expire, Reread,
                    AwaitThrows, Meeting!vars
<1> DEFINE q == worker.asked
<1>3. CASE Return
  <2>1. /\ q \in Questions /\ outcome[q] = Nothing
        /\ outcome' = [outcome EXCEPT ![q] = worker.result]
        /\ worker.result \in Answer => worker.result = accepted[q] /\ accepted[q] # Nothing
        /\ worker.result = "timedOut" => accepted[q] = Nothing
    BY <1>3, Words DEF Return, IInv, Addressed, WorkerStands
  <2>2. worker.result \in Answer \cup {"cancelled", "timedOut", "error"}
    BY <1>3, TypeParts DEF Return, IInv, WorkerStands, WorkerType, Result, Undelivered
  <2>3. Meeting!Tell(q, worker.result)
    BY <1>1, <2>1 DEF Meeting!Tell
  <2>4. Meeting!Deliver(q) \/ Meeting!Expire(q) \/ Meeting!Withdraw(q)
    BY <2>1, <2>2, <2>3 DEF Meeting!Deliver, Meeting!Expire, Meeting!Withdraw
  <2> QED
    BY <2>1, <2>4 DEF Meeting!Next
<1>4. CASE ReturnError
  <2>1. q \in Questions /\ outcome[q] = Nothing /\ outcome' = [outcome EXCEPT ![q] = "error"]
    BY <1>4 DEF ReturnError, IInv, Addressed, WorkerStands
  <2>2. Meeting!Withdraw(q)
    BY <1>1, <2>1 DEF Meeting!Withdraw, Meeting!Tell
  <2> QED
    BY <2>1, <2>2 DEF Meeting!Next
<1> QED
  BY <1>1, <1>2, <1>3, <1>4 DEF WorkerStep

\* A request stores, has its answer accepted, or is told OK.
LEMMA RequestMeets ==
  ASSUME IInv, NEW r \in UserRequest, RequestStep(r)
  PROVE  [Meeting!Next]_(Meeting!vars)
<1> DEFINE q == request[r].q
<1>1. /\ request[r].at \in {"looking", "saving", "claiming", "lost", "pushing"}
      /\ outcome' = outcome
  BY DEF RequestStep, Look, SaveSecrets, Claim, AfterLostClaim, Push, UnchangedByRequest, history
<1>2. /\ q \in Questions /\ request[r].answer \in Answer /\ request[r].answer # Nothing
      /\ request[r] \in RequestType
  BY <1>1, TypeParts, Words DEF IInv, Addressed
<1>3. CASE Look(r)
  <2>1. UNCHANGED <<secrets, accepted, outcome>>
    BY <1>1, <1>3 DEF Look
  <2>2. CASE Repeated(r) /\ request' = [request EXCEPT ![r].at = "ok", ![r].answer = toolCall[q].output]
    <3>1. toolCall[q].output \in Answer /\ toolCall[q].output = accepted[q]
      BY <1>1, <2>2, RepeatedIsAccepted
    <3>2. Moved(r, "ok", q, accepted[q]) /\ accepted[q] # Nothing
      BY <1>2, <2>2, <3>1, TypeParts, Words DEF IInv, RequestType, Moved
    <3> QED
      BY <1>1, <1>2, <2>1, <3>2, OkIsAcknowledged
  <2>3. CASE \E at \in {"refused", "saving", "claiming"} : Move(r, at)
    BY <1>1, <2>1, <2>3, MoveIsHidden
  <2> QED
    BY <1>3, <2>2, <2>3 DEF Look
<1>4. CASE SaveSecrets(r)
  <2>1. /\ request[r].at = "saving" /\ secrets' = secrets \cup {q} /\ accepted' = accepted
        /\ Move(r, "claiming")
    BY <1>4 DEF SaveSecrets
  <2>2. Acknowledgements' = Acknowledgements
    BY <1>1, <2>1, MoveMoves, AcknowledgedOnce
  <2>3. q \in Secret
    BY <2>1 DEF IInv, RequestsStand
  <2>4. Meeting!Store(q)
    BY <1>1, <2>1, <2>2, <2>3 DEF Meeting!Store
  <2> QED
    BY <1>2, <2>4 DEF Meeting!Next
<1>5. CASE Claim(r)
  <2>1. CASE toolCall[q].status # "RUNNING"
    <3>1. /\ UNCHANGED <<secrets, accepted, outcome>>
          /\ Move(r, "refused") \/ Move(r, "lost")
      BY <1>1, <1>5, <2>1 DEF Claim
    <3> QED
      BY <1>1, <3>1, MoveIsHidden
  <2>2. CASE toolCall[q].status = "RUNNING"
    <3>1. /\ accepted' = [accepted EXCEPT ![q] = request[r].answer] /\ secrets' = secrets
          /\ request[r].at = "claiming"
          /\ Move(r, "pushing") \/ Move(r, "refused")
      BY <1>5, <2>2 DEF Claim
    <3>2. Acknowledgements' = Acknowledgements
      BY <1>1, <3>1, MoveMoves, AcknowledgedOnce
    <3>3. accepted[q] = Nothing /\ (q \in Secret => q \in secrets)
      BY <1>2, <2>2, <3>1 DEF IInv, RowsStand, RequestsStand
    <3>4. outcome[q] \in {Nothing, "error"}
      <4>1. outcome[q] \in Answer \cup {"cancelled", "timedOut", "error", Nothing}
        BY <1>2, TypeParts DEF IInv, Told, Result, Undelivered
      <4>2. outcome[q] \notin Answer /\ outcome[q] \notin {"cancelled", "timedOut"}
        BY <1>2, <2>2, <3>3, Words DEF IInv, OutcomesStand
      <4> QED
        BY <4>1, <4>2
    <3>5. Meeting!Accept(q, request[r].answer)
      BY <1>1, <3>1, <3>2, <3>3, <3>4 DEF Meeting!Accept
    <3> QED
      BY <1>2, <3>5 DEF Meeting!Next
  <2> QED
    BY <2>1, <2>2
<1>6. CASE AfterLostClaim(r)
  <2>1. request[r].at = "lost" /\ UNCHANGED <<secrets, accepted, outcome>> /\ q \notin Secret
    BY <1>1, <1>6 DEF AfterLostClaim, IInv, RequestsStand
  <2>2. CASE Repeated(r) /\ Move(r, "ok")
    <3>1. request[r].answer = accepted[q] /\ Moved(r, "ok", q, request[r].answer)
      BY <1>1, <2>1, <2>2, RepeatedIsAccepted, MoveMoves
    <3> QED
      BY <1>1, <1>2, <2>1, <3>1, OkIsAcknowledged
  <2>3. CASE Move(r, "refused")
    BY <1>1, <2>1, <2>3, MoveIsHidden
  <2> QED
    BY <1>6, <2>2, <2>3 DEF AfterLostClaim
<1>7. CASE Push(r)
  <2>1. /\ request[r].at = "pushing" /\ UNCHANGED <<secrets, accepted, outcome>> /\ Move(r, "ok")
    BY <1>7 DEF Push, history
  <2>2. request[r].answer = accepted[q] /\ Moved(r, "ok", q, request[r].answer)
    BY <1>1, <2>1, MoveMoves DEF IInv, RequestsStand
  <2> QED
    BY <1>1, <1>2, <2>1, <2>2, OkIsAcknowledged
<1> QED
  BY <1>3, <1>4, <1>5, <1>6, <1>7 DEF RequestStep

\* What the job does around it is not seen.
LEMMA JobIsHidden ==
  ASSUME IInv,
         \/ \E q \in Questions : CreateCall(q)
         \/ \E r \in UserRequest, q \in Questions, a \in Answer : Submit(r, q, a)
         \/ RequestCancel \/ RunEnds \/ ProcessDies \/ UNCHANGED questionVars
  PROVE  UNCHANGED Meeting!vars
<1>1. UNCHANGED <<secrets, accepted, outcome>>
  BY DEF CreateCall, Submit, RequestCancel, RunEnds, ProcessDies, questionVars, history,
         UnchangedByWorker, UnchangedByRequest
<1>2. Acknowledgements' = Acknowledgements
  <2>1. ASSUME request' = request PROVE Acknowledgements' = Acknowledgements
    BY <2>1 DEF Acknowledgements
  <2>2. ASSUME NEW r \in UserRequest, NEW q \in Questions, NEW a \in Answer, Submit(r, q, a)
        PROVE  Acknowledgements' = Acknowledgements
    <3>1. Moved(r, "looking", q, a) /\ request[r].at = "none"
      BY <2>2, TypeParts DEF IInv, Submit, Moved, RequestType, Flags
    <3> QED
      BY <3>1, AcknowledgedOnce
  <2>3. ASSUME ProcessDies PROVE Acknowledgements' = Acknowledgements
    <3>1. ASSUME NEW r \in UserRequest
          PROVE  /\ request[r].at = "ok" => request'[r] = request[r]
                 /\ request[r].at # "ok" => request'[r].at # "ok"
      BY <2>3, TypeParts DEF IInv, ProcessDies, RequestType
    <3> QED
      BY <3>1 DEF Acknowledgements
  <2> QED
    BY <2>1, <2>2, <2>3 DEF CreateCall, RequestCancel, RunEnds, questionVars, UnchangedByWorker
<1> QED
  BY <1>1, <1>2 DEF Meeting!vars

\* For any questions, answers and requests, whatever times out, is retried, fails or is
\* cancelled: each step of the question is a step of the rendezvous or is not seen.
THEOREM QuestionImplementsRendezvous == QuestionSpec => RendezvousImplemented
<1>1. QuestionInit => Meeting!Init
  BY DEF QuestionInit, Meeting!Init, Acknowledgements, NoRequest
<1>2. IInv /\ [QuestionNext]_questionVars => [Meeting!Next]_(Meeting!vars)
  BY WorkerMeets, RequestMeets, JobIsHidden DEF QuestionNext
<1> QED
  BY <1>1, <1>2, InvInit, InvStep, PTL DEF QuestionSpec, RendezvousImplemented, Meeting!Spec
-----------------------------------------------------------------------------
(* A pause comes nearer to its end. *)

\* The worker of a pause is at one of its awaits, and may be changed field by field.
LEMMA PauseTypes ==
  ASSUME QuestionTypeOK
  PROVE  /\ worker.rounds \in 0 .. Patience
         /\ worker.pc \in {"idle", "created", "waiting", "reading", "expiring", "rereading",
                           "returning", "failing"}
BY TypeParts DEF WorkerType

\* Where the awaits leave the worker.
LEMMA AtIs ==
  ASSUME QuestionTypeOK, NEW pc, NEW n, At(pc, n)
  PROVE  worker'.pc = pc /\ worker'.rounds = n
<1>1. worker \in WorkerType
  BY TypeParts
<1>2. worker' = [worker EXCEPT !.pc = pc, !.rounds = n]
  BY DEF At
<1> QED
  BY <1>1, <1>2 DEF WorkerType

LEMMA MovesTo ==
  ASSUME QuestionTypeOK, NEW pc, NEW result, worker' = [worker EXCEPT !.pc = pc, !.result = result]
  PROVE  worker'.pc = pc
<1>1. worker \in WorkerType
  BY TypeParts
<1> QED
  BY <1>1 DEF WorkerType

LEMMA QuitsFromTo ==
  ASSUME QuestionTypeOK, NEW active, NEW pending, NEW pc, NEW result,
         QuitFrom(active, pending, pc, result)
  PROVE  worker'.pc = pc
<1>1. worker' = [worker EXCEPT !.pc = pc, !.result = result]
  BY DEF QuitFrom
<1> QED
  BY <1>1, MovesTo

LEMMA QuitsTo ==
  ASSUME QuestionTypeOK, NEW pc, NEW result, Quit(pc, result)
  PROVE  worker'.pc = pc
<1>1. QuitFrom(activeQuestion, pendingAnswers, pc, result)
  BY DEF Quit
<1> QED
  BY <1>1, QuitsFromTo

\* After n waits the loop waits once more, gives up, or has what it waits for.
LEMMA LoopShrinks ==
  ASSUME QuestionTypeOK, NEW n \in 0 .. Patience, NEW active, NEW pending, Loop(n, active, pending)
  PROVE  \/ worker'.pc \in {"returning", "expiring"}
         \/ worker'.pc = "waiting" /\ n < Patience /\ worker'.rounds = n + 1
<1>1. CASE QuitFrom(active, pending, "returning", "cancelled")
  BY <1>1, QuitsFromTo
<1>2. CASE QuitFrom(active, pending, "returning", Head(pending))
  BY <1>2, QuitsFromTo
<1>3. CASE n < Patience /\ At("waiting", n + 1)
  BY <1>3, AtIs
<1>4. CASE At("expiring", n)
  BY <1>4, AtIs
<1> QED
  BY <1>1, <1>2, <1>3, <1>4 DEF Loop

\* Every step of the agent passes an await.
LEMMA WorkerShrinks ==
  ASSUME QuestionTypeOK, WorkerStep
  PROVE  AwaitsLeft' < AwaitsLeft
<1>1. CASE RegisterQuestion
  <2>1. worker.pc = "created" /\ Loop(0, worker.asked, <<>>)
    BY <1>1 DEF RegisterQuestion
  <2> QED
    BY <2>1, LoopShrinks DEF AwaitsLeft
<1>2. CASE ReadPersisted
  <2>1. worker.pc = "reading" /\ worker.rounds \in 0 .. Patience
    BY <1>2, PauseTypes DEF ReadPersisted
  <2>2. CASE Loop(worker.rounds, activeQuestion, pendingAnswers)
    BY <2>1, <2>2, LoopShrinks DEF AwaitsLeft
  <2>3. CASE Quit("returning", toolCall[worker.asked].output)
    <3>1. worker'.pc = "returning"
      BY <2>3, QuitsTo
    <3> QED
      BY <2>1, <3>1 DEF AwaitsLeft
  <2> QED
    BY <1>2, <2>2, <2>3 DEF ReadPersisted
<1>3. CASE TimerFires
  <2>1. worker \in WorkerType /\ worker.pc = "waiting" /\ worker' = [worker EXCEPT !.pc = "reading"]
    BY <1>3, TypeParts DEF TimerFires
  <2>2. worker'.pc = "reading" /\ worker'.rounds = worker.rounds
    BY <2>1 DEF WorkerType
  <2> QED
    BY <2>1, <2>2, PauseTypes DEF AwaitsLeft
<1>4. CASE Expire
  <2>1. CASE Quit("returning", "timedOut")
    BY <1>4, <2>1, QuitsTo DEF Expire, AwaitsLeft
  <2>2. CASE At("rereading", worker.rounds)
    BY <1>4, <2>2, AtIs DEF Expire, AwaitsLeft
  <2> QED
    BY <1>4, <2>1, <2>2 DEF Expire
<1>5. CASE Reread
  <2>1. PICK result : Quit("returning", result)
    BY <1>5 DEF Reread
  <2> QED
    BY <1>5, <2>1, QuitsTo DEF Reread, AwaitsLeft
<1>6. CASE RegisterFails
  <2>1. worker \in WorkerType /\ worker.pc = "created" /\ worker' = [worker EXCEPT !.pc = "failing"]
    BY <1>6, TypeParts DEF RegisterFails
  <2>2. worker'.pc = "failing"
    BY <2>1 DEF WorkerType
  <2> QED
    BY <2>1, <2>2, QuestionAssumption DEF AwaitsLeft
<1>7. CASE AwaitThrows
  <2>1. worker.pc \in {"reading", "expiring", "rereading", "returning"} /\ Quit("failing", Nothing)
    BY <1>7 DEF AwaitThrows
  <2>2. worker'.pc = "failing"
    BY <2>1, QuitsTo
  <2> QED
    BY <2>1, <2>2, PauseTypes, QuestionAssumption DEF AwaitsLeft
<1>8. CASE Return \/ ReturnError
  <2>1. worker'.pc = "idle" /\ worker.pc \in {"returning", "failing"}
    BY <1>8 DEF Return, ReturnError, Resting
  <2> QED
    BY <2>1 DEF AwaitsLeft
<1> QED
  BY <1>1, <1>2, <1>3, <1>4, <1>5, <1>6, <1>7, <1>8 DEF WorkerStep

\* What is done to a pause from outside ends its wait, if anything.
LEMMA OthersShrink ==
  ASSUME QuestionTypeOK, worker.pc # "idle",
         \/ \E q \in Questions : CreateCall(q)
         \/ \E r \in UserRequest : RequestStep(r)
         \/ \E r \in UserRequest, q \in Questions, a \in Answer : Submit(r, q, a)
         \/ RequestCancel \/ RunEnds \/ ProcessDies \/ UNCHANGED questionVars
  PROVE  UNCHANGED worker \/ AwaitsLeft' < AwaitsLeft
<1>1. \/ UNCHANGED worker
      \/ worker' = Resting
      \/ \E a : worker.pc = "waiting" /\ worker' = [worker EXCEPT !.pc = "returning", !.result = a]
  BY DEF CreateCall, RequestStep, Look, SaveSecrets, Claim, AfterLostClaim, Push, Submit,
         RequestCancel, RunEnds, ProcessDies, questionVars
<1>2. CASE worker' = Resting
  BY <1>2, PauseTypes DEF Resting, AwaitsLeft
<1>3. ASSUME NEW a, worker.pc = "waiting", worker' = [worker EXCEPT !.pc = "returning", !.result = a]
      PROVE  AwaitsLeft' < AwaitsLeft
  <2>1. worker'.pc = "returning"
    BY <1>3, MovesTo
  <2> QED
    BY <1>3, <2>1, PauseTypes DEF AwaitsLeft
<1> QED
  BY <1>1, <1>2, <1>3

\* A pause passes at most 7 + 2 * Patience awaits, for any questions, requests and
\* faults: the part of EveryQuestionEnds that does not need fairness.
THEOREM PausesShrink == QuestionSpec => PauseShrinks
<1>1. ASSUME QuestionTypeOK, [QuestionNext]_questionVars, worker.pc # "idle"
      PROVE  UNCHANGED worker \/ AwaitsLeft' < AwaitsLeft
  BY <1>1, WorkerShrinks, OthersShrink DEF QuestionNext
<1>2. QuestionTypeOK /\ [QuestionNext]_questionVars =>
        [worker.pc # "idle" => UNCHANGED worker \/ AwaitsLeft' < AwaitsLeft]_questionVars
  BY <1>1
<1> QED
  BY <1>2, QuestionTypeCorrect, PTL DEF QuestionSpec, PauseShrinks
=============================================================================
