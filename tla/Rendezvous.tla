----------------------------- MODULE Rendezvous -----------------------------
(* What a question promises the agent that asks it and the users who answer it,
   without its row, its bus, its timers and its retries: one answer at most is
   accepted, and what the agent is told and what the users' requests are told
   agree with it for good. *)
CONSTANTS
  Question, Guarded,  \* Guarded: the questions whose answer is a set of keys
  Answer, Request, Nothing

VARIABLES
  stored,       \* the guarded questions whose keys are kept
  accepted,     \* the answer accepted for a question
  told,         \* what the agent was told
  acknowledged  \* what a request was told: a question and its answer

vars == <<stored, accepted, told, acknowledged>>

Init ==
  /\ stored = {}
  /\ accepted = [q \in Question |-> Nothing]
  /\ told = [q \in Question |-> Nothing]
  /\ acknowledged = [r \in Request |-> Nothing]

Store(q) ==
  /\ q \in Guarded
  /\ stored' = stored \cup {q}
  /\ UNCHANGED <<accepted, told, acknowledged>>

\* Keys are kept before they are accepted.  An agent that was told of an error may
\* leave its question open; one that was told anything else does not.
Accept(q, a) ==
  /\ accepted[q] = Nothing /\ told[q] \in {Nothing, "error"}
  /\ q \in Guarded => q \in stored
  /\ accepted' = [accepted EXCEPT ![q] = a]
  /\ UNCHANGED <<stored, told, acknowledged>>

Tell(q, what) ==
  /\ told[q] = Nothing
  /\ told' = [told EXCEPT ![q] = what]
  /\ UNCHANGED <<stored, accepted, acknowledged>>

\* The accepted answer arrives, once.
Deliver(q) == accepted[q] # Nothing /\ Tell(q, accepted[q])

\* Nobody answered in time.
Expire(q) == accepted[q] = Nothing /\ Tell(q, "timedOut")

\* The run is stopped or a statement fails, whether there is an answer or not.
Withdraw(q) == \E why \in {"cancelled", "error"} : Tell(q, why)

\* A request is told OK, about the answer that stands.
Acknowledge(r, q) ==
  /\ acknowledged[r] = Nothing /\ accepted[q] # Nothing
  /\ acknowledged' = [acknowledged EXCEPT ![r] = [question |-> q, answer |-> accepted[q]]]
  /\ UNCHANGED <<stored, accepted, told>>

Next ==
  \E q \in Question :
    \/ Store(q) \/ Deliver(q) \/ Expire(q) \/ Withdraw(q)
    \/ \E a \in Answer : Accept(q, a)
    \/ \E r \in Request : Acknowledge(r, q)

Spec == Init /\ [][Next]_vars
=============================================================================
