------------------------------ MODULE MCRequests ------------------------------
(* Two things one server process keeps in memory, for TLC: a question on the bus,
   and the gateway's counters.  They share no state, so each behaviour follows one
   of them, chosen at its start, with the other at rest. *)
EXTENDS Question, Gateway

CONSTANTS k1, k2, c1, c2

VARIABLE focus

requestVars == <<focus, questionVars, gatewayVars>>

\* Two calls with keys of their own; the third has any key.
RequestsInit ==
  /\ focus \in {"question", "gateway"}
  /\ QuestionInit /\ GatewayInit
  /\ call[c1].key = k1 /\ call[c2].key = k2
  /\ focus = "gateway" \/ \A c \in Call \ {c2} : call[c].key = k1

\* A step of the component in focus.
OfQuestion(A) == focus = "question" /\ A /\ UNCHANGED <<focus, gatewayVars>>
OfGateway(A)  == focus = "gateway" /\ A /\ UNCHANGED <<focus, questionVars>>

RequestsNext == OfQuestion(QuestionNext) \/ OfGateway(GatewayNext)

\* The fairness of the two, for the steps of the one in focus.
RequestsFairness ==
  /\ WF_requestVars(OfQuestion(WorkerStep))
  /\ \A r \in UserRequest : WF_requestVars(OfQuestion(RequestStep(r)))
  /\ \A c \in Call : WF_requestVars(OfGateway(CallStep(c)))

RequestsSpec == RequestsInit /\ [][RequestsNext]_requestVars /\ RequestsFairness
=============================================================================
