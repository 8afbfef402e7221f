----------------------------- MODULE WorkerPool -----------------------------
(***************************************************************************)
(* What the in-process runner promises its callers, without its retries,   *)
(* its database and its bookkeeping: a bounded pool that serves a waiting  *)
(* list in order and lets no slot idle while somebody waits.               *)
(***************************************************************************)
EXTENDS Integers, Sequences, FiniteSets

CONSTANTS Job, Slots

VARIABLES
  waiting,  \* jobs waiting, in the order they will be served
  busy,     \* jobs occupying a slot
  open      \* the pool starts jobs

vars == <<waiting, busy, open>>

Init == waiting = <<>> /\ busy = {} /\ open = TRUE

(***************************************************************************)
(* Serve a prefix of the list w next to the jobs in b: those started, and  *)
(* those withdrawn in the meantime.  A closed pool serves nobody, and an   *)
(* open one stops only for want of jobs or of slots.                       *)
(***************************************************************************)
Serve(w, b) ==
  \E k \in 0 .. Len(w) :
    \E started \in SUBSET {w[i] : i \in 1 .. k} :
      /\ started \cap b = {}
      /\ waiting' = SubSeq(w, k + 1, Len(w))
      /\ busy' = b \cup started
      /\ Cardinality(busy') <= Slots
      /\ ~open => k = 0
      /\ open /\ waiting' # <<>> => Cardinality(busy') = Slots
      /\ UNCHANGED open

Submit(j) == j \notin busy /\ Serve(Append(waiting, j), busy)
Release(j) == j \in busy /\ Serve(waiting, busy \ {j})
\* A job that goes back to the end of the list.
Requeue(j) == j \in busy /\ Serve(Append(waiting, j), busy \ {j})

\* The pool closes and hands back whoever was waiting.
Close == open /\ open' = FALSE /\ waiting' = <<>> /\ UNCHANGED busy

\* Its process is replaced.
Reset == waiting' = <<>> /\ busy' = {} /\ open' = TRUE

Next ==
  \/ \E j \in Job : Submit(j) \/ Release(j) \/ Requeue(j)
  \/ Close
  \/ Reset

Spec == Init /\ [][Next]_vars
=============================================================================
