--------------------------- MODULE MCEventStream ---------------------------
(* Instances of EventStream for TLC. *)
EXTENDS EventStream

CONSTANTS a1, a2, none

OneJob  == {a1}
TwoJobs == {a1, a2}

Budget(r, d, e, t, s, l) ==
  [restarts |-> r, drops |-> d, errors |-> e, settles |-> t, stops |-> s, loads |-> l]

\* A behaviour of StreamPage meets two failures of different kinds, or a stop, or an
\* unasked fetch.
Failures == {Budget(1, 1, 0, 0, 0, 0), Budget(1, 0, 0, 1, 0, 0), Budget(0, 1, 1, 0, 0, 0),
             Budget(0, 1, 0, 1, 0, 0), Budget(0, 0, 0, 0, 1, 0), Budget(0, 0, 0, 0, 0, 1)}
OneStop  == {Budget(0, 0, 0, 0, 1, 0)}
=============================================================================
