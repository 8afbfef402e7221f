-------------------------- MODULE MCJobLifecycle --------------------------
(* Instances of JobLifecycle for TLC. *)
EXTENDS JobLifecycle

CONSTANTS g1, g2, d1, p1, p2

\* Two generation jobs; a generation and a deploy.
TwoGens   == {g1, g2}
GenDeploy == {g1, d1}

KindOf == [j \in Job |-> IF j = d1 THEN "DEPLOY" ELSE "GENERATION"]
\* g1 has a project to itself; the others share one and exclude each other.
TwoProjects == [j \in Job |-> IF j = g1 THEN p1 ELSE p2]
===========================================================================
