---------------------------- MODULE MCPublishing ----------------------------
(* Publishing, for TLC: the deployments of a project, and the edge's records of
   a site.  EdgeRegistry has the part of the deployments' state it reads, so
   each behaviour follows one of the two, chosen at its start. *)
EXTENDS Deploy, EdgeRegistry

CONSTANTS b1

VARIABLE focus

publishingVars == <<focus, deployVars, edgeVars>>

\* A site that is online, with any domains.
PublishingInit ==
  /\ focus \in {"deploy", "edge"}
  /\ DeployInit /\ EdgeInit
  /\ project.live = b1 /\ ~project.suspended
  /\ focus # "edge" => \A x \in Domain : domain[x].status = "none"

\* A step of the component in focus.
OfDeploy(A) == focus = "deploy" /\ A /\ UNCHANGED <<focus, edgeVars>>
OfEdge(A)   == focus = "edge" /\ A /\ UNCHANGED <<focus, deployVars>>

PublishingNext == OfDeploy(DeployNext) \/ OfEdge(EdgeNext)

\* The fairness of the two, for the steps of the one in focus.
PublishingFairness ==
  /\ WF_publishingVars(OfDeploy(Beside(SweepStep)))
  /\ \A d \in Deployment :
       /\ WF_publishingVars(OfDeploy(Beside(Age(d))))
       /\ WF_publishingVars(OfDeploy(Beside(BuildStep(d))))
  /\ WF_publishingVars(OfEdge(ReconcileStep))
  /\ \A h \in Handler : WF_publishingVars(OfEdge(HandlerStep(h)))

PublishingSpec == PublishingInit /\ [][PublishingNext]_publishingVars /\ PublishingFairness
=============================================================================
