------------------------------- MODULE Deploy -------------------------------
(* The published versions of one project: deployments that build, go live, are
   replaced, rolled back to, taken offline and at last swept away, with their
   files on R2 and their server on AWS Lambda.

   The owner's requests (publish, rollback, unpublish) are Serializable
   transactions: one fails whose rows another has written.  They are one step
   each, but for the rollback, whose look at the clock is older than its commit.
   Going live runs at READ COMMITTED, outside of their protection: it reads the
   project in one step and writes in another, what it read being the pointer and
   the fee.  A build and the hourly sweep interleave at every call to the
   database, R2 and AWS.

   The suspension of a site is the registry's subject (EdgeRegistry). *)
EXTENDS Integers, FiniteSets

CONSTANTS
  Deployment,
  NoDeployment,
  MaxStops,        \* bound: how many waiting publishes are stopped
  MaxBlips,        \* bound: R2 calls and updates that fail
  MaxLostCommits,  \* bound: COMMITs of going live whose acknowledgement is lost
  MaxDeaths        \* bound: how often the process dies

ASSUME DeployAssumption ==
  /\ IsFiniteSet(Deployment) /\ NoDeployment \notin Deployment
  /\ {MaxStops, MaxBlips, MaxLostCommits, MaxDeaths} \subseteq Nat

VARIABLES
  siteJob,     \* Job.status of the deployment's job; "ENDED" stands for the terminal ones
  deployment,  \* Deployment rows
  live,        \* Project.liveDeploymentId
  rollback,    \* the target of the rollback whose transaction is open
  fee,         \* Project.publishFeePaidAt, and the ledger's rows of the fee
  site,        \* the deployment's objects under its R2 prefix
  server,      \* its Lambda version, and the alias and URL on it
  build,       \* where runDeployJob stands
  readLive,    \* what the go-live transaction has read: the pointer,
  readPaid,    \* and whether the fee was paid
  sweep,       \* sweepDeployments
  mishaps      \* how much of the bounds is used up; late: a rollback committed after its
               \* window; stranded: deployments whose objects a deletion has left behind

deployVars == <<siteJob, deployment, live, rollback, fee, site, server, build, readLive, readPaid, sweep,
                mishaps>>
reads      == <<readLive, readPaid>>

\* purged: purgedAt is set.  backend: backendUrl is recorded.  aged: the rollback
\* window, or the day a failed build is kept, is over.
NoRow    == [status |-> "NONE", purged |-> FALSE, backend |-> FALSE, aged |-> FALSE]
WentLive == {"READY", "SUPERSEDED"}
Swept    == {"SUPERSEDED", "FAILED"}

\* Stages of a build after which it may still fail.
Building == {"building", "uploaded", "versioned", "aliased", "recorded", "verified", "going"}

IdleSweep == [at |-> "idle", left |-> {}, current |-> NoDeployment, hosted |-> {},
              owed |-> FALSE, keep |-> {}, listed |-> {}]

DeployInit ==
  /\ siteJob = [d \in Deployment |-> "NONE"]
  /\ deployment = [d \in Deployment |-> NoRow]
  /\ live = NoDeployment /\ rollback = NoDeployment
  /\ fee = [paid |-> FALSE, charges |-> 0]
  /\ site = [d \in Deployment |-> "none"]
  /\ server = [d \in Deployment |-> "none"]
  /\ build = [d \in Deployment |-> "none"]
  /\ readLive = [d \in Deployment |-> NoDeployment]
  /\ readPaid = [d \in Deployment |-> FALSE]
  /\ sweep = IdleSweep
  /\ mishaps = [stops |-> 0, blips |-> 0, lost |-> 0, deaths |-> 0, late |-> FALSE,
                stranded |-> {}]

ActiveJobs == {d \in Deployment : siteJob[d] \in {"QUEUED", "RUNNING"}}

\* The rows after d has stopped serving, its window starting now.
Supersede(rows, d) ==
  IF d \in Deployment /\ rows[d].status = "READY"
  THEN [rows EXCEPT ![d].status = "SUPERSEDED", ![d].aged = FALSE] ELSE rows

\* Mutant of Fail: the status of the job is copied.
FailAsJob(d) == [deployment EXCEPT ![d].status = siteJob[d], ![d].aged = FALSE]

Fail(d) == [deployment EXCEPT ![d].status = "FAILED", ![d].aged = FALSE]

\* Mutant of WithinWindow: there is no window.
WithinAnyWindow(d) == TRUE

\* withinRollbackWindow.
WithinWindow(d) == ~deployment[d].aged

\* isRestorable.
Restorable(d) ==
  /\ deployment[d].status \in WentLive /\ ~deployment[d].purged
  /\ deployment[d].status = "READY" \/ WithinWindow(d)

\* A call to R2 or to the database fails, and leaves objects behind for good.
BlipStranding(S) ==
  /\ mishaps.blips < MaxBlips
  /\ mishaps' = [mishaps EXCEPT !.blips = @ + 1, !.stranded = @ \cup S]

Blip == BlipStranding({})

-----------------------------------------------------------------------------
(* The owner. *)

\* requestDeploy: the job and the deployment, unless a job is active.
RequestDeploy(d) ==
  /\ deployment[d] = NoRow /\ ActiveJobs = {}
  /\ siteJob' = [siteJob EXCEPT ![d] = "QUEUED"]
  /\ deployment' = [deployment EXCEPT ![d].status = "IN_FLIGHT"]
  /\ build' = [build EXCEPT ![d] = "queued"]
  /\ UNCHANGED <<live, fee, site, server, reads, sweep, mishaps>>

\* A publish stopped while it waits: its rows end, its payload stays in the
\* runner's list (terminateStrandedJob; JobLifecycle has its statements apart).
StopWaiting(d) ==
  /\ build[d] = "queued" /\ siteJob[d] = "QUEUED"
  /\ mishaps.stops < MaxStops /\ mishaps' = [mishaps EXCEPT !.stops = @ + 1]
  /\ siteJob' = [siteJob EXCEPT ![d] = "ENDED"]
  /\ deployment' = Fail(d)
  /\ UNCHANGED <<live, fee, site, server, build, reads, sweep>>

\* rollbackDeploy: the transaction's checks, by the time there is now,
BeginRollback(d) ==
  /\ rollback = NoDeployment
  /\ ActiveJobs = {} /\ d # live /\ Restorable(d)
  /\ rollback' = d
  /\ UNCHANGED <<siteJob, deployment, live, fee, site, server, build, reads, sweep, mishaps>>

\* and its commit.
CommitRollback ==
  /\ rollback # NoDeployment
  /\ deployment' = [Supersede(deployment, live) EXCEPT ![rollback].status = "READY",
                                                       ![rollback].aged = FALSE]
  /\ live' = rollback /\ rollback' = NoDeployment
  /\ mishaps' = [mishaps EXCEPT !.late = @ \/ ~WithinWindow(rollback)]
  /\ UNCHANGED <<siteJob, fee, site, server, build, reads, sweep>>

\* unpublish, but for a site that is offline already.
Unpublish ==
  /\ ActiveJobs = {} /\ live # NoDeployment
  /\ deployment' = Supersede(deployment, live)
  /\ live' = NoDeployment
  /\ UNCHANGED <<siteJob, fee, site, server, build, reads, sweep, mishaps>>

\* Seven days, or one, go by; no build takes that long.
Age(d) ==
  /\ deployment[d].status \in Swept /\ build[d] = "over" /\ ~deployment[d].aged
  /\ deployment' = [deployment EXCEPT ![d].aged = TRUE]
  /\ UNCHANGED <<siteJob, live, fee, site, server, build, reads, sweep, mishaps>>

-----------------------------------------------------------------------------
(* runDeployJob, for an app with a server. *)

BuildMoves(d, from, to) == build[d] = from /\ build' = [build EXCEPT ![d] = to]

\* The runner takes the payload up, whatever has become of its rows.
StartBuild(d) ==
  /\ BuildMoves(d, "queued", "building")
  /\ siteJob' = [siteJob EXCEPT ![d] = "RUNNING"]
  /\ deployment' = [deployment EXCEPT ![d].status = "IN_FLIGHT"]
  /\ UNCHANGED <<live, fee, site, server, reads, sweep, mishaps>>

\* buildAndUpload.
Upload(d) ==
  /\ BuildMoves(d, "building", "uploaded")
  /\ site' = [site EXCEPT ![d] = "whole"]
  /\ UNCHANGED <<siteJob, deployment, live, fee, server, reads, sweep, mishaps>>

\* publishBackend: a version of the function, then the alias and its URL, which
\* need the version to be there still.
PublishVersion(d) ==
  /\ BuildMoves(d, "uploaded", "versioned")
  /\ server' = [server EXCEPT ![d] = "version"]
  /\ UNCHANGED <<siteJob, deployment, live, fee, site, reads, sweep, mishaps>>

CreateAlias(d) ==
  /\ BuildMoves(d, "versioned", "aliased")
  /\ server[d] = "version"
  /\ server' = [server EXCEPT ![d] = "alias"]
  /\ UNCHANGED <<siteJob, deployment, live, fee, site, reads, sweep, mishaps>>

RecordBackend(d) ==
  /\ BuildMoves(d, "aliased", "recorded")
  /\ deployment' = [deployment EXCEPT ![d].backend = TRUE]
  /\ UNCHANGED <<siteJob, live, fee, site, server, reads, sweep, mishaps>>

\* verifyBackend calls the URL.
VerifyBackend(d) ==
  /\ BuildMoves(d, "recorded", "verified")
  /\ server[d] = "alias"
  /\ UNCHANGED <<siteJob, deployment, live, fee, site, server, reads, sweep, mishaps>>

\* The go-live transaction reads the project.
BeginGoLive(d) ==
  /\ BuildMoves(d, "verified", "going")
  /\ readLive' = [readLive EXCEPT ![d] = live]
  /\ readPaid' = [readPaid EXCEPT ![d] = fee.paid]
  /\ UNCHANGED <<siteJob, deployment, live, fee, site, server, sweep, mishaps>>

\* Mutant of PublishFee: the key names the deployment, not the project.
PublishFeePerDeployment(d) ==
  IF readPaid[d] THEN fee ELSE [paid |-> TRUE, charges |-> fee.charges + 1]

\* chargeFlat under the key publish-fee:<project>, which the ledger has at most once.
PublishFee(d) ==
  IF readPaid[d] THEN fee ELSE [paid |-> TRUE, charges |-> IF fee.charges = 0 THEN 1 ELSE fee.charges]

\* Mutant of GoneLive: the replaced build is not superseded.
GoneLiveBeside(d) == [deployment EXCEPT ![d].status = "READY", ![d].aged = FALSE]

\* The rows after d has gone live in the place of the one it read.
GoneLive(d) ==
  LET before == IF readLive[d] = d THEN deployment ELSE Supersede(deployment, readLive[d])
  IN  [before EXCEPT ![d].status = "READY", ![d].aged = FALSE]

\* Its writes, which the project row's lock makes one step, and the COMMIT, whose
\* acknowledgement may be lost.
CommitGoLive(d) ==
  /\ \/ BuildMoves(d, "going", "live") /\ UNCHANGED mishaps
     \/ /\ BuildMoves(d, "going", "failing")
        /\ mishaps.lost < MaxLostCommits /\ mishaps' = [mishaps EXCEPT !.lost = @ + 1]
  /\ fee' = PublishFee(d)
  /\ deployment' = GoneLive(d)
  /\ live' = d
  /\ UNCHANGED <<siteJob, site, server, reads, sweep>>

\* The job is completed.
FinishBuild(d) ==
  /\ BuildMoves(d, "live", "over")
  /\ siteJob' = [siteJob EXCEPT ![d] = "ENDED"]
  /\ UNCHANGED <<deployment, live, fee, site, server, reads, sweep, mishaps>>

\* A step throws: a build that does not compile, a server that does not answer,
\* a balance too small for the fee.  An upload may be broken off.
BuildFails(d) ==
  /\ build[d] \in Building
  /\ build' = [build EXCEPT ![d] = "failing"]
  /\ \/ UNCHANGED site
     \/ build[d] = "building" /\ site' = [site EXCEPT ![d] = "partial"]
  /\ UNCHANGED <<siteJob, deployment, live, fee, server, reads, sweep, mishaps>>

\* runDeployJob's catch, whose update may fail, and the job's end.
MarkBuildFailed(d) ==
  /\ BuildMoves(d, "failing", "over")
  /\ \/ deployment' = Fail(d) /\ UNCHANGED mishaps
     \/ Blip /\ UNCHANGED deployment
  /\ siteJob' = [siteJob EXCEPT ![d] = "ENDED"]
  /\ UNCHANGED <<live, fee, site, server, reads, sweep>>

\* The process dies: builds, the runner's list and a sweep under way are gone.
Die ==
  /\ mishaps.deaths < MaxDeaths /\ mishaps' = [mishaps EXCEPT !.deaths = @ + 1]
  /\ build' = [d \in Deployment |-> IF build[d] \in {"none", "over"} THEN build[d] ELSE "dead"]
  /\ sweep' = IdleSweep
  /\ UNCHANGED <<siteJob, deployment, live, fee, site, server, reads>>

\* The reaper ends the job of a dead build, and the deployment if it is in flight.
ReapBuild(d) ==
  /\ BuildMoves(d, "dead", "over")
  /\ siteJob' = [siteJob EXCEPT ![d] = "ENDED"]
  /\ deployment' = IF siteJob[d] # "ENDED" /\ deployment[d].status = "IN_FLIGHT"
                   THEN Fail(d) ELSE deployment
  /\ UNCHANGED <<live, fee, site, server, reads, sweep, mishaps>>

BuildStep(d) ==
  \/ StartBuild(d) \/ Upload(d) \/ PublishVersion(d) \/ CreateAlias(d) \/ RecordBackend(d)
  \/ VerifyBackend(d) \/ BeginGoLive(d) \/ CommitGoLive(d) \/ FinishBuild(d)
  \/ BuildFails(d) \/ MarkBuildFailed(d) \/ ReapBuild(d)

-----------------------------------------------------------------------------
(* sweepDeployments and pruneBackend. *)

Candidates ==
  {d \in Deployment : deployment[d].status \in Swept /\ deployment[d].aged /\ ~deployment[d].purged}

StartSweep ==
  /\ sweep.at = "idle" /\ Candidates # {}
  /\ sweep' = [IdleSweep EXCEPT !.at = "claiming", !.left = Candidates,
                                !.hosted = {d \in Candidates : deployment[d].backend}]
  /\ UNCHANGED <<siteJob, deployment, live, fee, site, server, build, reads, mishaps>>

\* Mutant of Claimable: the claim is by id alone.
ClaimableById(d) == TRUE

\* The claim's where clause.
Claimable(d) == ~deployment[d].purged /\ deployment[d].status \in Swept

\* The next candidate is claimed, or somebody was there before.
ClaimPurge(d) ==
  /\ sweep.at = "claiming" /\ d \in sweep.left
  /\ \/ /\ Claimable(d)
        /\ deployment' = [deployment EXCEPT ![d].purged = TRUE]
        /\ sweep' = [sweep EXCEPT !.at = "deleting", !.current = d, !.left = @ \ {d}]
     \/ /\ ~Claimable(d)
        /\ sweep' = [sweep EXCEPT !.left = @ \ {d}]
        /\ UNCHANGED deployment
  /\ UNCHANGED <<siteJob, live, fee, site, server, build, reads, mishaps>>

\* The objects after a deletion that has left some, or all, of them.
HalfDeleted == [site EXCEPT ![sweep.current] = IF @ = "none" THEN @ ELSE "partial"]

\* deleteSitePrefix returns.  It does not look at the errors R2 reports for single
\* objects: those stay, under a row that counts as purged.
DeleteSite ==
  /\ sweep.at = "deleting"
  /\ \/ /\ site' = [site EXCEPT ![sweep.current] = "none"]
        /\ UNCHANGED mishaps
     \/ /\ site' = HalfDeleted
        /\ BlipStranding({sweep.current})
  /\ sweep' = [sweep EXCEPT !.at = "claiming", !.current = NoDeployment,
                           !.owed = @ \/ sweep.current \in sweep.hosted]
  /\ UNCHANGED <<siteJob, deployment, live, fee, server, build, reads>>

\* Mutant of DeleteFails: the row is not handed back.
DeleteFailsKeepingClaim ==
  /\ sweep.at = "deleting"
  /\ site' = HalfDeleted
  /\ Blip
  /\ sweep' = [sweep EXCEPT !.at = "claiming", !.current = NoDeployment]
  /\ UNCHANGED <<siteJob, deployment, live, fee, server, build, reads>>

\* It throws, and the row is handed back, by an update whose own failure is
\* swallowed.
DeleteFails ==
  /\ sweep.at = "deleting"
  /\ site' = HalfDeleted
  /\ \/ /\ deployment' = [deployment EXCEPT ![sweep.current].purged = FALSE]
        /\ Blip
     \/ BlipStranding({sweep.current}) /\ UNCHANGED deployment
  /\ sweep' = [sweep EXCEPT !.at = "claiming", !.current = NoDeployment]
  /\ UNCHANGED <<siteJob, live, fee, server, build, reads>>

\* The rest of the pass: whose servers are kept, what servers there are, and one
\* deletion after the other.
ReadKeep ==
  /\ sweep.at = "claiming" /\ sweep.left = {}
  /\ sweep' = IF sweep.owed
              THEN [IdleSweep EXCEPT !.at = "listing",
                      !.keep = {d \in Deployment : ~deployment[d].purged /\ deployment[d].backend}]
              ELSE IdleSweep
  /\ UNCHANGED <<siteJob, deployment, live, fee, site, server, build, reads, mishaps>>

ListAliases ==
  /\ sweep.at = "listing"
  /\ sweep' = [IdleSweep EXCEPT !.at = "pruning",
                 !.listed = {d \in Deployment : server[d] = "alias"} \ sweep.keep]
  /\ UNCHANGED <<siteJob, deployment, live, fee, site, server, build, reads, mishaps>>

DeleteAlias(d) ==
  /\ sweep.at = "pruning" /\ d \in sweep.listed
  /\ server' = [server EXCEPT ![d] = IF @ = "alias" THEN "version" ELSE @]
  /\ sweep' = [sweep EXCEPT !.listed = @ \ {d}]
  /\ UNCHANGED <<siteJob, deployment, live, fee, site, build, reads, mishaps>>

\* Versions without an alias; AWS refuses to delete one that has got an alias.
DeleteVersions ==
  /\ sweep.at = "pruning" /\ sweep.listed = {}
  /\ server' = [d \in Deployment |-> IF server[d] = "version" THEN "none" ELSE server[d]]
  /\ sweep' = IdleSweep
  /\ UNCHANGED <<siteJob, deployment, live, fee, site, build, reads, mishaps>>

SweepStep ==
  \/ StartSweep \/ (\E d \in Deployment : ClaimPurge(d) \/ DeleteAlias(d))
  \/ DeleteSite \/ DeleteFails \/ ReadKeep \/ ListAliases \/ DeleteVersions

\* What everybody but the rollback does.
OtherStep ==
  \/ \E d \in Deployment : RequestDeploy(d) \/ StopWaiting(d) \/ Age(d) \/ BuildStep(d)
  \/ Unpublish \/ SweepStep \/ Die

\* The rows without the passing of time.
Rows == <<siteJob, live, [d \in Deployment |-> [deployment[d] EXCEPT !.aged = FALSE]]>>

\* An open rollback whose rows are written is a serialization failure.  Postgres is
\* more lenient with a writer that is not Serializable itself (a build, the sweep):
\* it refuses the rollback only if that has written a row the rollback writes too.
Beside(A) == A /\ rollback' = IF Rows' = Rows THEN rollback ELSE NoDeployment

DeployNext ==
  \/ CommitRollback \/ \E d \in Deployment : BeginRollback(d)
  \/ Beside(OtherStep)

DeploySpec == DeployInit /\ [][DeployNext]_deployVars

\* The hourly sweep runs, time passes, builds go on and the reaper is run.
DeployFairness ==
  /\ WF_deployVars(Beside(SweepStep))
  /\ \A d \in Deployment :
       WF_deployVars(Beside(Age(d))) /\ WF_deployVars(Beside(BuildStep(d)))

-----------------------------------------------------------------------------
(* Properties. *)

DeployTypeOK ==
  /\ siteJob \in [Deployment -> {"NONE", "QUEUED", "RUNNING", "ENDED"}]
  /\ deployment \in [Deployment ->
       [status : {"NONE", "IN_FLIGHT", "READY", "SUPERSEDED", "FAILED"},
        purged : BOOLEAN, backend : BOOLEAN, aged : BOOLEAN]]
  /\ {live, rollback} \subseteq Deployment \cup {NoDeployment}
  /\ fee \in [paid : BOOLEAN, charges : Nat]
  /\ site \in [Deployment -> {"none", "partial", "whole"}]
  /\ server \in [Deployment -> {"none", "version", "alias"}]
  /\ build \in [Deployment -> Building \cup {"none", "queued", "live", "failing", "over", "dead"}]
  /\ readLive \in [Deployment -> Deployment \cup {NoDeployment}]
  /\ readPaid \in [Deployment -> BOOLEAN]
  /\ sweep \in [at : {"idle", "claiming", "deleting", "listing", "pruning"},
                left : SUBSET Deployment, current : Deployment \cup {NoDeployment},
                hosted : SUBSET Deployment, owed : BOOLEAN,
                keep : SUBSET Deployment, listed : SUBSET Deployment]
  /\ mishaps \in [stops : 0 .. MaxStops, blips : 0 .. MaxBlips, lost : 0 .. MaxLostCommits,
                  deaths : 0 .. MaxDeaths, late : BOOLEAN,
                  stranded : SUBSET (Deployment \cup {NoDeployment})]

\* A rollback was committed after its window had closed, and a deletion failed: the
\* build, taken offline again, is claimed from an old list in spite of its new
\* window, half deleted, and handed back inside of it.
Torn == mishaps.late /\ mishaps.blips > 0

\* The acknowledgement of its COMMIT was lost, and runDeployJob's catch has marked a
\* build as failed that is live.
Disowned(d) == mishaps.lost > 0 /\ deployment[d].status = "FAILED"

\* What visitors are sent to is marked as serving, and its files are all there
\* (deploySweep.ts:119: "Either way a live site never loses its bytes"), unless it
\* was disowned; nothing else is so marked (worker/index.ts:250: "a READY deployment
\* nothing points at"), unless a publish that was stopped ran all the same, beside
\* the next.
LiveIsWhole ==
  /\ live # NoDeployment =>
       \/ Disowned(live)
       \/ /\ deployment[live].status = "READY" /\ ~deployment[live].purged
          /\ Torn \/ site[live] = "whole"
  /\ mishaps.stops = 0 => \A d \in Deployment : deployment[d].status = "READY" => d = live

\* Whatever a rollback would accept can be served: a build that is being
\* deleted, or was half deleted, can never be put back (deploySweep.ts:43-45).
RestorableIsWhole ==
  Torn \/ \A d \in Deployment : Restorable(d) => site[d] = "whole"

\* The owner pays once, with the first site that goes live, whichever publishes
\* race for it (worker/index.ts:261: "the fee and the site commit together").
FeePaidOnce ==
  /\ fee.charges <= 1 /\ (fee.paid <=> fee.charges = 1)
  /\ (\E d \in Deployment : deployment[d].status \in WentLive) => fee.paid

\* The files of a build nobody can go back to are deleted in the end, though a
\* deletion throws and is taken up again by a later pass (deploySweep.ts:123: "an R2
\* blip should not strand the objects permanently").  Not so if the process dies
\* between the claim and the deletion, or if the build was stranded: the row was not
\* handed back, or R2 refused to delete single objects.
DeadSitesReclaimed ==
  \A d \in Deployment :
    <>[](deployment[d].status \in Swept /\ mishaps.deaths = 0 /\ d \notin mishaps.stranded)
      => <>[](site[d] = "none")

\* A server that is being published is not pruned (deploySweep.ts:133-135: what
\* is kept is "every deployment still holding bytes, which is the live one, the
\* ones inside their rollback window and the ones still being built").
LiveServerIsKept == live # NoDeployment => server[live] = "alias"
=============================================================================
