----------------------------- MODULE DeployProofs -----------------------------
(* Theorems about Deploy that hold for every finite set of deployments and any
   number of stops, failed calls, lost commits and deaths. *)
EXTENDS Deploy, TLAPS

USE DeployAssumption

-----------------------------------------------------------------------------
(* The parts of the inductive invariant. *)

Uploaded == Building \ {"building"}
Ongoing  == Building \cup {"queued", "live", "failing", "dead"}

\* A build under way has a row that says so and, once uploaded, all its files; time
\* passes and the sweep comes only after it.
BuildsStand ==
  \A d \in Deployment :
    /\ build[d] \in Building => deployment[d].status = "IN_FLIGHT"
    /\ build[d] = "queued" => deployment[d].status \in {"IN_FLIGHT", "FAILED"}
    /\ build[d] \in Uploaded => site[d] = "whole"
    /\ build[d] # "over" => ~deployment[d].aged /\ ~deployment[d].purged
    /\ build[d] # "none" => deployment[d].status # "NONE"
    /\ deployment[d].status = "READY" => ~deployment[d].aged

\* The sweep's list names builds that are over; what it deletes is claimed.  Without
\* a late rollback they have been aged all the time.
SweepStands ==
  /\ \A d \in sweep.left : build[d] = "over"
  /\ sweep.at = "deleting" => /\ sweep.current \in Deployment
                              /\ build[sweep.current] = "over"
                              /\ deployment[sweep.current].purged
  /\ ~mishaps.late =>
       /\ \A d \in sweep.left : deployment[d].aged /\ deployment[d].status \in Swept
       /\ sweep.at = "deleting" => /\ deployment[sweep.current].aged
                                   /\ deployment[sweep.current].status \in Swept

\* The target of an open rollback still went live, is not purged, and has its files.
RollbackStands ==
  rollback # NoDeployment =>
    /\ deployment[rollback].status \in WentLive /\ ~deployment[rollback].purged
    /\ Torn \/ site[rollback] = "whole"

\* What a go-live has read of the fee is not undone.
FeeStands == FeePaidOnce /\ \A d \in Deployment : readPaid[d] => fee.paid

IInv ==
  /\ DeployTypeOK /\ FeeStands /\ BuildsStand /\ SweepStands /\ RollbackStands
  /\ RestorableIsWhole

\* What the pointer names once its build was disowned: nothing gives it back a status.
GivenUp(d) == Disowned(d) /\ build[d] = "over"

\* Unless a commit was lost, a failing build did not go live; what is live is READY, or
\* its build was disowned.
LiveStands ==
  /\ mishaps.lost = 0 =>
       \A d \in Deployment : build[d] = "failing" => deployment[d].status = "IN_FLIGHT"
  /\ live # NoDeployment =>
       \/ deployment[live].status = "READY" /\ ~deployment[live].purged
       \/ GivenUp(live)

\* Unless a waiting publish was stopped, jobs are had one at a time, and while there is
\* one nobody else moves the pointer.
OneAtATime ==
  mishaps.stops = 0 =>
    /\ \A d \in Deployment : build[d] \in Ongoing => d \in ActiveJobs
    /\ \A d, e \in ActiveJobs : d = e
    /\ ActiveJobs # {} => rollback = NoDeployment
    /\ \A d \in Deployment : build[d] = "going" => readLive[d] = live
    /\ \A d \in Deployment : deployment[d].status = "READY" => d = live

LiveInv == IInv /\ LiveStands /\ OneAtATime

-----------------------------------------------------------------------------
(* Types, and the fee. *)

RowType   == [status : {"NONE", "IN_FLIGHT", "READY", "SUPERSEDED", "FAILED"},
              purged : BOOLEAN, backend : BOOLEAN, aged : BOOLEAN]
RowsType  == [Deployment -> RowType]
StageType == Building \cup {"none", "queued", "live", "failing", "over", "dead"}

SweepType == [at : {"idle", "claiming", "deleting", "listing", "pruning"},
              left : SUBSET Deployment, current : Deployment \cup {NoDeployment},
              hosted : SUBSET Deployment, owed : BOOLEAN,
              keep : SUBSET Deployment, listed : SUBSET Deployment]
Mishaps   == [stops : 0 .. MaxStops, blips : 0 .. MaxBlips, lost : 0 .. MaxLostCommits,
              deaths : 0 .. MaxDeaths, late : BOOLEAN,
              stranded : SUBSET (Deployment \cup {NoDeployment})]

\* The variables that have few values each.
SmallTypes ==
  /\ siteJob \in [Deployment -> {"NONE", "QUEUED", "RUNNING", "ENDED"}]
  /\ {live, rollback} \subseteq Deployment \cup {NoDeployment}
  /\ fee \in [paid : BOOLEAN, charges : Nat]
  /\ site \in [Deployment -> {"none", "partial", "whole"}]
  /\ server \in [Deployment -> {"none", "version", "alias"}]
  /\ readLive \in [Deployment -> Deployment \cup {NoDeployment}]
  /\ readPaid \in [Deployment -> BOOLEAN]

LEMMA TypeParts ==
  DeployTypeOK <=> /\ SmallTypes /\ deployment \in RowsType /\ build \in [Deployment -> StageType]
                   /\ sweep \in SweepType /\ mishaps \in Mishaps
BY DEF DeployTypeOK, SmallTypes, RowsType, RowType, StageType, SweepType, Mishaps

LEMMA TypePartsNext ==
  DeployTypeOK' <=> (/\ SmallTypes /\ deployment \in RowsType /\ build \in [Deployment -> StageType]
                     /\ sweep \in SweepType /\ mishaps \in Mishaps)'
BY DEF DeployTypeOK, SmallTypes, RowsType, RowType, StageType, SweepType, Mishaps

LEMMA SupersedeType ==
  ASSUME NEW rows \in RowsType, NEW d
  PROVE  Supersede(rows, d) \in RowsType
BY DEF Supersede, RowsType, RowType

\* What becomes of one row.
LEMMA RowTypes ==
  ASSUME NEW rows \in RowsType, NEW d \in Deployment
  PROVE  /\ [rows EXCEPT ![d].status = "IN_FLIGHT"] \in RowsType
         /\ [rows EXCEPT ![d].status = "READY", ![d].aged = FALSE] \in RowsType
         /\ [rows EXCEPT ![d].status = "FAILED", ![d].aged = FALSE] \in RowsType
         /\ [rows EXCEPT ![d].purged = TRUE] \in RowsType
         /\ [rows EXCEPT ![d].purged = FALSE] \in RowsType
         /\ [rows EXCEPT ![d].backend = TRUE] \in RowsType
         /\ [rows EXCEPT ![d].aged = TRUE] \in RowsType
BY DEF RowsType, RowType

LEMMA FailType ==
  ASSUME deployment \in RowsType, NEW d \in Deployment
  PROVE  Fail(d) \in RowsType
BY RowTypes DEF Fail

LEMMA GoneLiveType ==
  ASSUME deployment \in RowsType, NEW d \in Deployment
  PROVE  GoneLive(d) \in RowsType
<1> DEFINE before == IF readLive[d] = d THEN deployment ELSE Supersede(deployment, readLive[d])
<1>1. before \in RowsType
  BY SupersedeType
<1> HIDE DEF before
<1>2. GoneLive(d) = [before EXCEPT ![d].status = "READY", ![d].aged = FALSE]
  BY DEF GoneLive, before
<1>3. [before EXCEPT ![d].status = "READY", ![d].aged = FALSE] \in RowsType
  BY <1>1, RowTypes
<1> QED
  BY <1>2, <1>3

LEMMA StagesAre ==
  {"building", "uploaded", "versioned", "aliased", "recorded", "verified", "going", "live", "failing",
   "over", "dead", "queued"} \subseteq StageType
BY DEF StageType, Building

LEMMA TypeInit == DeployInit => DeployTypeOK /\ FeeStands
BY DEF DeployInit, DeployTypeOK, FeeStands, FeePaidOnce, NoRow, IdleSweep, WentLive

\* A failed call, whether it leaves objects behind or not.
LEMMA BlipTypes ==
  ASSUME mishaps \in Mishaps, NEW S \in SUBSET (Deployment \cup {NoDeployment}), BlipStranding(S)
  PROVE  /\ mishaps' \in Mishaps /\ mishaps'.blips = mishaps.blips + 1 /\ mishaps'.blips > 0
         /\ mishaps'.blips >= mishaps.blips /\ mishaps'.late = mishaps.late
         /\ mishaps'.stops = mishaps.stops /\ mishaps'.lost = mishaps.lost
         /\ mishaps'.deaths = mishaps.deaths
<1> DEFINE left == mishaps.stranded \cup S
           more == mishaps.blips + 1
<1>1. left \in SUBSET (Deployment \cup {NoDeployment})
  BY DEF Mishaps
<1>2. mishaps' = [mishaps EXCEPT !.blips = more, !.stranded = left] /\ mishaps.blips < MaxBlips
  BY DEF BlipStranding
<1>3. more \in 0 .. MaxBlips /\ more > 0 /\ more >= mishaps.blips
  BY <1>2, DeployAssumption DEF Mishaps
<1> HIDE DEF left
<1>4. /\ mishaps' \in Mishaps /\ mishaps'.blips = more /\ mishaps'.late = mishaps.late
      /\ mishaps'.stops = mishaps.stops /\ mishaps'.lost = mishaps.lost
      /\ mishaps'.deaths = mishaps.deaths
  <2> HIDE DEF more
  <2> QED
    BY <1>1, <1>2, <1>3 DEF Mishaps
<1> QED
  BY <1>3, <1>4

LEMMA PlainBlip ==
  ASSUME mishaps \in Mishaps, Blip
  PROVE  /\ mishaps' \in Mishaps /\ mishaps'.blips = mishaps.blips + 1 /\ mishaps'.blips > 0
         /\ mishaps'.blips >= mishaps.blips /\ mishaps'.late = mishaps.late
         /\ mishaps'.stops = mishaps.stops /\ mishaps'.lost = mishaps.lost
         /\ mishaps'.deaths = mishaps.deaths
<1>1. BlipStranding({}) /\ {} \in SUBSET (Deployment \cup {NoDeployment})
  BY DEF Blip
<1> QED
  BY <1>1, BlipTypes

\* What a deletion may do to the bounds.
LEMMA DeletionBlips ==
  ASSUME DeployTypeOK, DeleteSite \/ DeleteFails
  PROVE  /\ DeleteFails => mishaps'.blips > 0
         /\ mishaps' \in Mishaps /\ mishaps'.blips >= mishaps.blips /\ mishaps'.late = mishaps.late
         /\ mishaps'.stops = mishaps.stops /\ mishaps'.lost = mishaps.lost
         /\ mishaps'.deaths = mishaps.deaths
<1>1. mishaps \in Mishaps /\ sweep \in SweepType
  BY TypeParts
<1>2. CASE UNCHANGED mishaps /\ ~DeleteFails
  <2>1. mishaps.blips >= mishaps.blips
    BY <1>1 DEF Mishaps
  <2> QED
    BY <1>1, <1>2, <2>1
<1>3. CASE Blip
  BY <1>1, <1>3, PlainBlip
<1>4. CASE BlipStranding({sweep.current})
  <2>1. {sweep.current} \in SUBSET (Deployment \cup {NoDeployment})
    BY <1>1 DEF SweepType
  <2> DEFINE S == {sweep.current}
  <2>2. BlipStranding(S) /\ S \in SUBSET (Deployment \cup {NoDeployment})
    BY <1>4, <2>1
  <2> HIDE DEF S
  <2> QED
    BY <1>1, <2>2, BlipTypes
<1> QED
  BY <1>2, <1>3, <1>4 DEF DeleteSite, DeleteFails

\* A step of the bounds.
LEMMA MishapTypes ==
  ASSUME mishaps \in Mishaps
  PROVE  /\ Blip => mishaps' \in Mishaps
         /\ mishaps.stops < MaxStops => [mishaps EXCEPT !.stops = @ + 1] \in Mishaps
         /\ mishaps.lost < MaxLostCommits => [mishaps EXCEPT !.lost = @ + 1] \in Mishaps
         /\ mishaps.deaths < MaxDeaths => [mishaps EXCEPT !.deaths = @ + 1] \in Mishaps
         /\ \A l \in BOOLEAN : [mishaps EXCEPT !.late = l] \in Mishaps
<1>1. Blip => mishaps' \in Mishaps
  BY PlainBlip
<1>2. /\ mishaps.stops < MaxStops => mishaps.stops + 1 \in 0 .. MaxStops
      /\ mishaps.lost < MaxLostCommits => mishaps.lost + 1 \in 0 .. MaxLostCommits
      /\ mishaps.deaths < MaxDeaths => mishaps.deaths + 1 \in 0 .. MaxDeaths
  BY DEF Mishaps
<1> QED
  BY <1>1, <1>2 DEF Mishaps

LEMMA OwnerTypes ==
  ASSUME DeployTypeOK, NEW d \in Deployment, rollback' \in {rollback, NoDeployment},
         RequestDeploy(d) \/ StopWaiting(d) \/ Age(d)
  PROVE  DeployTypeOK'
<1> USE TypeParts, TypePartsNext
<1>1. CASE RequestDeploy(d)
  BY <1>1, StagesAre DEF RequestDeploy, SmallTypes, RowsType, RowType, reads
<1>2. CASE StopWaiting(d)
  BY <1>2, FailType, MishapTypes DEF StopWaiting, SmallTypes, reads
<1>3. CASE Age(d)
  BY <1>3 DEF Age, SmallTypes, RowsType, RowType, reads
<1> QED
  BY <1>1, <1>2, <1>3

LEMMA OfflineTypes ==
  ASSUME DeployTypeOK, rollback' \in {rollback, NoDeployment}, Unpublish \/ Die
  PROVE  DeployTypeOK'
<1> USE TypeParts, TypePartsNext
<1>1. CASE Unpublish
  BY <1>1, SupersedeType DEF Unpublish, SmallTypes, reads
<1>2. CASE Die
  <2>1. build' \in [Deployment -> StageType]
    BY <1>2, StagesAre DEF Die
  <2>2. sweep' \in SweepType
    BY <1>2 DEF Die, IdleSweep, SweepType
  <2> QED
    BY <1>2, <2>1, <2>2, MishapTypes DEF Die, SmallTypes, reads
<1> QED
  BY <1>1, <1>2

LEMMA BuildTypes ==
  ASSUME DeployTypeOK, NEW d \in Deployment, rollback' \in {rollback, NoDeployment}, BuildStep(d)
  PROVE  DeployTypeOK'
<1> USE TypeParts, TypePartsNext
<1>1. build' \in [Deployment -> StageType]
  BY StagesAre DEF BuildStep, BuildMoves, StartBuild, Upload, PublishVersion, CreateAlias, RecordBackend,
     VerifyBackend, BeginGoLive, CommitGoLive, FinishBuild, BuildFails, MarkBuildFailed, ReapBuild
<1>2. deployment' \in RowsType
  <2>1. CASE StartBuild(d)
    BY <2>1, RowTypes DEF StartBuild
  <2>2. CASE RecordBackend(d)
    BY <2>2, RowTypes DEF RecordBackend
  <2>3. CASE CommitGoLive(d)
    BY <2>3, GoneLiveType DEF CommitGoLive
  <2>4. CASE MarkBuildFailed(d) \/ ReapBuild(d)
    BY <2>4, FailType DEF MarkBuildFailed, ReapBuild
  <2> QED
    BY <2>1, <2>2, <2>3, <2>4 DEF BuildStep, Upload, PublishVersion, CreateAlias, VerifyBackend,
       BeginGoLive, FinishBuild, BuildFails
<1>3. mishaps' \in Mishaps
  <2>1. CASE CommitGoLive(d)
    BY <2>1, MishapTypes DEF CommitGoLive
  <2>2. CASE MarkBuildFailed(d)
    BY <2>2, MishapTypes DEF MarkBuildFailed
  <2> QED
    BY <2>1, <2>2 DEF BuildStep, StartBuild, Upload, PublishVersion, CreateAlias, RecordBackend,
       VerifyBackend, BeginGoLive, FinishBuild, BuildFails, ReapBuild
<1>4. fee' \in [paid : BOOLEAN, charges : Nat]
  <2>1. CASE CommitGoLive(d)
    <3>1. PublishFee(d) \in [paid : BOOLEAN, charges : Nat]
      BY DEF PublishFee, SmallTypes
    <3> QED
      BY <2>1, <3>1 DEF CommitGoLive
  <2> QED
    BY <2>1 DEF BuildStep, StartBuild, Upload, PublishVersion, CreateAlias, RecordBackend, VerifyBackend,
       BeginGoLive, FinishBuild, BuildFails, MarkBuildFailed, ReapBuild, SmallTypes
<1>5. SmallTypes'
  <2>1. CASE StartBuild(d) \/ FinishBuild(d) \/ MarkBuildFailed(d) \/ ReapBuild(d)
    BY <2>1 DEF StartBuild, FinishBuild, MarkBuildFailed, ReapBuild, SmallTypes, reads
  <2>2. CASE Upload(d) \/ BuildFails(d) \/ PublishVersion(d) \/ CreateAlias(d)
    BY <2>2 DEF Upload, BuildFails, PublishVersion, CreateAlias, SmallTypes, reads
  <2>3. CASE BeginGoLive(d) \/ CommitGoLive(d)
    BY <1>4, <2>3 DEF BeginGoLive, CommitGoLive, SmallTypes, reads
  <2>4. CASE RecordBackend(d) \/ VerifyBackend(d)
    BY <2>4 DEF RecordBackend, VerifyBackend, SmallTypes, reads
  <2> QED
    BY <2>1, <2>2, <2>3, <2>4 DEF BuildStep
<1>6. sweep' = sweep
  BY DEF BuildStep, StartBuild, Upload, PublishVersion, CreateAlias, RecordBackend,
     VerifyBackend, BeginGoLive, CommitGoLive, FinishBuild, BuildFails, MarkBuildFailed, ReapBuild
<1> QED
  BY <1>1, <1>2, <1>3, <1>5, <1>6

LEMMA SweepTypes ==
  ASSUME DeployTypeOK, rollback' \in {rollback, NoDeployment}, SweepStep
  PROVE  DeployTypeOK'
<1> USE TypeParts, TypePartsNext
<1>0. UNCHANGED <<siteJob, live, fee, build, reads>>
  BY DEF SweepStep, StartSweep, ClaimPurge, DeleteSite, DeleteFails, ReadKeep, ListAliases, DeleteAlias,
     DeleteVersions
<1>1. CASE StartSweep
  <2>1. Candidates \subseteq Deployment
    BY DEF Candidates
  <2> QED
    <3>1. sweep' \in SweepType
      BY <1>1, <2>1 DEF StartSweep, SweepType, IdleSweep
    <3> QED
      BY <1>0, <1>1, <3>1 DEF StartSweep, SmallTypes, reads
<1>2. ASSUME NEW d \in Deployment, ClaimPurge(d) PROVE DeployTypeOK'
  <2>1. deployment' \in RowsType
    <3>1. [deployment EXCEPT ![d].purged = TRUE] \in RowsType
      BY RowTypes
    <3> QED
      BY <1>2, <3>1 DEF ClaimPurge
  <2>2. sweep' \in SweepType
    <3> DEFINE rest == sweep.left \ {d}
    <3>1. rest \in SUBSET Deployment
      BY DEF SweepType
    <3>2. \/ sweep' = [sweep EXCEPT !.at = "deleting", !.current = d, !.left = rest]
          \/ sweep' = [sweep EXCEPT !.left = rest]
      BY <1>2 DEF ClaimPurge
    <3> HIDE DEF rest
    <3> QED
      BY <3>1, <3>2 DEF SweepType
  <2> QED
    BY <1>0, <1>2, <2>1, <2>2 DEF ClaimPurge, SmallTypes, reads
<1>3. CASE DeleteSite
  <2>1. site' \in [Deployment -> {"none", "partial", "whole"}]
    BY <1>0, <1>3 DEF DeleteSite, HalfDeleted, SmallTypes
  <2>2. sweep' \in SweepType
    BY <1>0, <1>3 DEF DeleteSite, SweepType
  <2>3. mishaps' \in Mishaps
    BY <1>3, DeletionBlips
  <2>4. UNCHANGED <<siteJob, deployment, live, fee, server, build, reads>>
    BY <1>3 DEF DeleteSite
  <2> QED
    BY <1>0, <2>1, <2>2, <2>3, <2>4 DEF SmallTypes, reads
<1>4. CASE DeleteFails
  <2>1. site' \in [Deployment -> {"none", "partial", "whole"}]
    BY <1>0, <1>4 DEF DeleteFails, HalfDeleted, SmallTypes
  <2>2. sweep' \in SweepType
    BY <1>0, <1>4 DEF DeleteFails, SweepType
  <2>3. deployment' \in RowsType
    <3>1. \/ deployment' = [deployment EXCEPT ![sweep.current].purged = FALSE]
          \/ deployment' = deployment
      BY <1>4 DEF DeleteFails
    <3>2. deployment \in RowsType
      OBVIOUS
    <3>3. ASSUME NEW d \in Deployment
          PROVE  [deployment EXCEPT ![d].purged = FALSE] \in RowsType
      BY <3>2, RowTypes
    <3>4. ASSUME sweep.current \notin Deployment
          PROVE  [deployment EXCEPT ![sweep.current].purged = FALSE] \in RowsType
      BY <3>2, <3>4 DEF RowsType
    <3> QED
      BY <3>1, <3>2, <3>3, <3>4
  <2>4. mishaps' \in Mishaps
    BY <1>4, DeletionBlips
  <2>5. UNCHANGED <<siteJob, live, fee, server, build, reads>>
    BY <1>4 DEF DeleteFails
  <2> QED
    BY <1>0, <2>1, <2>2, <2>3, <2>4, <2>5 DEF SmallTypes, reads
<1>5. CASE ReadKeep \/ ListAliases
  <2> DEFINE kept   == {d \in Deployment : ~deployment[d].purged /\ deployment[d].backend}
             listed == {d \in Deployment : server[d] = "alias"} \ sweep.keep
  <2>0. kept \in SUBSET Deployment /\ listed \in SUBSET Deployment
    OBVIOUS
  <2>1. sweep' \in SweepType
    <3>1. \/ sweep' = [IdleSweep EXCEPT !.at = "listing", !.keep = kept]
          \/ sweep' = [IdleSweep EXCEPT !.at = "pruning", !.listed = listed]
          \/ sweep' = IdleSweep
      <4>1. CASE ReadKeep
        BY <4>1 DEF ReadKeep
      <4>2. CASE ListAliases
        BY <4>2 DEF ListAliases
      <4> QED
        BY <1>5, <4>1, <4>2
    <3> HIDE DEF kept, listed
    <3> QED
      <4>1. [IdleSweep EXCEPT !.at = "listing", !.keep = kept] \in SweepType
        BY <2>0 DEF SweepType, IdleSweep
      <4>2. [IdleSweep EXCEPT !.at = "pruning", !.listed = listed] \in SweepType
        BY <2>0 DEF SweepType, IdleSweep
      <4>3. IdleSweep \in SweepType
        BY DEF SweepType, IdleSweep
      <4> QED
        BY <3>1, <4>1, <4>2, <4>3
  <2> QED
    BY <1>0, <1>5, <2>1 DEF ReadKeep, ListAliases, SmallTypes, reads
<1>6. ASSUME NEW d \in Deployment, DeleteAlias(d) PROVE DeployTypeOK'
  <2>1. server' \in [Deployment -> {"none", "version", "alias"}]
    BY <1>6 DEF DeleteAlias, SmallTypes
  <2> QED
    BY <1>0, <1>6, <2>1 DEF DeleteAlias, SmallTypes, SweepType, reads
<1>7. CASE DeleteVersions
  <2>1. server' \in [Deployment -> {"none", "version", "alias"}]
    BY <1>7 DEF DeleteVersions, SmallTypes
  <2> QED
    BY <1>0, <1>7, <2>1 DEF DeleteVersions, SmallTypes, SweepType, IdleSweep, reads
<1> QED
  BY <1>1, <1>2, <1>3, <1>4, <1>5, <1>6, <1>7 DEF SweepStep

LEMMA TypeStep == DeployTypeOK /\ [DeployNext]_deployVars => DeployTypeOK'
<1> SUFFICES ASSUME DeployTypeOK, [DeployNext]_deployVars PROVE DeployTypeOK'
  OBVIOUS
<1>1. CASE Beside(OtherStep)
  <2>1. OtherStep /\ rollback' \in {rollback, NoDeployment}
    BY <1>1 DEF Beside
  <2>2. ASSUME NEW d \in Deployment, RequestDeploy(d) \/ StopWaiting(d) \/ Age(d) PROVE DeployTypeOK'
    BY <2>1, <2>2, OwnerTypes
  <2>3. ASSUME NEW d \in Deployment, BuildStep(d) PROVE DeployTypeOK'
    BY <2>1, <2>3, BuildTypes
  <2>4. ASSUME Unpublish \/ Die PROVE DeployTypeOK'
    BY <2>1, <2>4, OfflineTypes
  <2>5. CASE SweepStep
    BY <2>1, <2>5, SweepTypes
  <2> QED
    BY <2>1, <2>2, <2>3, <2>4, <2>5 DEF OtherStep
<1>2. ASSUME NEW d \in Deployment, BeginRollback(d) PROVE DeployTypeOK'
  BY <1>2, TypeParts, TypePartsNext DEF BeginRollback, SmallTypes, reads
<1>3. CASE CommitRollback
  <2>1. deployment' \in RowsType
    <3> DEFINE rows == Supersede(deployment, live)
    <3>1. rows \in RowsType
      BY TypeParts, SupersedeType
    <3> HIDE DEF rows
    <3>2. deployment' = [rows EXCEPT ![rollback].status = "READY", ![rollback].aged = FALSE]
      BY <1>3 DEF CommitRollback, rows
    <3>3. rollback \in Deployment
      BY <1>3, TypeParts DEF CommitRollback, SmallTypes
    <3> QED
      BY <3>1, <3>2, <3>3, RowTypes
  <2>2. mishaps' \in Mishaps
    BY <1>3, TypeParts, MishapTypes DEF CommitRollback, WithinWindow, Mishaps
  <2> QED
    BY <1>3, <2>1, <2>2, TypeParts, TypePartsNext DEF CommitRollback, SmallTypes, reads
<1>4. CASE UNCHANGED deployVars
  BY <1>4, TypeParts, TypePartsNext DEF deployVars, SmallTypes, reads
<1> QED
  BY <1>1, <1>2, <1>3, <1>4 DEF DeployNext

\* Every variable keeps its type, for any deployments, stops, faults and deaths.
THEOREM DeployTypeCorrect == DeploySpec => []DeployTypeOK
<1>1. DeployInit => DeployTypeOK
  BY TypeInit
<1> QED
  BY <1>1, TypeStep, PTL DEF DeploySpec

-----------------------------------------------------------------------------
(* How a step of anybody but the rollback moves one deployment. *)

\* Its row is the same, but for the backend; its build goes on, fails, ends or dies.
Stays(e) ==
  /\ deployment'[e].status = deployment[e].status
  /\ deployment'[e].purged = deployment[e].purged
  /\ deployment'[e].aged = deployment[e].aged
  /\ \/ build'[e] = build[e]
     \/ build[e] \in Building /\ build'[e] \in Uploaded \cup {"failing"}
     \/ build[e] \notin {"none", "over"} /\ build'[e] \in {"over", "dead"}

Requested(e) ==
  /\ deployment[e] = NoRow /\ build'[e] = "queued"
  /\ deployment'[e].status = "IN_FLIGHT" /\ ~deployment'[e].purged /\ ~deployment'[e].aged

Started(e) ==
  /\ build[e] = "queued" /\ build'[e] = "building"
  /\ deployment'[e].status = "IN_FLIGHT"
  /\ deployment'[e].purged = deployment[e].purged /\ deployment'[e].aged = deployment[e].aged

\* Stopped while it waits, or failed.
Failed(e) ==
  /\ \/ build[e] = "queued" /\ build'[e] = "queued" /\ mishaps'.stops > 0
     \/ build[e] = "failing" /\ build'[e] = "over"
     \/ build[e] = "dead" /\ build'[e] = "over" /\ deployment[e].status = "IN_FLIGHT"
  /\ deployment'[e].status = "FAILED" /\ ~deployment'[e].aged
  /\ deployment'[e].purged = deployment[e].purged

WentUp(e) ==
  /\ build[e] = "going" /\ live' = e
  /\ build'[e] = "live" \/ (build'[e] = "failing" /\ mishaps'.lost > 0)
  /\ deployment'[e].status = "READY" /\ ~deployment'[e].aged
  /\ deployment'[e].purged = deployment[e].purged

Superseded(e) ==
  /\ deployment[e].status = "READY" /\ build'[e] = build[e] /\ live' # e
  /\ deployment'[e].status = "SUPERSEDED" /\ ~deployment'[e].aged
  /\ deployment'[e].purged = deployment[e].purged

Aged(e) ==
  /\ deployment[e].status \in Swept /\ build[e] = "over" /\ build'[e] = build[e]
  /\ deployment'[e].aged
  /\ deployment'[e].status = deployment[e].status /\ deployment'[e].purged = deployment[e].purged

Claimed(e) ==
  /\ e \in sweep.left /\ Claimable(e) /\ build'[e] = build[e]
  /\ deployment'[e].purged
  /\ deployment'[e].status = deployment[e].status /\ deployment'[e].aged = deployment[e].aged

\* What is being deleted, or has been.
Deleted(e) == sweep.at = "deleting" /\ sweep.current = e /\ sweep'.at = "claiming"

HandedBack(e) ==
  /\ Deleted(e) /\ mishaps'.blips > 0 /\ build'[e] = build[e]
  /\ ~deployment'[e].purged
  /\ deployment'[e].status = deployment[e].status /\ deployment'[e].aged = deployment[e].aged

RowMoves(e) ==
  \/ Stays(e) \/ Requested(e) \/ Started(e) \/ Failed(e) \/ WentUp(e) \/ Superseded(e) \/ Aged(e)
  \/ Claimed(e) \/ HandedBack(e)

SiteMoves(e) ==
  \/ site'[e] = site[e] /\ (build'[e] \in Uploaded => build[e] \in Uploaded)
  \/ build[e] = "building" /\ build'[e] = "uploaded" /\ site'[e] = "whole"
  \/ build[e] = "building" /\ build'[e] = "failing"
  \/ Deleted(e) /\ build'[e] = build[e]

\* The sweep takes up candidates, and deletes what it has claimed.
SweepMoves ==
  /\ \A e \in sweep'.left : e \in sweep.left \/ e \in Candidates
  /\ sweep'.at = "deleting" =>
       \/ Claimed(sweep'.current)
       \/ sweep.at = "deleting" /\ sweep'.current = sweep.current

\* What else the invariant needs of a step.
RestMoves ==
  /\ mishaps'.late = mishaps.late /\ mishaps'.blips >= mishaps.blips
  /\ fee' = fee \/ \E d \in Deployment : fee' = PublishFee(d)
  /\ \A e \in Deployment : readPaid'[e] => readPaid[e] \/ fee.paid
  /\ \A e \in Deployment : WentUp(e) => fee' = PublishFee(e)

Moves ==
  /\ \A e \in Deployment : RowMoves(e) /\ SiteMoves(e)
  /\ SweepMoves /\ RestMoves

LEMMA SupersedeRows ==
  ASSUME NEW rows \in RowsType, NEW d, NEW e \in Deployment
  PROVE  /\ Supersede(rows, d)[e].purged = rows[e].purged
         /\ \/ Supersede(rows, d)[e] = rows[e] /\ (e = d => rows[e].status # "READY")
            \/ /\ e = d /\ rows[e].status = "READY"
               /\ Supersede(rows, d)[e].status = "SUPERSEDED" /\ ~Supersede(rows, d)[e].aged
BY DEF Supersede, RowsType, RowType

LEMMA FailRows ==
  ASSUME deployment \in RowsType, NEW d \in Deployment, NEW e \in Deployment
  PROVE  /\ Fail(d)[e].purged = deployment[e].purged
         /\ e # d => Fail(d)[e] = deployment[e]
         /\ e = d => Fail(d)[e].status = "FAILED" /\ ~Fail(d)[e].aged
BY DEF Fail, RowsType, RowType

\* d is made READY in rows.
LEMMA ReadyRows ==
  ASSUME NEW rows \in RowsType, NEW d \in Deployment, NEW e \in Deployment
  PROVE  LET after == [rows EXCEPT ![d].status = "READY", ![d].aged = FALSE]
         IN  /\ after[e].purged = rows[e].purged
             /\ e # d => after[e] = rows[e]
             /\ e = d => after[e].status = "READY" /\ ~after[e].aged
BY DEF RowsType, RowType

LEMMA GoneLiveRows ==
  ASSUME deployment \in RowsType, NEW d \in Deployment, NEW e \in Deployment
  PROVE  /\ GoneLive(d)[e].purged = deployment[e].purged
         /\ e = d => GoneLive(d)[e].status = "READY" /\ ~GoneLive(d)[e].aged
         /\ e # d => \/ /\ GoneLive(d)[e] = deployment[e]
                        /\ e = readLive[d] => deployment[e].status # "READY"
                     \/ /\ e = readLive[d] /\ deployment[e].status = "READY"
                        /\ GoneLive(d)[e].status = "SUPERSEDED" /\ ~GoneLive(d)[e].aged
<1> DEFINE before == IF readLive[d] = d THEN deployment ELSE Supersede(deployment, readLive[d])
<1>1. before \in RowsType
  BY SupersedeType
<1>2. /\ before[e].purged = deployment[e].purged
      /\ e # d => \/ /\ before[e] = deployment[e]
                     /\ e = readLive[d] => deployment[e].status # "READY"
                  \/ /\ e = readLive[d] /\ deployment[e].status = "READY"
                     /\ before[e].status = "SUPERSEDED" /\ ~before[e].aged
  BY SupersedeRows
<1> DEFINE after == [before EXCEPT ![d].status = "READY", ![d].aged = FALSE]
<1>3. GoneLive(d) = after
  BY DEF GoneLive
<1> HIDE DEF before
<1>4. /\ after[e].purged = before[e].purged
      /\ e # d => after[e] = before[e]
      /\ e = d => after[e].status = "READY" /\ ~after[e].aged
  BY <1>1, ReadyRows
<1> HIDE DEF after
<1> QED
  BY <1>2, <1>3, <1>4

\* What the moves look at, as functions.
LEMMA Shapes ==
  ASSUME DeployTypeOK
  PROVE  /\ deployment \in RowsType /\ build \in [Deployment -> StageType]
         /\ site \in [Deployment -> {"none", "partial", "whole"}]
         /\ sweep \in SweepType /\ mishaps \in Mishaps
         /\ fee \in [paid : BOOLEAN, charges : Nat]
         /\ readPaid \in [Deployment -> BOOLEAN]
         /\ readLive \in [Deployment -> Deployment \cup {NoDeployment}]
         /\ siteJob \in [Deployment -> {"NONE", "QUEUED", "RUNNING", "ENDED"}]
         /\ {live, rollback} \subseteq Deployment \cup {NoDeployment}
BY TypeParts DEF SmallTypes

\* Steps of a build that leave its row alone.
LEMMA QuietMoves ==
  ASSUME DeployTypeOK, BuildsStand, NEW d \in Deployment,
         \/ Upload(d) \/ PublishVersion(d) \/ CreateAlias(d) \/ VerifyBackend(d) \/ BeginGoLive(d)
         \/ FinishBuild(d) \/ BuildFails(d)
  PROVE  Moves
<1> USE Shapes
<1>1. UNCHANGED <<deployment, live, fee, sweep, mishaps>>
  BY DEF Upload, PublishVersion, CreateAlias, VerifyBackend, BeginGoLive, FinishBuild, BuildFails
<1>2. ASSUME NEW e \in Deployment PROVE Stays(e) /\ SiteMoves(e)
  <2>1. CASE Upload(d)
    BY <1>1, <2>1 DEF Upload, BuildMoves, Stays, SiteMoves, Uploaded, Building
  <2>2. CASE PublishVersion(d) \/ CreateAlias(d) \/ VerifyBackend(d) \/ BeginGoLive(d) \/ FinishBuild(d)
    BY <1>1, <2>2 DEF PublishVersion, CreateAlias, VerifyBackend, BeginGoLive, FinishBuild, BuildMoves,
       Stays, SiteMoves, Uploaded, Building
  <2>3. CASE BuildFails(d)
    BY <1>1, <2>3 DEF BuildFails, Stays, SiteMoves, Uploaded, Building
  <2> QED
    BY <2>1, <2>2, <2>3
<1>3. SweepMoves
  BY <1>1 DEF SweepMoves
<1>4. RestMoves
  <2>1. mishaps'.late = mishaps.late /\ mishaps'.blips >= mishaps.blips /\ fee' = fee
    BY <1>1 DEF Mishaps
  <2>2. ASSUME NEW e \in Deployment, readPaid'[e] PROVE readPaid[e] \/ fee.paid
    BY <2>2 DEF Upload, PublishVersion, CreateAlias, VerifyBackend, BeginGoLive, FinishBuild, BuildFails,
       reads
  <2>3. ASSUME NEW e \in Deployment PROVE ~WentUp(e)
    BY <1>1 DEF WentUp, BuildsStand, Building
  <2> QED
    BY <2>1, <2>2, <2>3 DEF RestMoves
<1> QED
  BY <1>2, <1>3, <1>4 DEF Moves, RowMoves

\* Steps that leave the fee, the sweep and the files alone, and move at most
\* one build.
LEMMA RestOf ==
  ASSUME DeployTypeOK, UNCHANGED <<fee, readPaid>>,
         mishaps'.late = mishaps.late, mishaps'.blips >= mishaps.blips,
         \A e \in Deployment : ~WentUp(e)
  PROVE  RestMoves
BY DEF RestMoves

LEMMA OwnerMoves ==
  ASSUME DeployTypeOK, BuildsStand, NEW d \in Deployment,
         RequestDeploy(d) \/ StopWaiting(d) \/ Age(d)
  PROVE  Moves
<1> USE Shapes
<1>1. UNCHANGED <<live, fee, readPaid, site, sweep>>
  BY DEF RequestDeploy, StopWaiting, Age, reads
<1>2. ASSUME NEW e \in Deployment PROVE RowMoves(e) /\ SiteMoves(e)
  <2>1. CASE RequestDeploy(d)
    <3>1. CASE e = d
      BY <2>1, <3>1, <1>1 DEF RequestDeploy, RowMoves, Requested, SiteMoves, NoRow, Uploaded, Building,
         RowsType, RowType
    <3>2. CASE e # d
      BY <2>1, <3>2, <1>1 DEF RequestDeploy, RowMoves, Stays, SiteMoves, RowsType, RowType
    <3> QED
      BY <3>1, <3>2
  <2>2. CASE StopWaiting(d)
    <3>1. mishaps'.stops > 0
      BY <2>2 DEF StopWaiting, Mishaps
    <3> QED
      BY <2>2, <3>1, <1>1, FailRows DEF StopWaiting, RowMoves, Stays, Failed, SiteMoves
  <2>3. CASE Age(d)
    <3>1. CASE e = d
      BY <2>3, <3>1, <1>1 DEF Age, RowMoves, Aged, SiteMoves, RowsType, RowType
    <3>2. CASE e # d
      BY <2>3, <3>2, <1>1 DEF Age, RowMoves, Stays, SiteMoves, RowsType, RowType
    <3> QED
      BY <3>1, <3>2
  <2> QED
    BY <2>1, <2>2, <2>3
<1>3. SweepMoves
  BY <1>1 DEF SweepMoves
<1>4. RestMoves
  <2>1. mishaps'.late = mishaps.late /\ mishaps'.blips >= mishaps.blips
    BY DEF RequestDeploy, StopWaiting, Age, Mishaps
  <2>2. ASSUME NEW e \in Deployment PROVE ~WentUp(e)
    BY DEF RequestDeploy, StopWaiting, Age, WentUp
  <2> QED
    BY <1>1, <2>1, <2>2, RestOf
<1> QED
  BY <1>2, <1>3, <1>4 DEF Moves

LEMMA OfflineMoves ==
  ASSUME DeployTypeOK, BuildsStand, Unpublish \/ Die
  PROVE  Moves
<1> USE Shapes
<1>1. UNCHANGED <<fee, readPaid, site>>
  BY DEF Unpublish, Die, reads
<1>2. ASSUME NEW e \in Deployment PROVE RowMoves(e) /\ SiteMoves(e)
  <2>1. CASE Unpublish
    BY <2>1, <1>1, SupersedeRows DEF Unpublish, RowMoves, Stays, Superseded, SiteMoves
  <2>2. CASE Die
    BY <2>2, <1>1 DEF Die, RowMoves, Stays, SiteMoves, Uploaded, Building
  <2> QED
    BY <2>1, <2>2
<1>3. SweepMoves
  BY DEF SweepMoves, Unpublish, Die, IdleSweep
<1>4. RestMoves
  <2>1. mishaps'.late = mishaps.late /\ mishaps'.blips >= mishaps.blips
    BY DEF Unpublish, Die, Mishaps
  <2>2. ASSUME NEW e \in Deployment PROVE ~WentUp(e)
    BY DEF Unpublish, Die, WentUp, Building
  <2> QED
    BY <1>1, <2>1, <2>2, RestOf
<1> QED
  BY <1>2, <1>3, <1>4 DEF Moves

\* Steps of a build that write its row.
LEMMA BuildRowMoves ==
  ASSUME DeployTypeOK, BuildsStand, NEW d \in Deployment,
         StartBuild(d) \/ RecordBackend(d) \/ MarkBuildFailed(d) \/ ReapBuild(d)
  PROVE  Moves
<1> USE Shapes
<1>1. UNCHANGED <<live, fee, readPaid, site, sweep>>
  BY DEF StartBuild, RecordBackend, MarkBuildFailed, ReapBuild, reads
<1>2. ASSUME NEW e \in Deployment PROVE RowMoves(e) /\ SiteMoves(e)
  <2>1. CASE StartBuild(d)
    <3>1. CASE e = d
      BY <2>1, <3>1, <1>1 DEF StartBuild, BuildMoves, RowMoves, Started, SiteMoves, Uploaded, Building,
         RowsType, RowType
    <3>2. CASE e # d
      BY <2>1, <3>2, <1>1 DEF StartBuild, BuildMoves, RowMoves, Stays, SiteMoves, RowsType, RowType
    <3> QED
      BY <3>1, <3>2
  <2>2. CASE RecordBackend(d)
    BY <2>2, <1>1 DEF RecordBackend, BuildMoves, RowMoves, Stays, SiteMoves, RowsType, RowType, Uploaded,
       Building
  <2>3. CASE MarkBuildFailed(d) \/ ReapBuild(d)
    BY <2>3, <1>1, FailRows DEF MarkBuildFailed, ReapBuild, BuildMoves, RowMoves, Stays, Failed, SiteMoves,
       Uploaded, Building
  <2> QED
    BY <2>1, <2>2, <2>3
<1>3. SweepMoves
  BY <1>1 DEF SweepMoves
<1>4. RestMoves
  <2>1. mishaps'.late = mishaps.late /\ mishaps'.blips >= mishaps.blips
    <3>1. UNCHANGED mishaps \/ Blip
      BY DEF StartBuild, RecordBackend, MarkBuildFailed, ReapBuild
    <3> QED
      BY <3>1, PlainBlip DEF Mishaps
  <2>2. ASSUME NEW e \in Deployment PROVE ~WentUp(e)
    BY DEF StartBuild, RecordBackend, MarkBuildFailed, ReapBuild, BuildMoves, WentUp
  <2> QED
    BY <1>1, <2>1, <2>2, RestOf
<1> QED
  BY <1>2, <1>3, <1>4 DEF Moves

LEMMA GoLiveMoves ==
  ASSUME DeployTypeOK, BuildsStand, NEW d \in Deployment, CommitGoLive(d)
  PROVE  Moves
<1> USE Shapes
<1>1. UNCHANGED <<readPaid, site, sweep>> /\ live' = d /\ deployment' = GoneLive(d) /\ fee' = PublishFee(d)
  BY DEF CommitGoLive, reads
<1>2. /\ mishaps'.late = mishaps.late /\ mishaps'.blips >= mishaps.blips
      /\ build'[d] = "live" \/ (build'[d] = "failing" /\ mishaps'.lost > 0)
      /\ build[d] = "going" /\ \A e \in Deployment \ {d} : build'[e] = build[e]
  BY DEF CommitGoLive, BuildMoves, Mishaps
<1>3. ASSUME NEW e \in Deployment PROVE RowMoves(e) /\ SiteMoves(e)
  <2>1. CASE e = d
    BY <1>1, <1>2, <2>1, GoneLiveRows DEF RowMoves, WentUp, SiteMoves, Uploaded, Building
  <2>2. CASE e # d
    BY <1>1, <1>2, <2>2, GoneLiveRows DEF RowMoves, Stays, Superseded, SiteMoves
  <2> QED
    BY <2>1, <2>2
<1>4. SweepMoves
  BY <1>1 DEF SweepMoves
<1>5. RestMoves
  BY <1>1, <1>2 DEF RestMoves, WentUp
<1> QED
  BY <1>3, <1>4, <1>5 DEF Moves

LEMMA SweepingMoves ==
  ASSUME DeployTypeOK, BuildsStand, SweepStep
  PROVE  Moves
<1> USE Shapes
<1>1. UNCHANGED <<live, fee, readPaid, build>>
  BY DEF SweepStep, StartSweep, ClaimPurge, DeleteSite, DeleteFails, ReadKeep, ListAliases, DeleteAlias,
     DeleteVersions, reads
<1>2. ASSUME NEW d \in Deployment, ClaimPurge(d)
      PROVE  SweepMoves /\ mishaps' = mishaps /\ \A e \in Deployment : RowMoves(e) /\ SiteMoves(e)
  <2>1. CASE Claimable(d)
    <3>1. /\ sweep'.at = "deleting" /\ sweep'.current = d /\ sweep'.left = sweep.left \ {d}
          /\ deployment' = [deployment EXCEPT ![d].purged = TRUE] /\ UNCHANGED <<site, mishaps>>
          /\ d \in sweep.left
      BY <1>2, <2>1 DEF ClaimPurge, SweepType
    <3>2. Claimed(d)
      BY <1>1, <2>1, <3>1 DEF Claimed, RowsType, RowType
    <3>3. ASSUME NEW e \in Deployment \ {d} PROVE Stays(e)
      BY <1>1, <3>1 DEF Stays, RowsType, RowType
    <3> QED
      BY <1>1, <3>1, <3>2, <3>3 DEF SweepMoves, RowMoves, SiteMoves
  <2>2. CASE ~Claimable(d)
    <3>1. /\ sweep'.at = "claiming" /\ sweep'.left = sweep.left \ {d}
          /\ UNCHANGED <<deployment, site, mishaps>>
      BY <1>2, <2>2 DEF ClaimPurge, SweepType
    <3> QED
      BY <1>1, <3>1 DEF SweepMoves, RowMoves, Stays, SiteMoves
  <2> QED
    BY <2>1, <2>2
<1>3. ASSUME DeleteFails PROVE SweepMoves /\ \A e \in Deployment : RowMoves(e) /\ SiteMoves(e)
  <2>1. /\ sweep.at = "deleting" /\ sweep'.at = "claiming" /\ sweep'.left = sweep.left
        /\ \/ deployment' = [deployment EXCEPT ![sweep.current].purged = FALSE]
           \/ UNCHANGED deployment
        /\ site' = HalfDeleted
    BY <1>3 DEF DeleteFails, SweepType
  <2>0. mishaps'.blips > 0
    BY <1>3, DeletionBlips
  <2>2. ASSUME NEW e \in Deployment, e = sweep.current
        PROVE  (HandedBack(e) \/ Stays(e)) /\ SiteMoves(e)
    BY <1>1, <2>0, <2>1, <2>2 DEF HandedBack, Stays, Deleted, SiteMoves, RowsType, RowType
  <2>3. ASSUME NEW e \in Deployment, e # sweep.current PROVE Stays(e) /\ SiteMoves(e)
    BY <1>1, <2>1, <2>3 DEF HalfDeleted, Stays, SiteMoves, RowsType, RowType
  <2> QED
    BY <2>1, <2>2, <2>3 DEF SweepMoves, RowMoves
<1>4. ASSUME DeleteSite PROVE SweepMoves /\ \A e \in Deployment : RowMoves(e) /\ SiteMoves(e)
  <2>1. /\ sweep.at = "deleting" /\ sweep'.at = "claiming" /\ sweep'.left = sweep.left
        /\ UNCHANGED deployment
        /\ site' = [site EXCEPT ![sweep.current] = "none"] \/ site' = HalfDeleted
    BY <1>4 DEF DeleteSite, SweepType
  <2>2. ASSUME NEW e \in Deployment PROVE Stays(e) /\ SiteMoves(e)
    BY <1>1, <2>1 DEF HalfDeleted, Stays, SiteMoves, Deleted
  <2> QED
    BY <2>1, <2>2 DEF SweepMoves, RowMoves
<1>5. ASSUME StartSweep \/ ReadKeep \/ ListAliases \/ DeleteVersions \/ \E d \in Deployment : DeleteAlias(d)
      PROVE  SweepMoves /\ mishaps' = mishaps /\ \A e \in Deployment : RowMoves(e) /\ SiteMoves(e)
  <2>1. UNCHANGED <<deployment, site, mishaps>>
    BY <1>5 DEF StartSweep, ReadKeep, ListAliases, DeleteVersions, DeleteAlias
  <2>2. SweepMoves
    <3>1. CASE StartSweep
      BY <3>1 DEF StartSweep, IdleSweep, SweepMoves
    <3>2. CASE ReadKeep
      BY <3>2 DEF ReadKeep, IdleSweep, SweepMoves, SweepType
    <3>3. CASE ListAliases
      BY <3>3 DEF ListAliases, IdleSweep, SweepMoves, SweepType
    <3>4. CASE DeleteVersions
      BY <3>4 DEF DeleteVersions, IdleSweep, SweepMoves
    <3>5. CASE \E d \in Deployment : DeleteAlias(d)
      BY <3>5 DEF DeleteAlias, SweepMoves, SweepType
    <3> QED
      BY <1>5, <3>1, <3>2, <3>3, <3>4, <3>5
  <2> QED
    BY <1>1, <2>1, <2>2 DEF RowMoves, Stays, SiteMoves
<1>6. ASSUME NEW e \in Deployment PROVE ~WentUp(e)
  BY <1>1 DEF WentUp
<1>7. mishaps'.late = mishaps.late /\ mishaps'.blips >= mishaps.blips
  <2>1. CASE DeleteSite \/ DeleteFails
    BY <2>1, DeletionBlips
  <2>2. CASE ~DeleteSite /\ ~DeleteFails
    <3>1. mishaps' = mishaps
      BY <2>2, <1>5 DEF SweepStep, ClaimPurge, StartSweep, ReadKeep, ListAliases, DeleteVersions, DeleteAlias
    <3> QED
      BY <3>1 DEF Mishaps
  <2> QED
    BY <2>1, <2>2
<1>8. RestMoves
  BY <1>1, <1>6, <1>7, RestOf
<1> QED
  BY <1>2, <1>3, <1>4, <1>5, <1>8 DEF Moves, SweepStep

LEMMA StepMoves ==
  ASSUME DeployTypeOK, BuildsStand, OtherStep
  PROVE  Moves
BY QuietMoves, OwnerMoves, OfflineMoves, BuildRowMoves, GoLiveMoves, SweepingMoves
   DEF OtherStep, BuildStep

-----------------------------------------------------------------------------
(* The invariant survives the steps of anybody but the rollback. *)

LEMMA FeeKept ==
  ASSUME IInv, DeployTypeOK', Moves
  PROVE  FeeStands'
<1> USE Shapes DEF IInv
<1>1. fee'.charges <= 1 /\ (fee'.paid <=> fee'.charges = 1) /\ (fee.paid => fee'.paid)
  BY DEF Moves, RestMoves, PublishFee, FeeStands, FeePaidOnce
<1>2. ASSUME NEW e \in Deployment, deployment'[e].status \in WentLive PROVE fee'.paid
  <2>1. CASE WentUp(e)
    <3>1. fee' = PublishFee(e)
      BY <2>1 DEF Moves, RestMoves
    <3> QED
      BY <3>1 DEF PublishFee, FeeStands
  <2>2. CASE ~WentUp(e)
    <3>1. RowMoves(e)
      BY DEF Moves
    <3>2. deployment[e].status \in WentLive
      BY <1>2, <2>2, <3>1 DEF RowMoves, Stays, Requested, Started, Failed, Superseded, Aged, Claimed,
         HandedBack, WentLive
    <3> QED
      BY <1>1, <3>2 DEF FeeStands, FeePaidOnce
  <2> QED
    BY <2>1, <2>2
<1>3. ASSUME NEW e \in Deployment, readPaid'[e] PROVE fee'.paid
  BY <1>1, <1>3 DEF Moves, RestMoves, FeeStands
<1> QED
  BY <1>1, <1>2, <1>3 DEF FeeStands, FeePaidOnce

LEMMA BuildsKept ==
  ASSUME IInv, DeployTypeOK', Moves
  PROVE  BuildsStand'
<1> USE DEF IInv
<1> SUFFICES ASSUME NEW e \in Deployment
             PROVE  /\ build'[e] \in Building => deployment'[e].status = "IN_FLIGHT"
                    /\ build'[e] = "queued" => deployment'[e].status \in {"IN_FLIGHT", "FAILED"}
                    /\ build'[e] \in Uploaded => site'[e] = "whole"
                    /\ build'[e] # "over" => ~deployment'[e].aged /\ ~deployment'[e].purged
                    /\ build'[e] # "none" => deployment'[e].status # "NONE"
                    /\ deployment'[e].status = "READY" => ~deployment'[e].aged
  BY DEF BuildsStand
<1>1. /\ build[e] \in Building => deployment[e].status = "IN_FLIGHT"
      /\ build[e] = "queued" => deployment[e].status \in {"IN_FLIGHT", "FAILED"}
      /\ build[e] \in Uploaded => site[e] = "whole"
      /\ build[e] # "over" => ~deployment[e].aged /\ ~deployment[e].purged
      /\ build[e] # "none" => deployment[e].status # "NONE"
      /\ deployment[e].status = "READY" => ~deployment[e].aged
  BY DEF BuildsStand
<1>2. RowMoves(e) /\ SiteMoves(e)
  BY DEF Moves
<1>3. e \in sweep.left => build[e] = "over"
  BY DEF SweepStands
<1>4. Deleted(e) => build[e] = "over"
  BY DEF SweepStands, Deleted
<1>5. build'[e] \in Uploaded => site'[e] = "whole"
  BY <1>1, <1>2, <1>4 DEF SiteMoves, Uploaded, Building
<1>6. CASE Stays(e)
  BY <1>1, <1>5, <1>6 DEF Stays, Uploaded, Building
<1>7. CASE Requested(e) \/ Started(e) \/ Failed(e) \/ WentUp(e)
  BY <1>1, <1>5, <1>7 DEF Requested, Started, Failed, WentUp, Building
<1>8. CASE Superseded(e) \/ Aged(e)
  BY <1>1, <1>5, <1>8 DEF Superseded, Aged, Building, Swept
<1>9. CASE Claimed(e) \/ HandedBack(e)
  BY <1>1, <1>3, <1>4, <1>5, <1>9 DEF Claimed, HandedBack, Building
<1> QED
  BY <1>2, <1>6, <1>7, <1>8, <1>9 DEF RowMoves

\* What is to be deleted stays so until it has been dealt with.
LEMMA SweepKept ==
  ASSUME IInv, DeployTypeOK', Moves
  PROVE  SweepStands'
<1> USE DEF IInv
<1>1. mishaps'.late = mishaps.late
  BY DEF Moves, RestMoves
<1>2. ASSUME NEW e \in Deployment, build[e] = "over", deployment[e].status # "NONE"
      PROVE  /\ build'[e] = "over"
             /\ deployment[e].purged /\ ~Deleted(e) => deployment'[e].purged
             /\ deployment[e].aged /\ deployment[e].status \in Swept =>
                  deployment'[e].aged /\ deployment'[e].status \in Swept
  <2>1. RowMoves(e)
    BY DEF Moves
  <2> QED
    BY <1>2, <2>1 DEF RowMoves, Stays, Requested, Started, Failed, WentUp, Superseded, Aged, Claimed,
       HandedBack, NoRow, Swept, Building, Claimable
<1>3. ASSUME NEW e \in sweep'.left
      PROVE  build'[e] = "over" /\ (~mishaps'.late => deployment'[e].aged /\ deployment'[e].status \in Swept)
  <2>0. e \in Deployment
    BY <1>3, TypePartsNext DEF SweepType
  <2>1. CASE e \in sweep.left
    <3>1. build[e] = "over" /\ deployment[e].status # "NONE"
      BY <2>0, <2>1 DEF SweepStands, BuildsStand
    <3> QED
      BY <1>1, <1>2, <2>0, <2>1, <3>1 DEF SweepStands
  <2>2. CASE e \in Candidates
    <3>1. /\ build[e] = "over" /\ deployment[e].status # "NONE"
          /\ deployment[e].aged /\ deployment[e].status \in Swept
      BY <2>0, <2>2 DEF Candidates, BuildsStand, Swept
    <3> QED
      BY <1>2, <2>0, <3>1
  <2> QED
    BY <1>3, <2>1, <2>2 DEF Moves, SweepMoves
<1>4. ASSUME sweep'.at = "deleting"
      PROVE  LET c == sweep'.current
             IN  /\ c \in Deployment /\ build'[c] = "over" /\ deployment'[c].purged
                 /\ ~mishaps'.late => deployment'[c].aged /\ deployment'[c].status \in Swept
  <2> DEFINE c == sweep'.current
  <2>1. Claimed(c) \/ (sweep.at = "deleting" /\ c = sweep.current)
    BY <1>4 DEF Moves, SweepMoves
  <2> HIDE DEF c
  <2>2. CASE Claimed(c)
    <3>1. c \in Deployment /\ build[c] = "over"
      BY <2>2, Shapes DEF Claimed, SweepStands, SweepType
    <3> QED
      BY <1>1, <2>2, <3>1 DEF Claimed, SweepStands, c
  <2>3. CASE sweep.at = "deleting" /\ c = sweep.current
    <3>1. c \in Deployment /\ build[c] = "over" /\ deployment[c].purged /\ ~Deleted(c)
      BY <1>4, <2>3 DEF SweepStands, Deleted
    <3>2. deployment[c].status # "NONE"
      BY <3>1 DEF BuildsStand
    <3> QED
      BY <1>1, <1>2, <2>3, <3>1, <3>2 DEF SweepStands, c
  <2> QED
    BY <2>1, <2>2, <2>3
<1> QED
  BY <1>3, <1>4 DEF SweepStands

LEMMA TornKept ==
  ASSUME IInv, DeployTypeOK', Moves, Torn
  PROVE  Torn'
BY Shapes, TypePartsNext DEF IInv, Moves, RestMoves, Torn, Mishaps

LEMMA RestorableKept ==
  ASSUME IInv, DeployTypeOK', Moves
  PROVE  RestorableIsWhole'
<1> USE DEF IInv
<1> SUFFICES ASSUME ~Torn', NEW e \in Deployment, deployment'[e].status \in WentLive, ~deployment'[e].purged,
                    deployment'[e].status = "READY" \/ ~deployment'[e].aged
             PROVE  site'[e] = "whole"
  BY DEF RestorableIsWhole, Restorable, WithinWindow
<1>1. ~Torn
  BY TornKept
<1>2. RowMoves(e) /\ SiteMoves(e)
  BY DEF Moves
<1>3. ~Deleted(e)
  <2> SUFFICES ASSUME Deleted(e) PROVE FALSE
    OBVIOUS
  <2>1. /\ sweep.at = "deleting" /\ sweep.current = e /\ sweep'.at = "claiming"
        /\ build[e] = "over" /\ deployment[e].purged
    BY DEF Deleted, SweepStands
  <2>2. HandedBack(e)
    <3>1. ~Requested(e)
      BY <2>1 DEF Requested, NoRow
    <3>2. ~(Stays(e) \/ Started(e) \/ Failed(e) \/ WentUp(e) \/ Superseded(e) \/ Aged(e) \/ Claimed(e))
      BY <2>1 DEF Stays, Started, Failed, WentUp, Superseded, Aged, Claimed
    <3> QED
      BY <1>2, <3>1, <3>2 DEF RowMoves
  <2>3. ~mishaps.late
    BY <2>2 DEF HandedBack, Torn, Moves, RestMoves
  <2>4. deployment[e].aged /\ deployment[e].status \in Swept
    BY <2>1, <2>3 DEF SweepStands
  <2> QED
    BY <2>2, <2>4 DEF HandedBack, Swept
<1>4. CASE WentUp(e)
  <2>1. site[e] = "whole"
    BY <1>4 DEF WentUp, BuildsStand, Uploaded, Building
  <2> QED
    BY <1>2, <1>3, <1>4, <2>1 DEF SiteMoves, WentUp
<1>5. CASE ~WentUp(e)
  <2>1. /\ deployment[e].status \in WentLive /\ ~deployment[e].purged
        /\ deployment[e].status = "READY" \/ ~deployment[e].aged
    BY <1>2, <1>3, <1>5 DEF RowMoves, Stays, Requested, Started, Failed, Superseded, Aged, Claimed,
       HandedBack, WentLive, Swept
  <2>2. site[e] = "whole"
    BY <1>1, <2>1 DEF RestorableIsWhole, Restorable, WithinWindow
  <2>3. build[e] # "building"
    BY <2>1 DEF BuildsStand, Building, WentLive
  <2> QED
    BY <1>2, <1>3, <2>2, <2>3 DEF SiteMoves
<1> QED
  BY <1>4, <1>5

LEMMA RollbackKept ==
  ASSUME IInv, DeployTypeOK', Moves, rollback' = IF Rows' = Rows THEN rollback ELSE NoDeployment
  PROVE  RollbackStands'
<1> USE DEF IInv
<1> SUFFICES ASSUME rollback' # NoDeployment
             PROVE  /\ deployment'[rollback'].status \in WentLive /\ ~deployment'[rollback'].purged
                    /\ Torn' \/ site'[rollback'] = "whole"
  BY DEF RollbackStands
<1> DEFINE r == rollback
<1>1. rollback' = r /\ Rows' = Rows /\ r # NoDeployment
  OBVIOUS
<1>2. r \in Deployment
  BY <1>1, Shapes
<1>3. /\ deployment[r].status \in WentLive /\ ~deployment[r].purged
      /\ Torn \/ site[r] = "whole"
  BY <1>1 DEF RollbackStands
<1>4. deployment'[r].status = deployment[r].status /\ deployment'[r].purged = deployment[r].purged
  <2> DEFINE seen     == [d \in Deployment |-> [deployment[d] EXCEPT !.aged = FALSE]]
             seenNext == [d \in Deployment |-> [deployment'[d] EXCEPT !.aged = FALSE]]
  <2>1. seenNext = seen
    BY <1>1 DEF Rows
  <2>2. seenNext[r] = seen[r]
    BY <2>1
  <2>3. [deployment'[r] EXCEPT !.aged = FALSE] = [deployment[r] EXCEPT !.aged = FALSE]
    BY <1>2, <2>2
  <2>4. deployment[r] \in RowType /\ deployment'[r] \in RowType
    BY <1>2, Shapes, TypePartsNext DEF RowsType
  <2> QED
    BY <2>3, <2>4 DEF RowType
<1> HIDE DEF r
<1>5. RowMoves(r) /\ SiteMoves(r)
  BY <1>2 DEF Moves
<1>6. build[r] # "building" /\ ~Deleted(r)
  BY <1>2, <1>3 DEF BuildsStand, Building, WentLive, SweepStands, Deleted
<1> QED
  BY <1>1, <1>3, <1>4, <1>5, <1>6, TornKept DEF SiteMoves

-----------------------------------------------------------------------------
(* And the rollback's, and so every step. *)

LEMMA BeginRollbackKept ==
  ASSUME IInv, DeployTypeOK', NEW d \in Deployment, BeginRollback(d)
  PROVE  IInv'
<1>1. UNCHANGED <<siteJob, deployment, live, fee, site, build, readPaid, sweep, mishaps>> /\ rollback' = d
  BY DEF BeginRollback, reads
<1>2. RollbackStands'
  <2>1. deployment[d].status \in WentLive /\ ~deployment[d].purged /\ (Torn \/ site[d] = "whole")
    BY DEF BeginRollback, Restorable, IInv, RestorableIsWhole, WentLive
  <2> QED
    BY <1>1, <2>1 DEF RollbackStands, Torn
<1>3. FeeStands' /\ BuildsStand' /\ SweepStands'
  BY <1>1 DEF IInv, FeeStands, FeePaidOnce, BuildsStand, SweepStands
<1>4. RestorableIsWhole'
  BY <1>1 DEF IInv, RestorableIsWhole, Restorable, WithinWindow, Torn
<1> QED
  BY <1>2, <1>3, <1>4 DEF IInv

\* The rows after a rollback.
LEMMA RollbackRows ==
  ASSUME DeployTypeOK, CommitRollback, NEW e \in Deployment
  PROVE  /\ rollback \in Deployment /\ live' = rollback
         /\ deployment'[e].purged = deployment[e].purged
         /\ e = rollback => deployment'[e].status = "READY" /\ ~deployment'[e].aged
         /\ e # rollback => \/ /\ deployment'[e] = deployment[e]
                               /\ e = live => deployment[e].status # "READY"
                            \/ /\ e = live /\ deployment[e].status = "READY"
                               /\ deployment'[e].status = "SUPERSEDED" /\ ~deployment'[e].aged
<1> DEFINE before == Supersede(deployment, live)
           after  == [before EXCEPT ![rollback].status = "READY", ![rollback].aged = FALSE]
<1>1. rollback \in Deployment /\ live' = rollback /\ deployment' = after
  BY Shapes DEF CommitRollback
<1>2. before \in RowsType
  BY Shapes, SupersedeType
<1>3. /\ before[e].purged = deployment[e].purged
      /\ \/ before[e] = deployment[e] /\ (e = live => deployment[e].status # "READY")
         \/ /\ e = live /\ deployment[e].status = "READY"
            /\ before[e].status = "SUPERSEDED" /\ ~before[e].aged
  BY Shapes, SupersedeRows
<1> HIDE DEF before
<1>4. /\ after[e].purged = before[e].purged
      /\ e # rollback => after[e] = before[e]
      /\ e = rollback => after[e].status = "READY" /\ ~after[e].aged
  BY <1>1, <1>2, ReadyRows
<1> HIDE DEF after
<1> QED
  BY <1>1, <1>3, <1>4

LEMMA CommitRollbackKept ==
  ASSUME IInv, DeployTypeOK', CommitRollback
  PROVE  IInv'
<1> USE DEF IInv
<1>1. /\ UNCHANGED <<siteJob, fee, site, build, readPaid, sweep>>
      /\ rollback \in Deployment /\ rollback' = NoDeployment
      /\ deployment[rollback].status \in WentLive /\ ~deployment[rollback].purged
      /\ Torn \/ site[rollback] = "whole"
      /\ mishaps'.blips = mishaps.blips
      /\ mishaps'.late = (mishaps.late \/ deployment[rollback].aged)
  <2>1. mishaps'.blips = mishaps.blips /\ mishaps'.late = (mishaps.late \/ deployment[rollback].aged)
    BY Shapes DEF CommitRollback, WithinWindow, Mishaps
  <2> QED
    BY <2>1, Shapes DEF CommitRollback, reads, RollbackStands
<1>2. Torn => Torn'
  BY <1>1 DEF Torn
<1>3. FeeStands'
  <2>1. fee.paid
    BY <1>1 DEF FeeStands, FeePaidOnce
  <2> QED
    BY <1>1, <2>1 DEF FeeStands, FeePaidOnce
<1>4. BuildsStand'
  <2> SUFFICES ASSUME NEW e \in Deployment
               PROVE  /\ build[e] \in Building => deployment'[e].status = "IN_FLIGHT"
                      /\ build[e] = "queued" => deployment'[e].status \in {"IN_FLIGHT", "FAILED"}
                      /\ build[e] \in Uploaded => site[e] = "whole"
                      /\ build[e] # "over" => ~deployment'[e].aged /\ ~deployment'[e].purged
                      /\ build[e] # "none" => deployment'[e].status # "NONE"
                      /\ deployment'[e].status = "READY" => ~deployment'[e].aged
    BY <1>1 DEF BuildsStand
  <2> QED
    BY <1>1, RollbackRows DEF BuildsStand, WentLive, Building
<1>5. SweepStands'
  <2>1. ASSUME NEW e \in Deployment, ~mishaps'.late, deployment[e].aged, deployment[e].status \in Swept
        PROVE  deployment'[e].aged /\ deployment'[e].status \in Swept
    BY <1>1, <2>1, RollbackRows DEF Swept
  <2>2. \A e \in sweep.left : e \in Deployment
    BY Shapes DEF SweepType
  <2>3. sweep.at = "deleting" => deployment'[sweep.current].purged
    BY RollbackRows DEF SweepStands
  <2>4. ~mishaps'.late => ~mishaps.late
    BY <1>1
  <2> QED
    BY <1>1, <2>1, <2>2, <2>3, <2>4 DEF SweepStands
<1>6. RollbackStands'
  BY <1>1 DEF RollbackStands
<1>7. RestorableIsWhole'
  <2> SUFFICES ASSUME ~Torn', NEW e \in Deployment, Restorable(e)' PROVE site[e] = "whole"
    BY <1>1 DEF RestorableIsWhole
  <2>1. CASE e = rollback
    BY <1>1, <1>2, <2>1
  <2>2. CASE e # rollback
    <3>1. Restorable(e)
      BY <2>2, RollbackRows DEF Restorable, WithinWindow, WentLive
    <3> QED
      BY <1>2, <3>1 DEF RestorableIsWhole
  <2> QED
    BY <2>1, <2>2
<1> QED
  BY <1>3, <1>4, <1>5, <1>6, <1>7

LEMMA InvStep == IInv /\ [DeployNext]_deployVars => IInv'
<1> SUFFICES ASSUME IInv, [DeployNext]_deployVars PROVE IInv'
  OBVIOUS
<1>1. DeployTypeOK'
  BY TypeStep DEF IInv
<1>2. CASE Beside(OtherStep)
  <2>1. Moves
    BY <1>2, StepMoves DEF Beside, IInv
  <2>2. rollback' = IF Rows' = Rows THEN rollback ELSE NoDeployment
    BY <1>2 DEF Beside
  <2> QED
    BY <1>1, <2>1, <2>2, FeeKept, BuildsKept, SweepKept, RestorableKept, RollbackKept DEF IInv
<1>3. CASE CommitRollback
  BY <1>1, <1>3, CommitRollbackKept
<1>4. CASE \E d \in Deployment : BeginRollback(d)
  BY <1>1, <1>4, BeginRollbackKept
<1>5. CASE UNCHANGED deployVars
  BY <1>1, <1>5 DEF IInv, deployVars, reads, FeeStands, FeePaidOnce, BuildsStand, SweepStands, RollbackStands,
     RestorableIsWhole, Restorable, WithinWindow, Torn
<1> QED
  BY <1>2, <1>3, <1>4, <1>5 DEF DeployNext

LEMMA InvInit == DeployInit => IInv
<1> SUFFICES ASSUME DeployInit PROVE IInv
  OBVIOUS
<1>1. BuildsStand /\ SweepStands /\ RollbackStands /\ RestorableIsWhole
  BY DEF DeployInit, BuildsStand, SweepStands, RollbackStands, RestorableIsWhole, Restorable, NoRow,
     IdleSweep, Building, Uploaded, WentLive
<1> QED
  BY <1>1, TypeInit DEF IInv

\* The publish fee is charged at most once, and before anything goes live, for any
\* number of publishes that race for it and whatever acknowledgements are lost.
THEOREM FeeIsPaidOnce == DeploySpec => []FeePaidOnce
<1>1. IInv => FeePaidOnce
  BY DEF IInv, FeeStands
<1> QED
  BY <1>1, InvInit, InvStep, PTL DEF DeploySpec

\* The builds a rollback would accept have all their files, unless a deletion failed
\* after a rollback that was committed too late.
THEOREM RestorableStaysWhole == DeploySpec => []RestorableIsWhole
<1>1. IInv => RestorableIsWhole
  BY DEF IInv
<1> QED
  BY <1>1, InvInit, InvStep, PTL DEF DeploySpec

-----------------------------------------------------------------------------
(* What is live: the jobs and the pointer. *)

\* A job becomes active when there is none, and is active while its build is under way.
JobMoves ==
  /\ \/ ActiveJobs' \subseteq ActiveJobs \cup {e \in Deployment : build[e] = "queued"}
     \/ ActiveJobs = {} /\ siteJob' # siteJob /\ \E d \in Deployment : ActiveJobs' = {d}
  /\ \A e \in Deployment :
       /\ \/ siteJob'[e] = siteJob[e] \/ siteJob'[e] \in {"QUEUED", "RUNNING"}
          \/ build'[e] = "over" \/ mishaps'.stops > 0
       /\ build'[e] = "queued" => build[e] = "queued" \/ siteJob'[e] = "QUEUED"
  /\ mishaps'.stops >= mishaps.stops /\ mishaps'.lost >= mishaps.lost

\* The pointer goes to a build that goes live, or is taken away while there is no job;
\* what it is taken from is superseded.
PointerMoves ==
  /\ \/ live' = live
     \/ \E d \in Deployment :
          WentUp(d) /\ \A e \in Deployment \ {d} : e = readLive[d] => deployment'[e].status # "READY"
     \/ ActiveJobs = {} /\ live' = NoDeployment /\ deployment'[live].status # "READY"
  /\ \A e \in Deployment : build'[e] = "going" =>
       \/ build[e] = "going" /\ readLive'[e] = readLive[e]
       \/ readLive'[e] = live /\ live' = live

LEMMA QuietJobs ==
  ASSUME DeployTypeOK, NEW d \in Deployment,
         \/ Upload(d) \/ PublishVersion(d) \/ CreateAlias(d) \/ VerifyBackend(d) \/ BeginGoLive(d)
         \/ RecordBackend(d) \/ BuildFails(d) \/ Age(d)
  PROVE  JobMoves /\ PointerMoves
<1> USE Shapes
<1>1. UNCHANGED <<siteJob, live, mishaps>>
  BY DEF Upload, PublishVersion, CreateAlias, VerifyBackend, BeginGoLive, RecordBackend, BuildFails, Age
<1>2. ASSUME NEW e \in Deployment
      PROVE  /\ build'[e] = "queued" => build[e] = "queued"
             /\ build'[e] = "going" => \/ build[e] = "going" /\ readLive'[e] = readLive[e]
                                       \/ readLive'[e] = live
  <2>1. CASE BeginGoLive(d)
    BY <2>1 DEF BeginGoLive, BuildMoves
  <2>2. CASE ~BeginGoLive(d)
    BY <2>2 DEF Upload, PublishVersion, CreateAlias, VerifyBackend, RecordBackend, BuildFails, Age,
       BuildMoves, reads
  <2> QED
    BY <2>1, <2>2
<1> QED
  BY <1>1, <1>2 DEF JobMoves, PointerMoves, ActiveJobs, Mishaps

LEMMA EndingJobs ==
  ASSUME DeployTypeOK, NEW d \in Deployment,
         \/ FinishBuild(d) \/ MarkBuildFailed(d) \/ ReapBuild(d) \/ StopWaiting(d)
  PROVE  JobMoves /\ PointerMoves
<1> USE Shapes
<1>1. UNCHANGED <<live, readLive>> /\ siteJob' = [siteJob EXCEPT ![d] = "ENDED"]
  BY DEF FinishBuild, MarkBuildFailed, ReapBuild, StopWaiting, reads
<1>2. /\ mishaps'.stops >= mishaps.stops /\ mishaps'.lost >= mishaps.lost
      /\ build'[d] = "over" \/ mishaps'.stops > 0
      /\ \A e \in Deployment : build'[e] \in {build[e], "over"}
  <2>1. \/ UNCHANGED mishaps \/ Blip
        \/ mishaps' = [mishaps EXCEPT !.stops = @ + 1] /\ StopWaiting(d)
    BY DEF FinishBuild, MarkBuildFailed, ReapBuild, StopWaiting
  <2>2. /\ mishaps'.stops >= mishaps.stops /\ mishaps'.lost >= mishaps.lost
        /\ StopWaiting(d) => mishaps'.stops > 0
    BY <2>1, PlainBlip DEF Mishaps, StopWaiting
  <2> QED
    BY <2>2 DEF FinishBuild, MarkBuildFailed, ReapBuild, StopWaiting, BuildMoves
<1> QED
  BY <1>1, <1>2 DEF JobMoves, PointerMoves, ActiveJobs

LEMMA StartingJobs ==
  ASSUME DeployTypeOK, NEW d \in Deployment, RequestDeploy(d) \/ StartBuild(d)
  PROVE  JobMoves /\ PointerMoves
<1> USE Shapes
<1>1. UNCHANGED <<live, readLive, mishaps>>
  BY DEF RequestDeploy, StartBuild, reads
<1>2. CASE RequestDeploy(d)
  <2>1. ActiveJobs = {} /\ siteJob' = [siteJob EXCEPT ![d] = "QUEUED"] /\ build' = [build EXCEPT ![d] = "queued"]
    BY <1>2 DEF RequestDeploy
  <2>2. ActiveJobs' = {d} /\ siteJob' # siteJob
    BY <2>1 DEF ActiveJobs
  <2> QED
    BY <1>1, <2>1, <2>2 DEF JobMoves, PointerMoves, Mishaps
<1>3. CASE StartBuild(d)
  BY <1>1, <1>3 DEF StartBuild, BuildMoves, JobMoves, PointerMoves, ActiveJobs, Mishaps
<1> QED
  BY <1>2, <1>3

LEMMA GoLiveJobs ==
  ASSUME DeployTypeOK, BuildsStand, NEW d \in Deployment, CommitGoLive(d)
  PROVE  JobMoves /\ PointerMoves
<1> USE Shapes
<1>1. /\ UNCHANGED <<siteJob, readLive>> /\ live' = d /\ deployment' = GoneLive(d)
      /\ build'[d] = "live" \/ (build'[d] = "failing" /\ mishaps'.lost > 0)
      /\ build[d] = "going" /\ \A e \in Deployment \ {d} : build'[e] = build[e]
      /\ mishaps'.stops >= mishaps.stops /\ mishaps'.lost >= mishaps.lost
  BY DEF CommitGoLive, BuildMoves, reads, Mishaps
<1>2. WentUp(d)
  BY <1>1, GoneLiveRows DEF WentUp
<1>3. \A e \in Deployment \ {d} : e = readLive[d] => deployment'[e].status # "READY"
  BY <1>1, GoneLiveRows
<1> QED
  BY <1>1, <1>2, <1>3 DEF JobMoves, PointerMoves, ActiveJobs

LEMMA OtherJobs ==
  ASSUME DeployTypeOK, Unpublish \/ Die \/ SweepStep
  PROVE  JobMoves /\ PointerMoves
<1> USE Shapes
<1>1. UNCHANGED <<siteJob, readLive>> /\ \A e \in Deployment : build'[e] \in {build[e], "dead"}
  BY DEF Unpublish, Die, SweepStep, StartSweep, ClaimPurge, DeleteSite, DeleteFails, ReadKeep, ListAliases,
     DeleteAlias, DeleteVersions, reads
<1>2. mishaps'.stops >= mishaps.stops /\ mishaps'.lost >= mishaps.lost
  <2>1. \/ mishaps' = mishaps \/ DeleteSite \/ DeleteFails
        \/ mishaps' = [mishaps EXCEPT !.deaths = @ + 1]
    BY DEF Unpublish, Die, SweepStep, StartSweep, ClaimPurge, ReadKeep, ListAliases, DeleteAlias,
       DeleteVersions
  <2> QED
    BY <2>1, DeletionBlips DEF Mishaps
<1>3. live' = live \/ (ActiveJobs = {} /\ live' = NoDeployment /\ deployment'[live].status # "READY")
  <2>1. CASE Unpublish
    BY <2>1, SupersedeRows DEF Unpublish
  <2>2. CASE Die \/ SweepStep
    BY <2>2 DEF Die, SweepStep, StartSweep, ClaimPurge, DeleteSite, DeleteFails, ReadKeep, ListAliases,
       DeleteAlias, DeleteVersions
  <2> QED
    BY <2>1, <2>2
<1> QED
  BY <1>1, <1>2, <1>3 DEF JobMoves, PointerMoves, ActiveJobs

LEMMA StepJobs ==
  ASSUME DeployTypeOK, BuildsStand, OtherStep
  PROVE  JobMoves /\ PointerMoves
BY QuietJobs, EndingJobs, StartingJobs, GoLiveJobs, OtherJobs DEF OtherStep, BuildStep

LEMMA LiveKept ==
  ASSUME LiveInv, DeployTypeOK', Moves, JobMoves, PointerMoves
  PROVE  LiveStands'
<1> USE DEF LiveInv, IInv
<1>1. mishaps'.lost >= mishaps.lost /\ mishaps.lost \in Nat /\ mishaps'.lost \in Nat
  BY Shapes, TypePartsNext DEF JobMoves, Mishaps
<1>2. ASSUME NEW e \in Deployment, mishaps'.lost = 0, build'[e] = "failing"
      PROVE  deployment'[e].status = "IN_FLIGHT"
  <2>1. RowMoves(e) /\ mishaps.lost = 0
    BY <1>1, <1>2 DEF Moves
  <2>2. build[e] \in Building \cup {"failing"} => deployment[e].status = "IN_FLIGHT"
    BY <2>1 DEF LiveStands, BuildsStand
  <2>3. build[e] = "over" \/ ~(Claimed(e) \/ HandedBack(e))
    BY DEF SweepStands, Claimed, HandedBack, Deleted
  <2> QED
    BY <1>2, <2>1, <2>2, <2>3 DEF RowMoves, Stays, Requested, Started, Failed, WentUp, Superseded, Aged,
       Claimed, HandedBack, Building
<1>3. ASSUME live' # NoDeployment
      PROVE  \/ deployment'[live'].status = "READY" /\ ~deployment'[live'].purged
             \/ GivenUp(live)'
  <2> DEFINE l == live'
  <2>1. l \in Deployment /\ l = live'
    BY <1>3, TypePartsNext DEF SmallTypes
  <2> HIDE DEF l
  <2>2. RowMoves(l)
    BY <2>1 DEF Moves
  <2>3. CASE live' = live /\ GivenUp(live)
    <3>1. mishaps'.lost > 0 /\ deployment[l].status = "FAILED" /\ build[l] = "over"
      BY <1>1, <2>1, <2>3 DEF GivenUp, Disowned
    <3>2. deployment'[l].status = "FAILED" /\ build'[l] = "over"
      BY <2>2, <3>1 DEF RowMoves, Stays, Requested, Started, Failed, WentUp, Superseded, Aged, Claimed,
         Claimable, HandedBack, NoRow, Building, Deleted
    <3> QED
      BY <2>1, <3>1, <3>2 DEF GivenUp, Disowned
  <2>4. CASE live' = live /\ ~GivenUp(live)
    <3>1. deployment[l].status = "READY" /\ ~deployment[l].purged
      BY <1>3, <2>1, <2>4 DEF LiveStands
    <3>2. build[l] # "queued" /\ (build[l] = "failing" => mishaps'.lost > 0)
      BY <1>1, <2>1, <3>1 DEF BuildsStand, LiveStands
    <3>3. \/ deployment'[l].status = "READY" /\ ~deployment'[l].purged
          \/ Failed(l) /\ build[l] = "failing"
      BY <2>1, <2>2, <3>1, <3>2 DEF RowMoves, Stays, Requested, Started, Failed, WentUp, Superseded, Aged,
         Claimed, Claimable, HandedBack, NoRow, Swept
    <3> QED
      BY <2>1, <3>2, <3>3 DEF Failed, GivenUp, Disowned
  <2>5. CASE live' # live
    <3>1. PICK d \in Deployment : WentUp(d)
      BY <1>3, <2>5 DEF PointerMoves
    <3>2. ~deployment[d].purged
      BY <3>1 DEF WentUp, BuildsStand
    <3> QED
      BY <3>1, <3>2 DEF WentUp
  <2> QED
    BY <2>3, <2>4, <2>5
<1> QED
  BY <1>2, <1>3 DEF LiveStands

LEMMA OneKept ==
  ASSUME LiveInv, DeployTypeOK', Moves, JobMoves, PointerMoves,
         rollback' = IF Rows' = Rows THEN rollback ELSE NoDeployment
  PROVE  OneAtATime'
<1> USE DEF LiveInv, IInv
<1> SUFFICES ASSUME mishaps'.stops = 0 PROVE OneAtATime'
  BY DEF OneAtATime
<1>1. mishaps.stops = 0
  BY Shapes, TypePartsNext DEF JobMoves, Mishaps
<1>2. /\ \A e \in Deployment : build[e] \in Ongoing => e \in ActiveJobs
      /\ \A d, e \in ActiveJobs : d = e
      /\ ActiveJobs # {} => rollback = NoDeployment
      /\ \A e \in Deployment : build[e] = "going" => readLive[e] = live
      /\ \A e \in Deployment : deployment[e].status = "READY" => e = live
  BY <1>1 DEF OneAtATime
<1>3. ASSUME NEW e \in Deployment, build'[e] \in Ongoing PROVE e \in ActiveJobs'
  <2>1. RowMoves(e)
    BY DEF Moves
  <2>2. CASE build[e] \in Ongoing
    <3>1. siteJob[e] \in {"QUEUED", "RUNNING"}
      BY <1>2, <2>2 DEF ActiveJobs
    <3> QED
      BY <1>3, <3>1 DEF JobMoves, ActiveJobs, Ongoing, Building
  <2>3. CASE build[e] \notin Ongoing
    <3>0. build[e] \in {"none", "over"}
      BY <2>3, Shapes DEF Ongoing, StageType
    <3>1. build'[e] = "queued" /\ build[e] # "queued"
      BY <1>3, <2>1, <3>0 DEF RowMoves, Stays, Requested, Started, Failed, WentUp, Superseded, Aged,
         Claimed, HandedBack, Ongoing, Building, Uploaded
    <3> QED
      BY <3>1 DEF JobMoves, ActiveJobs
  <2> QED
    BY <2>2, <2>3
<1>4. /\ \A d, e \in ActiveJobs' : d = e
      /\ ActiveJobs' # {} => rollback' = NoDeployment
  <2>1. CASE ActiveJobs' \subseteq ActiveJobs \cup {e \in Deployment : build[e] = "queued"}
    <3>1. ActiveJobs' \subseteq ActiveJobs
      BY <1>2, <2>1 DEF Ongoing
    <3> QED
      BY <1>2, <3>1
  <2>2. CASE ActiveJobs = {} /\ siteJob' # siteJob /\ \E d \in Deployment : ActiveJobs' = {d}
    <3>1. Rows' # Rows
      BY <2>2 DEF Rows
    <3> QED
      BY <2>2, <3>1
  <2> QED
    BY <2>1, <2>2 DEF JobMoves
<1>5. ASSUME NEW e \in Deployment, build'[e] = "going" PROVE readLive'[e] = live'
  <2>1. CASE build[e] = "going" /\ readLive'[e] = readLive[e]
    <3>1. e \in ActiveJobs /\ readLive[e] = live
      BY <1>2, <2>1 DEF Ongoing, Building
    <3>2. ~\E d \in Deployment : WentUp(d)
      <4> SUFFICES ASSUME NEW d \in Deployment, WentUp(d) PROVE FALSE
        OBVIOUS
      <4>1. d \in ActiveJobs
        BY <1>2 DEF WentUp, Ongoing, Building
      <4> QED
        BY <1>2, <1>5, <3>1, <4>1 DEF WentUp
    <3> QED
      BY <2>1, <3>1, <3>2 DEF PointerMoves
  <2>2. CASE readLive'[e] = live /\ live' = live
    BY <2>2
  <2> QED
    BY <1>5, <2>1, <2>2 DEF PointerMoves
<1>6. ASSUME NEW e \in Deployment, deployment'[e].status = "READY" PROVE e = live'
  <2>1. RowMoves(e)
    BY DEF Moves
  <2>2. CASE WentUp(e)
    BY <2>2 DEF WentUp
  <2>3. CASE ~WentUp(e)
    <3>1. e = live
      BY <1>2, <1>6, <2>1, <2>3 DEF RowMoves, Stays, Requested, Started, Failed, Superseded, Aged, Claimed,
         HandedBack
    <3>2. ASSUME NEW d \in Deployment, WentUp(d),
                 \A f \in Deployment \ {d} : f = readLive[d] => deployment'[f].status # "READY"
          PROVE  FALSE
      BY <1>2, <1>6, <2>3, <3>1, <3>2 DEF WentUp
    <3> QED
      BY <1>6, <3>1, <3>2 DEF PointerMoves
  <2> QED
    BY <2>2, <2>3
<1> QED
  BY <1>3, <1>4, <1>5, <1>6 DEF OneAtATime

LEMMA LiveInvStep == LiveInv /\ [DeployNext]_deployVars => LiveInv'
<1> SUFFICES ASSUME LiveInv, [DeployNext]_deployVars PROVE LiveInv'
  OBVIOUS
<1>1. IInv' /\ DeployTypeOK'
  BY InvStep DEF LiveInv, IInv
<1>2. CASE Beside(OtherStep)
  <2>1. Moves /\ JobMoves /\ PointerMoves
    BY <1>2, StepMoves, StepJobs DEF Beside, LiveInv, IInv
  <2>2. rollback' = IF Rows' = Rows THEN rollback ELSE NoDeployment
    BY <1>2 DEF Beside
  <2> QED
    BY <1>1, <2>1, <2>2, LiveKept, OneKept DEF LiveInv
<1>3. CASE CommitRollback
  <2> USE DEF LiveInv, IInv
  <2>1. /\ UNCHANGED <<siteJob, build, readLive>> /\ rollback # NoDeployment /\ rollback' = NoDeployment
        /\ live' = rollback /\ rollback \in Deployment
        /\ mishaps'.stops = mishaps.stops /\ mishaps'.lost = mishaps.lost
    BY <1>3, Shapes DEF CommitRollback, reads, Mishaps
  <2>2. deployment[rollback].status \in WentLive /\ ~deployment[rollback].purged
    BY <2>1 DEF RollbackStands
  <2>3. LiveStands'
    <3>1. deployment'[rollback].status = "READY" /\ ~deployment'[rollback].purged
      BY <1>3, <2>1, <2>2, RollbackRows
    <3>2. ASSUME NEW e \in Deployment, mishaps.lost = 0, build[e] = "failing"
          PROVE  deployment'[e].status = "IN_FLIGHT"
      BY <1>3, <2>1, <2>2, <3>2, RollbackRows DEF LiveStands, WentLive
    <3>3. mishaps'.lost = 0 <=> mishaps.lost = 0
      BY <2>1
    <3> QED
      BY <2>1, <3>1, <3>2, <3>3 DEF LiveStands
  <2>4. OneAtATime'
    <3> SUFFICES ASSUME mishaps'.stops = 0 PROVE OneAtATime'
      BY DEF OneAtATime
    <3>1. ActiveJobs = {} /\ ActiveJobs' = ActiveJobs
      BY <2>1 DEF OneAtATime, ActiveJobs
    <3>2. \A e \in Deployment : build'[e] \notin Ongoing
      BY <2>1, <3>1 DEF OneAtATime
    <3>3. ASSUME NEW e \in Deployment, deployment'[e].status = "READY" PROVE e = live'
      BY <1>3, <2>1, <3>3, RollbackRows DEF OneAtATime
    <3> QED
      BY <3>1, <3>2, <3>3 DEF OneAtATime, Ongoing, Building
  <2> QED
    BY <1>1, <2>3, <2>4
<1>4. ASSUME NEW d \in Deployment, BeginRollback(d) PROVE LiveInv'
  <2>1. UNCHANGED <<siteJob, deployment, live, build, readLive, mishaps>> /\ ActiveJobs = {}
    BY <1>4 DEF BeginRollback, reads
  <2> QED
    BY <1>1, <2>1 DEF LiveInv, LiveStands, GivenUp, Disowned, OneAtATime, ActiveJobs
<1>5. CASE UNCHANGED deployVars
  BY <1>1, <1>5 DEF LiveInv, LiveStands, GivenUp, Disowned, OneAtATime, ActiveJobs, deployVars, reads
<1> QED
  BY <1>2, <1>3, <1>4, <1>5 DEF DeployNext

\* What is live is READY and has its files, or was disowned, and nothing else is READY,
\* for any deployments, failures, deaths, stops and lost commits.
THEOREM LiveStaysWhole == DeploySpec => []LiveIsWhole
<1>1. DeployInit => LiveInv
  <2> SUFFICES ASSUME DeployInit PROVE LiveStands /\ OneAtATime
    BY InvInit DEF LiveInv
  <2> QED
    BY DEF DeployInit, LiveStands, OneAtATime, ActiveJobs, Ongoing, Building, NoRow
<1>2. LiveInv => LiveIsWhole
  <2> SUFFICES ASSUME LiveInv PROVE LiveIsWhole
    OBVIOUS
  <2>1. live # NoDeployment => live \in Deployment
    BY Shapes DEF LiveInv, IInv
  <2>2. live # NoDeployment =>
          \/ Disowned(live)
          \/ deployment[live].status = "READY" /\ ~deployment[live].purged /\ (Torn \/ site[live] = "whole")
    BY <2>1 DEF LiveInv, LiveStands, GivenUp, IInv, RestorableIsWhole, Restorable, WentLive
  <2> QED
    BY <2>2 DEF LiveInv, OneAtATime, LiveIsWhole
<1> QED
  BY <1>1, <1>2, LiveInvStep, PTL DEF DeploySpec
=============================================================================
