---------------------------- MODULE EdgeRegistry ----------------------------
(* What the edge router knows of one published site: a routing record per
   hostname in Cloudflare KV, written from the database's rows by whoever
   changes them, one unordered push per change, and by an hourly reconciler.

   A handler changes its row in one transaction and then pushes; its steps, and
   the reconciler's, are the calls to the database and to Cloudflare.  A push
   and a reconcile read the rows in two queries, the project's and then the
   live deployment's.  The badge of the plan is left out: it is one more field
   of the record. *)
EXTENDS Integers, FiniteSets

CONSTANTS
  SiteBuild, NoBuild,  \* deployments that may be live
  Domain, Default,     \* custom hostnames, and the one under the sites domain
  NoRecord,
  Handler,             \* bound: the changes that are made
  MaxEdgeFaults        \* bound: Cloudflare calls that fail, and handlers cut off

Host == Domain \cup {Default}

ASSUME EdgeAssumption ==
  /\ IsFiniteSet(Domain) /\ IsFiniteSet(Handler)
  /\ NoBuild \notin SiteBuild /\ Default \notin Domain
  /\ MaxEdgeFaults \in Nat

VARIABLES
  project,     \* the Project row; a live deployment is READY, and only that one is
  domain,      \* the Domain rows
  kv,          \* Cloudflare's records
  handler,     \* the changes, each with the push it makes
  reconciler,  \* reconcileEdge
  disturbed,   \* history: two of them were under way at once, or one was cut off or
               \* had a call fail, and no pass of the reconciler has started since, alone
  edgeFaults

edgeVars == <<project, domain, kv, handler, reconciler, disturbed, edgeFaults>>

Record == [build : SiteBuild \cup {NoBuild}, suspended : BOOLEAN, redirectTo : Domain \cup {Default}]
Entry  == Record \cup {NoRecord}

Project == [exists : BOOLEAN, live : SiteBuild \cup {NoBuild}, suspended : BOOLEAN]
DomainRow == [status : {"none", "WAITING", "ACTIVE"}, primary : BOOLEAN]

\* Row and domains as SITE_SELECT reads them.
SiteRows == [project |-> project, domain |-> domain]

-----------------------------------------------------------------------------
(* What a site's records should be. *)

\* recordFor: suspended wins over live.
RecordOf(live, suspended, to) ==
  IF live = NoBuild /\ ~suspended THEN NoRecord
  ELSE [build |-> live, suspended |-> suspended, redirectTo |-> to]

\* The hostnames recordsFor answers for.
Serving(rows) == {Default} \cup {d \in Domain : rows.domain[d].status = "ACTIVE"}

Primaries(rows) == {d \in Serving(rows) \ {Default} : rows.domain[d].primary}

\* Where a hostname is sent to, itself when it is served: the default address
\* goes to the primary domain, of which there is at most one.
Target(rows, h) ==
  IF h # Default \/ Primaries(rows) = {} \/ rows.project.suspended THEN h
  ELSE CHOOSE d \in Domain : d \in Primaries(rows)

\* recordsFor, of rows whose live deployment turned out to be live.
RecordsFor(rows, live) ==
  [h \in Serving(rows) |-> RecordOf(live, rows.project.suspended, Target(rows, h))]

\* What KV should hold.
Wanted ==
  [h \in Host |-> IF project.exists /\ h \in Serving(SiteRows)
                  THEN RecordsFor(SiteRows, project.live)[h] ELSE NoRecord]

Gone   == [exists |-> FALSE, live |-> NoBuild, suspended |-> FALSE]

\* Mutant of Absent: a removed domain keeps a row.
AbsentMarked == [status |-> "REMOVED", primary |-> FALSE]

Absent == [status |-> "none", primary |-> FALSE]
NoRows == [project |-> Gone, domain |-> [d \in Domain |-> Absent]]

\* rows, write: what a push has read and will write.  host: the domain a removal
\* is about.  hosts: those a deletion has still to release.
IdleHandler == [at |-> "new", rows |-> NoRows, write |-> <<>>, host |-> Default, hosts |-> {}]
IdlePass    == [at |-> "idle", rows |-> NoRows, wanted |-> <<>>, puts |-> {}, removes |-> {}]

\* Any site and its domains, with the records they should have.
EdgeInit ==
  /\ project \in [exists : {TRUE}, live : SiteBuild \cup {NoBuild}, suspended : BOOLEAN]
  /\ domain \in [Domain -> DomainRow]
  /\ \A d \in Domain : domain[d].primary => domain[d].status = "ACTIVE"
  /\ Cardinality({d \in Domain : domain[d].primary}) <= 1
  /\ kv = Wanted
  /\ handler = [c \in Handler |-> IdleHandler]
  /\ reconciler = IdlePass
  /\ disturbed = FALSE
  /\ edgeFaults = 0

EdgeFault == edgeFaults < MaxEdgeFaults /\ edgeFaults' = edgeFaults + 1 /\ disturbed' = TRUE

Busy(c) == handler[c].at \notin {"new", "done"}
AnyBusy == \E c \in Handler : Busy(c)

HandlerAt(c, at) == handler' = [handler EXCEPT ![c].at = at]

-----------------------------------------------------------------------------
(* Handlers. *)

\* A handler starts.
Starts(c) ==
  /\ handler[c].at = "new"
  /\ disturbed' = (disturbed \/ AnyBusy \/ reconciler.at # "idle")

\* One that has changed the project's row, and owes the push.
Changes(c, row) ==
  /\ Starts(c) /\ project.exists
  /\ project' = row
  /\ HandlerAt(c, "owed")
  /\ UNCHANGED <<domain, kv, reconciler, edgeFaults>>

\* Going live and rolling back.
PutLive(c, b) == b # project.live /\ Changes(c, [project EXCEPT !.live = b])

\* unpublish.
TakeOffline(c) == project.live # NoBuild /\ Changes(c, [project EXCEPT !.live = NoBuild])

\* suspendProjectSite and unsuspendProjectSite.
Suspend(c, on) == Changes(c, [project EXCEPT !.suspended = on])

\* addDomain, which writes no record.
AddDomain(d) ==
  /\ project.exists /\ domain[d].status = "none"
  /\ domain' = [domain EXCEPT ![d].status = "WAITING"]
  /\ UNCHANGED <<project, kv, handler, reconciler, disturbed, edgeFaults>>

\* checkDomain finds that Cloudflare serves it.
Activate(c, d) ==
  /\ Starts(c) /\ domain[d].status = "WAITING"
  /\ domain' = [domain EXCEPT ![d].status = "ACTIVE"]
  /\ HandlerAt(c, "owed")
  /\ UNCHANGED <<project, kv, reconciler, edgeFaults>>

\* setPrimary.
SetPrimary(c, d, on) ==
  /\ Starts(c) /\ domain[d].status # "none" /\ (on => domain[d].status = "ACTIVE")
  /\ domain' = [e \in Domain |-> [domain[e] EXCEPT !.primary = on /\ e = d]]
  /\ HandlerAt(c, "owed")
  /\ UNCHANGED <<project, kv, reconciler, edgeFaults>>

\* removeDomain reads the row it goes by.
BeginRemoval(c, d) ==
  /\ Starts(c) /\ domain[d].status # "none"
  /\ handler' = [handler EXCEPT ![c] = [@ EXCEPT !.at = "releasing", !.rows = SiteRows, !.host = d]]
  /\ UNCHANGED <<project, domain, kv, reconciler, edgeFaults>>

\* release: removeHostnames never throws.
Release(c) ==
  /\ handler[c].at = "releasing"
  /\ \/ kv' = [kv EXCEPT ![handler[c].host] = NoRecord] /\ UNCHANGED <<disturbed, edgeFaults>>
     \/ EdgeFault /\ UNCHANGED kv
  /\ HandlerAt(c, "deleting")
  /\ UNCHANGED <<project, domain, reconciler>>

\* Mutant of DeleteDomain: nobody restores the default address.
DeleteDomainQuietly(c) ==
  LET d == handler[c].host
  IN  /\ handler[c].at = "deleting"
      /\ domain' = [domain EXCEPT ![d] = Absent]
      /\ HandlerAt(c, "done")
      /\ UNCHANGED <<project, kv, reconciler, disturbed, edgeFaults>>

\* The row goes, unless it has gone; a removed primary leaves a push to make.
DeleteDomain(c) ==
  LET d == handler[c].host
  IN  /\ handler[c].at = "deleting"
      /\ domain' = [domain EXCEPT ![d] = Absent]
      /\ handler' = [handler EXCEPT ![c].rows = NoRows, ![c].at =
           IF domain[d].status # "none" /\ handler[c].rows.domain[d].primary THEN "owed" ELSE "done"]
      /\ UNCHANGED <<project, kv, reconciler, disturbed, edgeFaults>>

\* deleteProject: the domains it has now are released one after the other, the
\* rows go together, and then the default address.
BeginDeletion(c) ==
  /\ Starts(c) /\ project.exists
  /\ handler' = [handler EXCEPT ![c].at = "clearing",
                                ![c].hosts = {d \in Domain : domain[d].status # "none"}]
  /\ UNCHANGED <<project, domain, kv, reconciler, edgeFaults>>

ReleaseOne(c, d) ==
  /\ handler[c].at = "clearing" /\ d \in handler[c].hosts
  /\ \/ kv' = [kv EXCEPT ![d] = NoRecord] /\ UNCHANGED <<disturbed, edgeFaults>>
     \/ EdgeFault /\ UNCHANGED kv
  /\ handler' = [handler EXCEPT ![c].hosts = @ \ {d}]
  /\ UNCHANGED <<project, domain, reconciler>>

DeleteRows(c) ==
  /\ handler[c].at = "clearing" /\ handler[c].hosts = {}
  /\ project' = Gone
  /\ domain' = NoRows.domain
  /\ HandlerAt(c, "unsiting")
  /\ UNCHANGED <<kv, reconciler, disturbed, edgeFaults>>

RemoveSite(c) ==
  /\ handler[c].at = "unsiting"
  /\ \/ kv' = [kv EXCEPT ![Default] = NoRecord] /\ UNCHANGED <<disturbed, edgeFaults>>
     \/ EdgeFault /\ UNCHANGED kv
  /\ HandlerAt(c, "done")
  /\ UNCHANGED <<project, domain, reconciler>>

-----------------------------------------------------------------------------
(* syncProject. *)

\* The first query.
SyncReads(c) ==
  /\ handler[c].at = "owed"
  /\ handler' = [handler EXCEPT ![c] =
       IF project.exists THEN [@ EXCEPT !.at = "reading", !.rows = SiteRows] ELSE [@ EXCEPT !.at = "done"]]
  /\ UNCHANGED <<project, domain, kv, reconciler, disturbed, edgeFaults>>

\* statesOf's second query: the deployment the row names is READY or it is not.
StillLive(rows) == IF project.live = rows.project.live THEN rows.project.live ELSE NoBuild

SyncReadsBuild(c) ==
  LET rows == handler[c].rows
  IN  /\ handler[c].at = "reading"
      /\ handler' = [handler EXCEPT ![c].at = "writing", ![c].rows = NoRows,
                                    ![c].write = RecordsFor(rows, StillLive(rows))]
      /\ UNCHANGED <<project, domain, kv, reconciler, disturbed, edgeFaults>>

\* The records, as far as there are any, are put, or all of them removed, in one
\* call; it may fail, or its answer be lost, and the push is over.
Overwrite(records) == [h \in Host |-> IF h \in DOMAIN records THEN records[h] ELSE kv[h]]

SyncWrites(c) ==
  /\ handler[c].at = "writing"
  /\ \/ kv' = Overwrite(handler[c].write) /\ UNCHANGED <<disturbed, edgeFaults>>
     \/ EdgeFault /\ kv' \in {kv, Overwrite(handler[c].write)}
  /\ handler' = [handler EXCEPT ![c].at = "done", ![c].write = <<>>]
  /\ UNCHANGED <<project, domain, reconciler>>

\* The process dies, or a statement fails, in the middle of a handler: a change
\* whose push is never made, a record released whose row stays.
Abandon(c) ==
  /\ Busy(c) /\ EdgeFault
  /\ handler' = [handler EXCEPT ![c] = [IdleHandler EXCEPT !.at = "done"]]
  /\ UNCHANGED <<project, domain, kv, reconciler>>

HandlerStep(c) ==
  \/ Release(c) \/ DeleteDomain(c) \/ (\E d \in Domain : ReleaseOne(c, d)) \/ DeleteRows(c)
  \/ RemoveSite(c) \/ SyncReads(c) \/ SyncReadsBuild(c) \/ SyncWrites(c)

-----------------------------------------------------------------------------
(* reconcileEdge, once an hour. *)

PassUnchanged == UNCHANGED <<project, domain, handler>>

\* Projects that are live or suspended, with their domains.
ReconcileReads ==
  /\ reconciler.at = "idle"
  /\ reconciler' = IF project.exists
                   THEN [IdlePass EXCEPT !.at = "reading", !.rows = SiteRows]
                   ELSE [IdlePass EXCEPT !.at = "listing"]
  /\ disturbed' = AnyBusy
  /\ PassUnchanged /\ UNCHANGED <<kv, edgeFaults>>

ReconcileReadsBuild ==
  /\ reconciler.at = "reading"
  /\ reconciler' = [IdlePass EXCEPT !.at = "listing",
                      !.wanted = RecordsFor(reconciler.rows, StillLive(reconciler.rows))]
  /\ PassUnchanged /\ UNCHANGED <<kv, disturbed, edgeFaults>>

WantedBy(pass, h) == IF h \in DOMAIN pass.wanted THEN pass.wanted[h] ELSE NoRecord

\* Mutant of ReconcileLists: only what is wanted is looked at.
ReconcileListsWanted ==
  /\ reconciler.at = "listing"
  /\ reconciler' = [reconciler EXCEPT !.at = "putting",
       !.puts = {h \in Host : WantedBy(reconciler, h) \notin {NoRecord, kv[h]}}]
  /\ PassUnchanged /\ UNCHANGED <<kv, disturbed, edgeFaults>>

\* The listing, with the hashes of the records, says what differs.
ReconcileLists ==
  /\ reconciler.at = "listing"
  /\ reconciler' = [reconciler EXCEPT !.at = "putting",
       !.puts = {h \in Host : WantedBy(reconciler, h) \notin {NoRecord, kv[h]}},
       !.removes = {h \in Host : WantedBy(reconciler, h) = NoRecord /\ kv[h] # NoRecord}]
  /\ PassUnchanged /\ UNCHANGED <<kv, disturbed, edgeFaults>>

ReconcilePuts ==
  /\ reconciler.at = "putting"
  /\ kv' = [h \in Host |-> IF h \in reconciler.puts THEN WantedBy(reconciler, h) ELSE kv[h]]
  /\ reconciler' = [reconciler EXCEPT !.at = "removing"]
  /\ PassUnchanged /\ UNCHANGED <<disturbed, edgeFaults>>

ReconcileRemoves ==
  /\ reconciler.at = "removing"
  /\ kv' = [h \in Host |-> IF h \in reconciler.removes THEN NoRecord ELSE kv[h]]
  /\ reconciler' = IdlePass
  /\ PassUnchanged /\ UNCHANGED <<disturbed, edgeFaults>>

\* A call fails and the pass is given up.
ReconcileFails ==
  /\ reconciler.at # "idle" /\ EdgeFault
  /\ reconciler' = IdlePass
  /\ PassUnchanged /\ UNCHANGED kv

ReconcileStep ==
  \/ ReconcileReads \/ ReconcileReadsBuild \/ ReconcileLists
  \/ ReconcilePuts \/ ReconcileRemoves

EdgeNext ==
  \/ \E c \in Handler :
       \/ HandlerStep(c) \/ Abandon(c) \/ TakeOffline(c) \/ BeginDeletion(c)
       \/ \E b \in SiteBuild : PutLive(c, b)
       \/ \E on \in BOOLEAN : Suspend(c, on) \/ \E d \in Domain : SetPrimary(c, d, on)
       \/ \E d \in Domain : Activate(c, d) \/ BeginRemoval(c, d)
  \/ \E d \in Domain : AddDomain(d)
  \/ ReconcileStep \/ ReconcileFails

EdgeSpec == EdgeInit /\ [][EdgeNext]_edgeVars

\* Handlers go on, and the reconciler's timer fires.
EdgeFairness ==
  /\ WF_edgeVars(ReconcileStep)
  /\ \A c \in Handler : WF_edgeVars(HandlerStep(c))

-----------------------------------------------------------------------------
(* Properties. *)

EdgeTypeOK ==
  /\ project \in Project
  /\ domain \in [Domain -> DomainRow]
  /\ kv \in [Host -> Entry]
  /\ \A c \in Handler :
       /\ handler[c].at \in {"new", "owed", "reading", "writing", "releasing", "deleting",
                             "clearing", "unsiting", "done"}
       /\ handler[c].host \in Host /\ handler[c].hosts \subseteq Domain
       /\ handler[c].rows \in [project : Project, domain : [Domain -> DomainRow]]
       /\ \A h \in DOMAIN handler[c].write : h \in Host /\ handler[c].write[h] \in Entry
  /\ reconciler.at \in {"idle", "reading", "listing", "putting", "removing"}
  /\ reconciler.puts \subseteq Host /\ reconciler.removes \subseteq Host
  /\ \A h \in DOMAIN reconciler.wanted : h \in Host /\ reconciler.wanted[h] \in Entry
  /\ disturbed \in BOOLEAN
  /\ edgeFaults \in 0 .. MaxEdgeFaults

\* When everybody is at rest, the edge serves what the database says, unless two
\* of them overlapped, one was cut off or a call failed since the last pass that
\* started alone.  Every change pushes all the hostnames it has an effect on
\* (edgeRegistry.ts:6: "after every change to what a site shows"), and one pass
\* repairs whatever it finds (edgeRegistry.ts:8).
UndisturbedIsWanted ==
  ~disturbed /\ ~AnyBusy /\ reconciler.at = "idle" => kv = Wanted

\* In the end the edge serves what the database says, whatever pushes were lost,
\* overtook one another or read half of a change, and whatever a pass of the
\* reconciler overwrote (edgeRegistry.ts:8: "repairs anything a failed push left
\* behind").
EdgeSettles == <>[](kv = Wanted)
=============================================================================
