------------------------------ MODULE EdgeProofs ------------------------------
(* Theorems about EdgeRegistry that hold for any domains, deployments, number of
   changes and number of failing calls. *)
EXTENDS EdgeRegistry, TLAPS

USE EdgeAssumption

-----------------------------------------------------------------------------
(* Types: a push's records are a function on some of the hostnames. *)

SiteRowsType == [project : Project, domain : [Domain -> DomainRow]]
Records      == UNION {[S -> Entry] : S \in SUBSET Host}

HandlerType ==
  [at : {"new", "owed", "reading", "writing", "releasing", "deleting", "clearing", "unsiting", "done"},
   rows : SiteRowsType, write : Records, host : Host, hosts : SUBSET Domain]

PassType ==
  [at : {"idle", "reading", "listing", "putting", "removing"}, rows : SiteRowsType, wanted : Records,
   puts : SUBSET Host, removes : SUBSET Host]

TypeInv ==
  /\ project \in Project /\ domain \in [Domain -> DomainRow] /\ kv \in [Host -> Entry]
  /\ handler \in [Handler -> HandlerType]
  /\ reconciler \in PassType
  /\ disturbed \in BOOLEAN
  /\ edgeFaults \in 0 .. MaxEdgeFaults

-----------------------------------------------------------------------------
(* One at a time, and no call that fails, since a pass or from the start. *)

\* Serving and Primaries, by the domains' rows alone.
ServingIn(d)   == {Default} \cup {h \in Domain : d[h].status = "ACTIVE"}
PrimariesIn(d) == {h \in ServingIn(d) \ {Default} : d[h].primary}

\* The rows say of what is served what they said.
SameSite(rows) ==
  /\ rows.project = project
  /\ ServingIn(rows.domain) = ServingIn(domain) /\ PrimariesIn(rows.domain) = PrimariesIn(domain)

\* No hostname has a record but those a push overwrites.
StrayFree == \A h \in Host \ ServingIn(domain) : kv[h] = NoRecord

\* Nobody else is at work, with c; with the reconciler.
Alone(c)  == reconciler.at = "idle" /\ \A e \in Handler \ {c} : ~Busy(e)
PassAlone == \A e \in Handler : ~Busy(e)

\* What c has done and has left to do comes to what is wanted.
HandlerAims(c) ==
  /\ handler[c].at = "owed" => project.exists /\ StrayFree
  /\ handler[c].at = "reading" => project.exists /\ StrayFree /\ SameSite(handler[c].rows)
  /\ handler[c].at = "writing" =>
       /\ project.exists /\ StrayFree
       /\ DOMAIN handler[c].write = ServingIn(domain)
       /\ \A h \in ServingIn(domain) : handler[c].write[h] = Wanted[h]
  /\ handler[c].at \in {"releasing", "deleting"} =>
       /\ handler[c].host \in Domain /\ domain[handler[c].host].status # "none"
       /\ handler[c].rows.domain[handler[c].host].primary = domain[handler[c].host].primary
  /\ handler[c].at = "releasing" => kv = Wanted
  /\ handler[c].at = "deleting" =>
       \A h \in Host : kv[h] = IF h = handler[c].host THEN NoRecord ELSE Wanted[h]
  /\ handler[c].at = "clearing" => \A d \in Domain \ handler[c].hosts : kv[d] = NoRecord
  /\ handler[c].at = "unsiting" => ~project.exists /\ \A d \in Domain : kv[d] = NoRecord

\* A pass finds any records, and what it has still to do makes them what is wanted.
PassAims ==
  /\ reconciler.at = "reading" => project.exists /\ SameSite(reconciler.rows)
  /\ reconciler.at \in {"listing", "putting"} => \A h \in Host : WantedBy(reconciler, h) = Wanted[h]
  /\ reconciler.at = "putting" =>
       \A h \in Host : /\ h \in reconciler.puts <=> Wanted[h] \notin {NoRecord, kv[h]}
                       /\ h \in reconciler.removes <=> Wanted[h] = NoRecord /\ kv[h] # NoRecord
  /\ reconciler.at = "removing" =>
       \A h \in Host : IF h \in reconciler.removes THEN Wanted[h] = NoRecord ELSE kv[h] = Wanted[h]

\* A project that is gone has no domains.
NoOrphans == ~project.exists => \A d \in Domain : domain[d].status = "none"

Serially == ~disturbed

SerialInv ==
  /\ TypeInv
  /\ NoOrphans
  /\ Serially =>
       /\ \A c \in Handler : Busy(c) => Alone(c) /\ HandlerAims(c)
       /\ reconciler.at # "idle" => PassAlone /\ PassAims
       /\ ~AnyBusy /\ reconciler.at = "idle" => kv = Wanted

-----------------------------------------------------------------------------
(* Records. *)

RowsOf(p, d)   == [project |-> p, domain |-> d]
WantedOf(p, d) ==
  [h \in Host |-> IF p.exists /\ h \in Serving(RowsOf(p, d)) THEN RecordsFor(RowsOf(p, d), p.live)[h] ELSE NoRecord]

LEMMA Spelled ==
  /\ SiteRows = RowsOf(project, domain)
  /\ Wanted = WantedOf(project, domain)
BY DEF SiteRows, RowsOf, Wanted, WantedOf

LEMMA SpelledNext ==
  /\ SiteRows' = RowsOf(project', domain')
  /\ Wanted' = WantedOf(project', domain')
BY DEF SiteRows, RowsOf, Wanted, WantedOf

TargetOf(primaries, suspended, h) ==
  IF h # Default \/ primaries = {} \/ suspended THEN h ELSE CHOOSE d \in Domain : d \in primaries

\* What a hostname's record is made of.
Value(serving, primaries, row, h) ==
  IF row.exists /\ h \in serving
  THEN RecordOf(row.live, row.suspended, TargetOf(primaries, row.suspended, h)) ELSE NoRecord

LEMMA ServingSpelled ==
  ASSUME NEW rows
  PROVE  Serving(rows) = ServingIn(rows.domain) /\ Primaries(rows) = PrimariesIn(rows.domain)
BY DEF Serving, ServingIn, Primaries, PrimariesIn

LEMMA TargetIs ==
  ASSUME NEW rows, NEW h
  PROVE  Target(rows, h) = TargetOf(PrimariesIn(rows.domain), rows.project.suspended, h)
<1>1. Target(rows, h) = TargetOf(Primaries(rows), rows.project.suspended, h)
  BY DEF Target, TargetOf
<1> QED
  BY <1>1, ServingSpelled

LEMMA RecordsForIs ==
  ASSUME NEW rows, NEW h \in ServingIn(rows.domain), rows.project.exists
  PROVE  RecordsFor(rows, rows.project.live)[h]
           = Value(ServingIn(rows.domain), PrimariesIn(rows.domain), rows.project, h)
BY ServingSpelled, TargetIs DEF RecordsFor, Value

LEMMA WantedAt ==
  ASSUME NEW p, NEW d
  PROVE  WantedOf(p, d) = [h \in Host |-> Value(ServingIn(d), PrimariesIn(d), p, h)]
<1>1. RowsOf(p, d).project = p /\ RowsOf(p, d).domain = d
  BY DEF RowsOf
<1>2. Serving(RowsOf(p, d)) = ServingIn(d)
  BY <1>1, ServingSpelled
<1>3. ASSUME NEW h \in Host
      PROVE  (IF p.exists /\ h \in Serving(RowsOf(p, d)) THEN RecordsFor(RowsOf(p, d), p.live)[h] ELSE NoRecord)
               = Value(ServingIn(d), PrimariesIn(d), p, h)
  <2>1. CASE p.exists /\ h \in ServingIn(d)
    BY <1>1, <1>2, <2>1, RecordsForIs
  <2>2. CASE ~(p.exists /\ h \in ServingIn(d))
    BY <1>2, <2>2 DEF Value
  <2> QED
    BY <2>1, <2>2
<1> QED
  BY <1>3 DEF WantedOf

\* What is wanted depends on the domains by the hostnames that serve and the primary.
LEMMA SameWanted ==
  ASSUME NEW p, NEW d, NEW e, ServingIn(d) = ServingIn(e), PrimariesIn(d) = PrimariesIn(e)
  PROVE  WantedOf(p, d) = WantedOf(p, e)
BY WantedAt

LEMMA NothingWanted ==
  ASSUME NEW p, NEW d, ~p.exists
  PROVE  WantedOf(p, d) = [h \in Host |-> NoRecord]
BY DEF WantedOf

\* What is not served has no record.
LEMMA StrayWanted ==
  ASSUME NEW p, NEW d, NEW h \in Host, h \notin ServingIn(d)
  PROVE  WantedOf(p, d)[h] = NoRecord
BY WantedAt DEF Value

LEMMA ServingIsHost ==
  ASSUME NEW rows
  PROVE  Serving(rows) \subseteq Host /\ PrimariesIn(rows.domain) \subseteq Domain
BY DEF Serving, Host, PrimariesIn, ServingIn

LEMMA TargetType ==
  ASSUME NEW primaries \in SUBSET Domain, NEW s, NEW h \in Host
  PROVE  TargetOf(primaries, s, h) \in Host
BY DEF TargetOf, Host

LEMMA RecordType ==
  ASSUME NEW live \in SiteBuild \cup {NoBuild}, NEW s \in BOOLEAN, NEW h \in Host
  PROVE  RecordOf(live, s, h) \in Entry
BY DEF RecordOf, Entry, Record, Host

LEMMA RecordsForType ==
  ASSUME NEW rows \in SiteRowsType, NEW live \in SiteBuild \cup {NoBuild}
  PROVE  RecordsFor(rows, live) \in Records /\ DOMAIN RecordsFor(rows, live) = Serving(rows)
<1>1. ASSUME NEW h \in Serving(rows)
      PROVE  RecordOf(live, rows.project.suspended, Target(rows, h)) \in Entry
  <2>1. h \in Host /\ rows.project.suspended \in BOOLEAN
    BY <1>1, ServingIsHost DEF SiteRowsType, Project
  <2>2. Target(rows, h) \in Host
    BY <2>1, TargetIs, TargetType, ServingIsHost
  <2> QED
    BY <2>1, <2>2, RecordType
<1>2. RecordsFor(rows, live) \in [Serving(rows) -> Entry]
  BY <1>1 DEF RecordsFor
<1> QED
  BY <1>2, ServingIsHost DEF Records

LEMMA NoneType == <<>> \in Records /\ NoRows \in SiteRowsType /\ NoRows.domain \in [Domain -> DomainRow]
<1>1. <<>> \in [{} -> Entry]
  OBVIOUS
<1> QED
  BY <1>1 DEF Records, NoRows, SiteRowsType, Gone, Project, Absent, DomainRow

LEMMA EntryOf ==
  ASSUME NEW records \in Records
  PROVE  \A h \in DOMAIN records : h \in Host /\ records[h] \in Entry
BY DEF Records

LEMMA NoRecordIsEntry == NoRecord \in Entry
BY DEF Entry

-----------------------------------------------------------------------------
(* Types are kept. *)

LEMMA TypesGive ==
  ASSUME TypeInv
  PROVE  EdgeTypeOK
<1>1. ASSUME NEW c \in Handler
      PROVE  handler[c] \in HandlerType /\ handler[c].write \in Records
  BY DEF TypeInv, HandlerType
<1>2. ASSUME NEW c \in Handler
      PROVE  \A h \in DOMAIN handler[c].write : h \in Host /\ handler[c].write[h] \in Entry
  BY <1>1, EntryOf
<1>3. reconciler.wanted \in Records
  BY DEF TypeInv, PassType
<1>4. \A h \in DOMAIN reconciler.wanted : h \in Host /\ reconciler.wanted[h] \in Entry
  BY <1>3, EntryOf
<1>5. \A c \in Handler :
        /\ handler[c].at \in {"new", "owed", "reading", "writing", "releasing", "deleting",
                              "clearing", "unsiting", "done"}
        /\ handler[c].host \in Host /\ handler[c].hosts \subseteq Domain
        /\ handler[c].rows \in [project : Project, domain : [Domain -> DomainRow]]
  BY <1>1 DEF HandlerType, SiteRowsType
<1>6. /\ reconciler.at \in {"idle", "reading", "listing", "putting", "removing"}
      /\ reconciler.puts \subseteq Host /\ reconciler.removes \subseteq Host
  BY DEF TypeInv, PassType
<1> QED
  BY <1>2, <1>4, <1>5, <1>6 DEF TypeInv, EdgeTypeOK

LEMMA TypeInit ==
  ASSUME EdgeInit
  PROVE  TypeInv
<1>1. project \in Project /\ domain \in [Domain -> DomainRow] /\ SiteRows \in SiteRowsType
  BY DEF EdgeInit, Project, SiteRows, SiteRowsType
<1>2. RecordsFor(SiteRows, project.live) \in Records
      /\ DOMAIN RecordsFor(SiteRows, project.live) = Serving(SiteRows)
  BY <1>1, RecordsForType DEF Project
<1>3. \A h \in Serving(SiteRows) : RecordsFor(SiteRows, project.live)[h] \in Entry
  BY <1>2, EntryOf
<1>4. Wanted \in [Host -> Entry]
  BY <1>3, NoRecordIsEntry DEF Wanted
<1>5. IdleHandler \in HandlerType /\ IdlePass \in PassType
  BY NoneType DEF IdleHandler, IdlePass, HandlerType, PassType, Host
<1>6. edgeFaults \in 0 .. MaxEdgeFaults
  BY DEF EdgeInit
<1> QED
  BY <1>1, <1>4, <1>5, <1>6 DEF EdgeInit, TypeInv

LEMMA FaultType ==
  ASSUME edgeFaults \in 0 .. MaxEdgeFaults, EdgeFault \/ UNCHANGED edgeFaults
  PROVE  edgeFaults' \in 0 .. MaxEdgeFaults /\ (edgeFaults' = 0 => UNCHANGED edgeFaults)
BY DEF EdgeFault

LEMMA HandlerAtType ==
  ASSUME TypeInv, NEW c \in Handler,
         NEW at \in {"new", "owed", "reading", "writing", "releasing", "deleting", "clearing", "unsiting", "done"},
         HandlerAt(c, at)
  PROVE  handler' \in [Handler -> HandlerType]
<1>1. [handler[c] EXCEPT !.at = at] \in HandlerType
  BY DEF TypeInv, HandlerType
<1> QED
  BY <1>1 DEF TypeInv, HandlerAt

LEMMA EntryGone ==
  ASSUME TypeInv, NEW h \in Host
  PROVE  [kv EXCEPT ![h] = NoRecord] \in [Host -> Entry]
BY NoRecordIsEntry DEF TypeInv

LEMMA OverwriteType ==
  ASSUME TypeInv, NEW records \in Records
  PROVE  Overwrite(records) \in [Host -> Entry]
BY EntryOf DEF TypeInv, Overwrite

LEMMA StillLiveType ==
  ASSUME TypeInv, NEW rows \in SiteRowsType
  PROVE  StillLive(rows) \in SiteBuild \cup {NoBuild}
BY DEF TypeInv, StillLive, SiteRowsType, Project

\* The rows' part.
LEMMA RowsType ==
  ASSUME TypeInv, [EdgeNext]_edgeVars
  PROVE  project' \in Project /\ domain' \in [Domain -> DomainRow]
<1>1. ASSUME NEW c \in Handler, NEW b \in SiteBuild, PutLive(c, b)
      PROVE  project' \in Project /\ domain' \in [Domain -> DomainRow]
  BY <1>1 DEF TypeInv, PutLive, Changes, Project
<1>2. ASSUME NEW c \in Handler, TakeOffline(c)
      PROVE  project' \in Project /\ domain' \in [Domain -> DomainRow]
  BY <1>2 DEF TypeInv, TakeOffline, Changes, Project
<1>3. ASSUME NEW c \in Handler, NEW on \in BOOLEAN, Suspend(c, on)
      PROVE  project' \in Project /\ domain' \in [Domain -> DomainRow]
  BY <1>3 DEF TypeInv, Suspend, Changes, Project
<1>4. ASSUME NEW d \in Domain, AddDomain(d)
      PROVE  project' \in Project /\ domain' \in [Domain -> DomainRow]
  <2>1. [domain[d] EXCEPT !.status = "WAITING"] \in DomainRow
    BY DEF TypeInv, DomainRow
  <2> QED
    BY <1>4, <2>1 DEF TypeInv, AddDomain
<1>5. ASSUME NEW c \in Handler, NEW d \in Domain, Activate(c, d)
      PROVE  project' \in Project /\ domain' \in [Domain -> DomainRow]
  <2>1. [domain[d] EXCEPT !.status = "ACTIVE"] \in DomainRow
    BY DEF TypeInv, DomainRow
  <2> QED
    BY <1>5, <2>1 DEF TypeInv, Activate
<1>6. ASSUME NEW c \in Handler, NEW d \in Domain, NEW on \in BOOLEAN, SetPrimary(c, d, on)
      PROVE  project' \in Project /\ domain' \in [Domain -> DomainRow]
  <2>1. ASSUME NEW e \in Domain
        PROVE  [domain[e] EXCEPT !.primary = on /\ e = d] \in DomainRow
    <3>1. (on /\ e = d) \in BOOLEAN
      OBVIOUS
    <3> QED
      BY <3>1 DEF TypeInv, DomainRow
  <2> QED
    BY <1>6, <2>1 DEF TypeInv, SetPrimary
<1>7. ASSUME NEW c \in Handler, DeleteDomain(c)
      PROVE  project' \in Project /\ domain' \in [Domain -> DomainRow]
  BY <1>7 DEF TypeInv, DeleteDomain, Absent, DomainRow
<1>8. ASSUME NEW c \in Handler, DeleteRows(c)
      PROVE  project' \in Project /\ domain' \in [Domain -> DomainRow]
  BY <1>8, NoneType DEF TypeInv, DeleteRows, Gone, Project
<1>9. CASE UNCHANGED <<project, domain>>
  BY <1>9 DEF TypeInv
<1>10. ASSUME NEW c \in Handler,
              Release(c) \/ (\E d \in Domain : ReleaseOne(c, d)) \/ RemoveSite(c)
                \/ SyncReads(c) \/ SyncReadsBuild(c) \/ SyncWrites(c) \/ BeginDeletion(c) \/ Abandon(c)
                \/ \E d \in Domain : BeginRemoval(c, d)
       PROVE  UNCHANGED <<project, domain>>
  BY <1>10 DEF Abandon, Release, ReleaseOne, RemoveSite, SyncReads, SyncReadsBuild, SyncWrites, BeginDeletion, BeginRemoval
<1>11. ASSUME ReconcileStep \/ ReconcileFails \/ UNCHANGED edgeVars
       PROVE  UNCHANGED <<project, domain>>
  BY <1>11 DEF ReconcileStep, ReconcileFails, ReconcileReads, ReconcileReadsBuild, ReconcileLists,
               ReconcilePuts, ReconcileRemoves, PassUnchanged, edgeVars
<1> QED
  BY <1>1, <1>2, <1>3, <1>4, <1>5, <1>6, <1>7, <1>8, <1>9, <1>10, <1>11 DEF EdgeNext, HandlerStep

\* Cloudflare's part.
LEMMA RecordsType ==
  ASSUME TypeInv, [EdgeNext]_edgeVars
  PROVE  kv' \in [Host -> Entry] /\ edgeFaults' \in 0 .. MaxEdgeFaults
<1>1. ASSUME NEW c \in Handler
      PROVE  handler[c].host \in Host /\ Domain \subseteq Host /\ Default \in Host
             /\ handler[c].write \in Records
  BY DEF TypeInv, HandlerType, Host
<1>2. edgeFaults \in 0 .. MaxEdgeFaults /\ kv \in [Host -> Entry]
  BY DEF TypeInv
<1>3. ASSUME NEW c \in Handler, Release(c)
      PROVE  kv' \in [Host -> Entry] /\ edgeFaults' \in 0 .. MaxEdgeFaults
  <2>1. [kv EXCEPT ![handler[c].host] = NoRecord] \in [Host -> Entry]
    BY <1>1, EntryGone
  <2> QED
    BY <1>2, <1>3, <2>1, FaultType DEF Release
<1>4. ASSUME NEW c \in Handler, NEW d \in Domain, ReleaseOne(c, d)
      PROVE  kv' \in [Host -> Entry] /\ edgeFaults' \in 0 .. MaxEdgeFaults
  <2>1. [kv EXCEPT ![d] = NoRecord] \in [Host -> Entry]
    BY <1>1, EntryGone
  <2> QED
    BY <1>2, <1>4, <2>1, FaultType DEF ReleaseOne
<1>5. ASSUME NEW c \in Handler, RemoveSite(c)
      PROVE  kv' \in [Host -> Entry] /\ edgeFaults' \in 0 .. MaxEdgeFaults
  <2>1. [kv EXCEPT ![Default] = NoRecord] \in [Host -> Entry]
    BY <1>1, EntryGone
  <2> QED
    BY <1>2, <1>5, <2>1, FaultType DEF RemoveSite
<1>6. ASSUME NEW c \in Handler, SyncWrites(c)
      PROVE  kv' \in [Host -> Entry] /\ edgeFaults' \in 0 .. MaxEdgeFaults
  <2>1. Overwrite(handler[c].write) \in [Host -> Entry]
    BY <1>1, OverwriteType
  <2> QED
    BY <1>2, <1>6, <2>1, FaultType DEF SyncWrites
<1>7. ASSUME NEW h \in Host
      PROVE  WantedBy(reconciler, h) \in Entry
  <2>1. reconciler.wanted \in Records
    BY DEF TypeInv, PassType
  <2> QED
    BY <2>1, EntryOf, NoRecordIsEntry DEF WantedBy
<1>8. ASSUME ReconcilePuts \/ ReconcileRemoves
      PROVE  kv' \in [Host -> Entry] /\ edgeFaults' \in 0 .. MaxEdgeFaults
  BY <1>2, <1>7, <1>8, NoRecordIsEntry DEF ReconcilePuts, ReconcileRemoves
<1>9. ASSUME ReconcileFails
      PROVE  kv' \in [Host -> Entry] /\ edgeFaults' \in 0 .. MaxEdgeFaults
  BY <1>2, <1>9, FaultType DEF ReconcileFails
<1>10. ASSUME NEW c \in Handler,
              \/ DeleteDomain(c) \/ DeleteRows(c) \/ SyncReads(c) \/ SyncReadsBuild(c)
              \/ TakeOffline(c) \/ BeginDeletion(c)
              \/ \E b \in SiteBuild : PutLive(c, b)
              \/ \E on \in BOOLEAN : Suspend(c, on) \/ \E d \in Domain : SetPrimary(c, d, on)
              \/ \E d \in Domain : Activate(c, d) \/ BeginRemoval(c, d)
       PROVE  UNCHANGED <<kv, edgeFaults>>
  BY <1>10 DEF DeleteDomain, DeleteRows, SyncReads, SyncReadsBuild, TakeOffline, BeginDeletion, PutLive,
               Suspend, SetPrimary, Activate, BeginRemoval, Changes
<1>11. ASSUME ReconcileReads \/ ReconcileReadsBuild \/ ReconcileLists \/ (\E d \in Domain : AddDomain(d))
                \/ UNCHANGED edgeVars
       PROVE  UNCHANGED <<kv, edgeFaults>>
  BY <1>11 DEF ReconcileReads, ReconcileReadsBuild, ReconcileLists, AddDomain, edgeVars
<1>12. ASSUME NEW c \in Handler, Abandon(c)
       PROVE  kv' \in [Host -> Entry] /\ edgeFaults' \in 0 .. MaxEdgeFaults
  BY <1>2, <1>12, FaultType DEF Abandon
<1> QED
  BY <1>2, <1>3, <1>4, <1>5, <1>6, <1>8, <1>9, <1>10, <1>11, <1>12 DEF EdgeNext, HandlerStep, ReconcileStep

LEMMA HandlersType ==
  ASSUME TypeInv, [EdgeNext]_edgeVars
  PROVE  handler' \in [Handler -> HandlerType]
<1>1. handler \in [Handler -> HandlerType] /\ SiteRows \in SiteRowsType
  BY DEF TypeInv, SiteRows, SiteRowsType
<1>2. ASSUME NEW c \in Handler,
             \/ Release(c) \/ DeleteRows(c) \/ RemoveSite(c) \/ TakeOffline(c)
             \/ \E b \in SiteBuild : PutLive(c, b)
             \/ \E on \in BOOLEAN : Suspend(c, on) \/ \E d \in Domain : SetPrimary(c, d, on)
             \/ \E d \in Domain : Activate(c, d)
      PROVE  handler' \in [Handler -> HandlerType]
  <2>1. HandlerAt(c, "deleting") \/ HandlerAt(c, "unsiting") \/ HandlerAt(c, "done") \/ HandlerAt(c, "owed")
    BY <1>2 DEF Release, DeleteRows, RemoveSite, TakeOffline, PutLive, Suspend, Changes, SetPrimary, Activate
  <2> QED
    BY <2>1, HandlerAtType
<1>3. ASSUME NEW c \in Handler, NEW d \in Domain, BeginRemoval(c, d)
      PROVE  handler' \in [Handler -> HandlerType]
  <2>1. [handler[c] EXCEPT !.at = "releasing", !.rows = SiteRows, !.host = d] \in HandlerType
    BY <1>1 DEF HandlerType, Host
  <2> QED
    BY <1>1, <1>3, <2>1 DEF BeginRemoval
<1>4. ASSUME NEW c \in Handler, DeleteDomain(c)
      PROVE  handler' \in [Handler -> HandlerType]
  <2> DEFINE next == IF domain[handler[c].host].status # "none" /\ handler[c].rows.domain[handler[c].host].primary
                     THEN "owed" ELSE "done"
  <2>1. next \in {"owed", "done"}
    OBVIOUS
  <2>2. handler' = [handler EXCEPT ![c].rows = NoRows, ![c].at = next]
    BY <1>4 DEF DeleteDomain
  <2> HIDE DEF next
  <2>3. [handler[c] EXCEPT !.rows = NoRows, !.at = next] \in HandlerType
    BY <1>1, <2>1, NoneType DEF HandlerType
  <2>4. handler' = [handler EXCEPT ![c] = [handler[c] EXCEPT !.rows = NoRows, !.at = next]]
    BY <1>1, <2>2
  <2> QED
    BY <1>1, <2>3, <2>4
<1>5. ASSUME NEW c \in Handler, BeginDeletion(c)
      PROVE  handler' \in [Handler -> HandlerType]
  <2> DEFINE taken == {d \in Domain : domain[d].status # "none"}
  <2>1. taken \in SUBSET Domain
    OBVIOUS
  <2>2. handler' = [handler EXCEPT ![c].at = "clearing", ![c].hosts = taken]
    BY <1>5 DEF BeginDeletion
  <2> HIDE DEF taken
  <2>3. [handler[c] EXCEPT !.at = "clearing", !.hosts = taken] \in HandlerType
    BY <1>1, <2>1 DEF HandlerType
  <2>4. handler' = [handler EXCEPT ![c] = [handler[c] EXCEPT !.at = "clearing", !.hosts = taken]]
    BY <1>1, <2>2
  <2> QED
    BY <1>1, <2>3, <2>4
<1>6. ASSUME NEW c \in Handler, NEW d \in Domain, ReleaseOne(c, d)
      PROVE  handler' \in [Handler -> HandlerType]
  <2>1. [handler[c] EXCEPT !.hosts = @ \ {d}] \in HandlerType
    BY <1>1 DEF HandlerType
  <2> QED
    BY <1>1, <1>6, <2>1 DEF ReleaseOne
<1>7. ASSUME NEW c \in Handler, SyncReads(c)
      PROVE  handler' \in [Handler -> HandlerType]
  <2>1. [handler[c] EXCEPT !.at = "reading", !.rows = SiteRows] \in HandlerType
    BY <1>1 DEF HandlerType
  <2>2. [handler[c] EXCEPT !.at = "done"] \in HandlerType
    BY <1>1 DEF HandlerType
  <2> QED
    BY <1>1, <1>7, <2>1, <2>2 DEF SyncReads
<1>8. ASSUME NEW c \in Handler, SyncReadsBuild(c)
      PROVE  handler' \in [Handler -> HandlerType]
  <2> DEFINE records == RecordsFor(handler[c].rows, StillLive(handler[c].rows))
  <2>1. handler[c].rows \in SiteRowsType
    BY <1>1 DEF HandlerType
  <2>2. records \in Records
    BY <2>1, StillLiveType, RecordsForType
  <2>3. handler' = [handler EXCEPT ![c].at = "writing", ![c].rows = NoRows, ![c].write = records]
    BY <1>8 DEF SyncReadsBuild
  <2> HIDE DEF records
  <2>4. [handler[c] EXCEPT !.at = "writing", !.rows = NoRows, !.write = records] \in HandlerType
    BY <1>1, <2>2, NoneType DEF HandlerType
  <2>5. handler' = [handler EXCEPT ![c] = [handler[c] EXCEPT !.at = "writing", !.rows = NoRows, !.write = records]]
    BY <1>1, <2>3
  <2> QED
    BY <1>1, <2>4, <2>5
<1>9. ASSUME NEW c \in Handler, SyncWrites(c)
      PROVE  handler' \in [Handler -> HandlerType]
  <2>1. [handler[c] EXCEPT !.at = "done", !.write = <<>>] \in HandlerType
    BY <1>1, NoneType DEF HandlerType
  <2>2. handler' = [handler EXCEPT ![c] = [handler[c] EXCEPT !.at = "done", !.write = <<>>]]
    BY <1>1, <1>9 DEF SyncWrites
  <2> QED
    BY <1>1, <2>1, <2>2
<1>10. ASSUME ReconcileStep \/ ReconcileFails \/ (\E d \in Domain : AddDomain(d)) \/ UNCHANGED edgeVars
       PROVE  UNCHANGED handler
  BY <1>10 DEF ReconcileStep, ReconcileFails, ReconcileReads, ReconcileReadsBuild, ReconcileLists,
               ReconcilePuts, ReconcileRemoves, PassUnchanged, AddDomain, edgeVars
<1>11. ASSUME NEW c \in Handler, Abandon(c)
       PROVE  handler' \in [Handler -> HandlerType]
  <2>1. [IdleHandler EXCEPT !.at = "done"] \in HandlerType
    BY NoneType DEF IdleHandler, HandlerType, Host
  <2> QED
    BY <1>1, <1>11, <2>1 DEF Abandon
<1> QED
  BY <1>1, <1>2, <1>3, <1>4, <1>5, <1>6, <1>7, <1>8, <1>9, <1>10, <1>11 DEF EdgeNext, HandlerStep

LEMMA ReconcilerType ==
  ASSUME TypeInv, [EdgeNext]_edgeVars
  PROVE  reconciler' \in PassType /\ disturbed' \in BOOLEAN
<1>1. /\ reconciler \in PassType /\ disturbed \in BOOLEAN
      /\ SiteRows \in SiteRowsType /\ reconciler.rows \in SiteRowsType
  BY DEF TypeInv, SiteRows, SiteRowsType, PassType
<1>2. IdlePass \in PassType
  BY NoneType DEF IdlePass, PassType
<1>3. ASSUME NEW c \in Handler, Starts(c)
      PROVE  disturbed' \in BOOLEAN
  BY <1>1, <1>3 DEF Starts
<1>4. ASSUME ReconcileReads
      PROVE  reconciler' \in PassType /\ disturbed' \in BOOLEAN
  <2>1. [IdlePass EXCEPT !.at = "reading", !.rows = SiteRows] \in PassType
        /\ [IdlePass EXCEPT !.at = "listing"] \in PassType
    BY <1>1, <1>2 DEF PassType
  <2>2. AnyBusy \in BOOLEAN
    BY Zenon DEF AnyBusy
  <2> QED
    BY <1>1, <1>4, <2>1, <2>2 DEF ReconcileReads
<1>5. ASSUME ReconcileReadsBuild
      PROVE  reconciler' \in PassType /\ disturbed' \in BOOLEAN
  <2> DEFINE records == RecordsFor(reconciler.rows, StillLive(reconciler.rows))
  <2>1. records \in Records
    BY <1>1, StillLiveType, RecordsForType
  <2>2. reconciler' = [IdlePass EXCEPT !.at = "listing", !.wanted = records] /\ UNCHANGED disturbed
    BY <1>5 DEF ReconcileReadsBuild
  <2> HIDE DEF records
  <2> QED
    BY <1>1, <1>2, <2>1, <2>2 DEF PassType
<1>6. ASSUME ReconcileLists
      PROVE  reconciler' \in PassType /\ disturbed' \in BOOLEAN
  <2> DEFINE puts    == {h \in Host : WantedBy(reconciler, h) \notin {NoRecord, kv[h]}}
             removes == {h \in Host : WantedBy(reconciler, h) = NoRecord /\ kv[h] # NoRecord}
  <2>1. puts \in SUBSET Host /\ removes \in SUBSET Host
    OBVIOUS
  <2>2. reconciler' = [reconciler EXCEPT !.at = "putting", !.puts = puts, !.removes = removes] /\ UNCHANGED disturbed
    BY <1>6 DEF ReconcileLists
  <2> HIDE DEF puts, removes
  <2> QED
    BY <1>1, <2>1, <2>2 DEF PassType
<1>7. ASSUME ReconcilePuts
      PROVE  reconciler' \in PassType /\ disturbed' \in BOOLEAN
  BY <1>1, <1>7 DEF ReconcilePuts, PassType
<1>8. ASSUME ReconcileRemoves \/ ReconcileFails
      PROVE  reconciler' \in PassType /\ disturbed' \in BOOLEAN
  BY <1>1, <1>2, <1>8 DEF ReconcileRemoves, ReconcileFails, EdgeFault
<1>9. ASSUME NEW c \in Handler,
             \/ TakeOffline(c) \/ BeginDeletion(c)
             \/ \E b \in SiteBuild : PutLive(c, b)
             \/ \E on \in BOOLEAN : Suspend(c, on) \/ \E d \in Domain : SetPrimary(c, d, on)
             \/ \E d \in Domain : Activate(c, d) \/ BeginRemoval(c, d)
      PROVE  UNCHANGED reconciler /\ Starts(c)
  BY <1>9 DEF TakeOffline, BeginDeletion, PutLive, Suspend, SetPrimary, Activate, BeginRemoval, Changes
<1>10. ASSUME (\E c \in Handler : HandlerStep(c) \/ Abandon(c)) \/ (\E d \in Domain : AddDomain(d))
                \/ UNCHANGED edgeVars
       PROVE  UNCHANGED reconciler /\ disturbed' \in BOOLEAN
  BY <1>1, <1>10 DEF HandlerStep, Abandon, Release, DeleteDomain, ReleaseOne, DeleteRows, RemoveSite, SyncReads,
               SyncReadsBuild, SyncWrites, EdgeFault, AddDomain, edgeVars
<1> QED
  BY <1>1, <1>3, <1>4, <1>5, <1>6, <1>7, <1>8, <1>9, <1>10 DEF EdgeNext, ReconcileStep

LEMMA TypeStep ==
  ASSUME TypeInv, [EdgeNext]_edgeVars
  PROVE  TypeInv'
BY RowsType, RecordsType, HandlersType, ReconcilerType DEF TypeInv

\* The rows, the records and the pushes keep the shapes the code gives them.
THEOREM EdgeTypeCorrect == EdgeSpec => []EdgeTypeOK
<1>1. EdgeInit => TypeInv
  BY TypeInit
<1>2. TypeInv /\ [EdgeNext]_edgeVars => TypeInv'
  BY TypeStep
<1>3. TypeInv => EdgeTypeOK
  BY TypesGive
<1> QED
  BY <1>1, <1>2, <1>3, PTL DEF EdgeSpec

-----------------------------------------------------------------------------
(* One change at a time. *)

LEMMA CalmIsStrayFree ==
  ASSUME kv = Wanted
  PROVE  StrayFree
BY Spelled, StrayWanted DEF StrayFree

\* Handler c, and nobody else, takes a step.
LEMMA OneActs ==
  ASSUME TypeInv', NoOrphans', NEW c \in Handler, Alone(c), UNCHANGED reconciler,
         \A e \in Handler \ {c} : handler'[e] = handler[e],
         HandlerAims(c)', ~Busy(c)' => kv' = Wanted'
  PROVE  SerialInv'
<1>1. Alone(c)'
  BY DEF Alone, Busy
<1>2. \A e \in Handler \ {c} : ~Busy(e)'
  BY DEF Alone, Busy
<1>3. (reconciler.at = "idle")'
  BY DEF Alone
<1> QED
  BY <1>1, <1>2, <1>3 DEF SerialInv, AnyBusy

LEMMA PassActs ==
  ASSUME TypeInv', NoOrphans', PassAlone, UNCHANGED handler, PassAims',
         (reconciler.at = "idle")' => kv' = Wanted'
  PROVE  SerialInv'
<1>1. PassAlone' /\ \A e \in Handler : ~Busy(e)'
  BY DEF PassAlone, Busy
<1> QED
  BY <1>1 DEF SerialInv, AnyBusy

\* A change that starts, starts with what is wanted.
LEMMA Began ==
  ASSUME SerialInv, NEW c \in Handler, Starts(c), UNCHANGED edgeFaults, Serially'
  PROVE  Alone(c) /\ kv = Wanted /\ StrayFree
<1>1. Serially /\ ~AnyBusy /\ reconciler.at = "idle"
  BY DEF Starts, Serially
<1>2. kv = Wanted
  BY <1>1 DEF SerialInv
<1> QED
  BY <1>1, <1>2, CalmIsStrayFree DEF Alone, AnyBusy

LEMMA GoesOn ==
  ASSUME SerialInv, NEW c \in Handler, Busy(c), Serially
  PROVE  Alone(c) /\ HandlerAims(c)
BY DEF SerialInv

LEMMA AtKept ==
  ASSUME TypeInv, NEW c \in Handler, NEW at, HandlerAt(c, at)
  PROVE  /\ handler'[c].at = at /\ handler'[c].rows = handler[c].rows /\ handler'[c].host = handler[c].host
         /\ handler'[c].hosts = handler[c].hosts /\ handler'[c].write = handler[c].write
         /\ \A e \in Handler \ {c} : handler'[e] = handler[e]
BY DEF TypeInv, HandlerAt, HandlerType

\* Rows that a project's domains may not outlive.
LEMMA OrphansStep ==
  ASSUME TypeInv, NoOrphans, [EdgeNext]_edgeVars
  PROVE  NoOrphans'
<1>1. ASSUME NEW c \in Handler, NEW row, Changes(c, row), row.exists
      PROVE  NoOrphans'
  BY <1>1 DEF Changes, NoOrphans
<1>2. ASSUME NEW c \in Handler,
             TakeOffline(c) \/ (\E b \in SiteBuild : PutLive(c, b)) \/ \E on \in BOOLEAN : Suspend(c, on)
      PROVE  NoOrphans'
  <2>1. [project EXCEPT !.live = NoBuild].exists = project.exists
    BY DEF TypeInv, Project
  <2>2. ASSUME NEW b \in SiteBuild
        PROVE  [project EXCEPT !.live = b].exists = project.exists
    BY DEF TypeInv, Project
  <2>3. ASSUME NEW on \in BOOLEAN
        PROVE  [project EXCEPT !.suspended = on].exists = project.exists
    BY DEF TypeInv, Project
  <2> QED
    BY <1>1, <1>2, <2>1, <2>2, <2>3 DEF TakeOffline, PutLive, Suspend, Changes
<1>3. ASSUME NEW d \in Domain, AddDomain(d)
      PROVE  NoOrphans'
  BY <1>3 DEF AddDomain, NoOrphans
<1>4. ASSUME NEW c \in Handler, NEW d \in Domain, Activate(c, d)
      PROVE  NoOrphans'
  BY <1>4 DEF Activate, NoOrphans
<1>5. ASSUME NEW c \in Handler, NEW d \in Domain, NEW on \in BOOLEAN, SetPrimary(c, d, on)
      PROVE  NoOrphans'
  BY <1>5 DEF SetPrimary, NoOrphans
<1>6. ASSUME NEW c \in Handler, DeleteDomain(c)
      PROVE  NoOrphans'
  <2>1. \A d \in Domain : domain'[d] = domain[d] \/ domain'[d].status = "none"
    BY <1>6 DEF DeleteDomain, Absent, TypeInv
  <2>2. UNCHANGED project
    BY <1>6 DEF DeleteDomain
  <2> QED
    BY <2>1, <2>2 DEF NoOrphans
<1>7. ASSUME NEW c \in Handler, DeleteRows(c)
      PROVE  NoOrphans'
  BY <1>7 DEF DeleteRows, NoOrphans, NoRows, Absent
<1>8. ASSUME UNCHANGED <<project, domain>>
      PROVE  NoOrphans'
  BY <1>8 DEF NoOrphans
<1>9. ASSUME NEW c \in Handler,
             Release(c) \/ (\E d \in Domain : ReleaseOne(c, d)) \/ RemoveSite(c)
               \/ SyncReads(c) \/ SyncReadsBuild(c) \/ SyncWrites(c) \/ BeginDeletion(c) \/ Abandon(c)
               \/ \E d \in Domain : BeginRemoval(c, d)
      PROVE  NoOrphans'
  BY <1>8, <1>9 DEF Abandon, Release, ReleaseOne, RemoveSite, SyncReads, SyncReadsBuild, SyncWrites, BeginDeletion, BeginRemoval
<1>10. ASSUME ReconcileStep \/ ReconcileFails \/ UNCHANGED edgeVars
       PROVE  NoOrphans'
  BY <1>8, <1>10 DEF ReconcileStep, ReconcileFails, ReconcileReads, ReconcileReadsBuild, ReconcileLists,
                     ReconcilePuts, ReconcileRemoves, PassUnchanged, edgeVars
<1> QED
  BY <1>2, <1>3, <1>4, <1>5, <1>6, <1>7, <1>9, <1>10 DEF EdgeNext, HandlerStep

\* A change of the project's row, or of a domain's, that leaves a push to make.
LEMMA Owes ==
  ASSUME SerialInv, TypeInv', NoOrphans', NEW c \in Handler, Starts(c), HandlerAt(c, "owed"),
         UNCHANGED <<kv, reconciler, edgeFaults>>, project.exists', ServingIn(domain) \subseteq ServingIn(domain')
  PROVE  SerialInv'
<1>1. CASE ~Serially'
  BY <1>1 DEF SerialInv
<1>2. CASE Serially'
  <2>1. Alone(c) /\ StrayFree
    BY <1>2, Began
  <2>2. handler'[c].at = "owed" /\ \A e \in Handler \ {c} : handler'[e] = handler[e]
    BY AtKept DEF SerialInv
  <2>3. StrayFree'
    BY <2>1 DEF StrayFree
  <2>4. HandlerAims(c)'
    BY <2>2, <2>3 DEF HandlerAims
  <2>5. Busy(c)'
    BY <2>2 DEF Busy
  <2> QED
    BY <2>1, <2>2, <2>4, <2>5, OneActs
<1> QED
  BY <1>1, <1>2

LEMMA RowChanges ==
  ASSUME SerialInv, TypeInv', NoOrphans', NEW c \in Handler,
         \/ TakeOffline(c) \/ (\E b \in SiteBuild : PutLive(c, b)) \/ \E on \in BOOLEAN : Suspend(c, on)
         \/ \E d \in Domain : Activate(c, d) \/ \E on \in BOOLEAN : SetPrimary(c, d, on)
  PROVE  SerialInv'
<1>1. TypeInv /\ NoOrphans /\ domain \in [Domain -> DomainRow] /\ project \in Project
  BY DEF SerialInv, TypeInv
<1>2. CASE \/ TakeOffline(c) \/ (\E b \in SiteBuild : PutLive(c, b)) \/ \E on \in BOOLEAN : Suspend(c, on)
  <2>1. PICK row : Changes(c, row) /\ row.exists = project.exists
    <3>1. \A b \in SiteBuild \cup {NoBuild} : [project EXCEPT !.live = b].exists = project.exists
      BY <1>1 DEF Project
    <3>2. \A on \in BOOLEAN : [project EXCEPT !.suspended = on].exists = project.exists
      BY <1>1 DEF Project
    <3> QED
      BY <1>2, <3>1, <3>2 DEF TakeOffline, PutLive, Suspend
  <2> QED
    BY <2>1, Owes DEF Changes
<1>3. ASSUME NEW d \in Domain, Activate(c, d)
      PROVE  SerialInv'
  <2>1. project.exists
    BY <1>1, <1>3 DEF Activate, NoOrphans
  <2>2. ServingIn(domain) \subseteq ServingIn(domain')
    BY <1>1, <1>3 DEF Activate, ServingIn, DomainRow
  <2> QED
    BY <1>3, <2>1, <2>2, Owes DEF Activate
<1>4. ASSUME NEW d \in Domain, NEW on \in BOOLEAN, SetPrimary(c, d, on)
      PROVE  SerialInv'
  <2>1. project.exists
    BY <1>1, <1>4 DEF SetPrimary, NoOrphans
  <2>2. \A e \in Domain : domain'[e].status = domain[e].status
    BY <1>1, <1>4 DEF SetPrimary, DomainRow
  <2>3. ServingIn(domain) \subseteq ServingIn(domain')
    BY <2>2 DEF ServingIn
  <2> QED
    BY <1>4, <2>1, <2>3, Owes DEF SetPrimary
<1> QED
  BY <1>2, <1>3, <1>4

LEMMA AddDomainStep ==
  ASSUME SerialInv, TypeInv', NoOrphans', NEW d \in Domain, AddDomain(d)
  PROVE  SerialInv'
<1>1. domain \in [Domain -> DomainRow] /\ domain[d].status = "none"
  BY DEF SerialInv, TypeInv, AddDomain
<1>2. UNCHANGED <<project, kv, handler, reconciler, disturbed, edgeFaults>>
  BY DEF AddDomain
<1>3. /\ \A e \in Domain \ {d} : domain'[e] = domain[e]
      /\ domain'[d].status = "WAITING" /\ domain'[d].primary = domain[d].primary
  BY <1>1 DEF AddDomain, DomainRow
<1>4. ServingIn(domain') = ServingIn(domain)
  BY <1>1, <1>3 DEF ServingIn
<1>5. PrimariesIn(domain') = PrimariesIn(domain)
  BY <1>3, <1>4 DEF PrimariesIn, ServingIn
<1>6. Wanted' = Wanted
  BY <1>2, <1>4, <1>5, SameWanted, Spelled, SpelledNext
<1>7. ASSUME NEW c \in Handler, Busy(c), Alone(c), HandlerAims(c)
      PROVE  Alone(c)' /\ HandlerAims(c)'
  <2>1. Alone(c)'
    BY <1>2, <1>7 DEF Alone, Busy
  <2>2. StrayFree => StrayFree'
    BY <1>2, <1>4 DEF StrayFree
  <2>3. ASSUME NEW rows, SameSite(rows)
        PROVE  rows.project = project' /\ ServingIn(rows.domain) = ServingIn(domain')
               /\ PrimariesIn(rows.domain) = PrimariesIn(domain')
    BY <1>2, <1>4, <1>5, <2>3 DEF SameSite
  <2>4. ASSUME handler[c].at \in {"releasing", "deleting"}
        PROVE  domain'[handler[c].host].status # "none"
               /\ handler[c].rows.domain[handler[c].host].primary = domain'[handler[c].host].primary
    BY <1>1, <1>3, <1>7, <2>4 DEF HandlerAims
  <2>5. SameSite(handler[c].rows) => SameSite(handler[c].rows)'
    BY <1>2, <2>3 DEF SameSite
  <2>6. (handler[c].at = "owed")' => (project.exists /\ StrayFree)'
    BY <1>2, <1>7, <2>2 DEF HandlerAims
  <2>7. (handler[c].at = "reading")' => (project.exists /\ StrayFree /\ SameSite(handler[c].rows))'
    BY <1>2, <1>7, <2>2, <2>5 DEF HandlerAims
  <2>8. (handler[c].at = "writing")' =>
          (/\ project.exists /\ StrayFree
           /\ DOMAIN handler[c].write = ServingIn(domain)
           /\ \A h \in ServingIn(domain) : handler[c].write[h] = Wanted[h])'
    BY <1>2, <1>4, <1>6, <1>7, <2>2 DEF HandlerAims
  <2> QED
    BY <1>2, <1>6, <1>7, <2>1, <2>4, <2>6, <2>7, <2>8 DEF HandlerAims
<1>8. ASSUME PassAims
      PROVE  PassAims'
  <2>1. reconciler.at = "reading" => SameSite(reconciler.rows)'
    BY <1>2, <1>4, <1>5, <1>8 DEF SameSite, PassAims
  <2>2. \A h \in Host : WantedBy(reconciler, h)' = WantedBy(reconciler, h)
    BY <1>2 DEF WantedBy
  <2>3. (reconciler.at \in {"listing", "putting"} => \A h \in Host : WantedBy(reconciler, h) = Wanted[h])'
    BY <1>2, <1>6, <1>8, <2>2 DEF PassAims
  <2>4. (reconciler.at = "reading" => project.exists)'
    BY <1>2, <1>8 DEF PassAims
  <2>5. \A h \in Host : reconciler'.at = "putting" =>
          (/\ h \in reconciler'.puts <=> Wanted'[h] \notin {NoRecord, kv'[h]}
           /\ h \in reconciler'.removes <=> Wanted'[h] = NoRecord /\ kv'[h] # NoRecord)
    BY <1>2, <1>6, <1>8 DEF PassAims
  <2>6. \A h \in Host : reconciler'.at = "removing" =>
          IF h \in reconciler'.removes THEN Wanted'[h] = NoRecord ELSE kv'[h] = Wanted'[h]
    BY <1>2, <1>6, <1>8 DEF PassAims
  <2> QED
    BY <1>2, <2>1, <2>3, <2>4, <2>5, <2>6 DEF PassAims
<1>9. PassAlone' = PassAlone /\ AnyBusy' = AnyBusy /\ Serially' = Serially
  BY <1>2 DEF PassAlone, AnyBusy, Busy, Serially
<1>10. \A c \in Handler : Busy(c)' = Busy(c)
  BY <1>2 DEF Busy
<1> QED
  BY <1>2, <1>6, <1>7, <1>8, <1>9, <1>10 DEF SerialInv

LEMMA BeginRemovalStep ==
  ASSUME SerialInv, TypeInv', NoOrphans', NEW c \in Handler, NEW d \in Domain, BeginRemoval(c, d)
  PROVE  SerialInv'
<1>1. CASE ~Serially'
  BY <1>1 DEF SerialInv
<1>2. CASE Serially'
  <2>1. Alone(c) /\ kv = Wanted
    BY <1>2, Began DEF BeginRemoval
  <2>2. handler \in [Handler -> HandlerType]
    BY DEF SerialInv, TypeInv
  <2>3. /\ handler'[c].at = "releasing" /\ handler'[c].rows = SiteRows /\ handler'[c].host = d
        /\ \A e \in Handler \ {c} : handler'[e] = handler[e]
    BY <2>2 DEF BeginRemoval, HandlerType
  <2>4. UNCHANGED <<project, domain, kv, reconciler>> /\ domain[d].status # "none"
    BY DEF BeginRemoval
  <2>5. kv' = Wanted'
    BY <2>1, <2>4, Spelled, SpelledNext
  <2>6. SiteRows.domain = domain
    BY DEF SiteRows
  <2>7. HandlerAims(c)'
    BY <2>3, <2>4, <2>5, <2>6 DEF HandlerAims
  <2> QED
    BY <2>1, <2>3, <2>4, <2>5, <2>7, OneActs
<1> QED
  BY <1>1, <1>2

LEMMA ReleaseStep ==
  ASSUME SerialInv, TypeInv', NoOrphans', NEW c \in Handler, Release(c)
  PROVE  SerialInv'
<1>1. CASE ~Serially'
  BY <1>1 DEF SerialInv
<1>2. CASE Serially'
  <2>1. edgeFaults \in 0 .. MaxEdgeFaults /\ kv \in [Host -> Entry] /\ TypeInv
    BY DEF SerialInv, TypeInv
  <2>2. Serially /\ kv' = [kv EXCEPT ![handler[c].host] = NoRecord]
    BY <1>2, <2>1 DEF Release, Serially, EdgeFault
  <2>3. Busy(c) /\ handler[c].at = "releasing" /\ UNCHANGED <<project, domain, reconciler>>
    BY DEF Release, Busy
  <2>4. Alone(c) /\ HandlerAims(c)
    BY <2>2, <2>3, GoesOn
  <2>5. Wanted' = Wanted
    BY <2>3, Spelled, SpelledNext
  <2>6. /\ handler'[c].at = "deleting" /\ handler'[c].rows = handler[c].rows /\ handler'[c].host = handler[c].host
        /\ \A e \in Handler \ {c} : handler'[e] = handler[e]
    BY <2>1, AtKept DEF Release
  <2>7. kv = Wanted
    BY <2>3, <2>4 DEF HandlerAims
  <2>8. \A h \in Host : kv'[h] = IF h = handler[c].host THEN NoRecord ELSE Wanted[h]
    BY <2>1, <2>2, <2>7
  <2>9. HandlerAims(c)'
    BY <2>3, <2>4, <2>5, <2>6, <2>8 DEF HandlerAims
  <2>10. Busy(c)'
    BY <2>6 DEF Busy
  <2> QED
    BY <2>3, <2>4, <2>6, <2>9, <2>10, OneActs
<1> QED
  BY <1>1, <1>2

LEMMA DeleteDomainStep ==
  ASSUME SerialInv, TypeInv', NoOrphans', NEW c \in Handler, DeleteDomain(c)
  PROVE  SerialInv'
<1>1. CASE ~Serially'
  BY <1>1 DEF SerialInv
<1>2. CASE Serially'
  <2> DEFINE d == handler[c].host
             p == handler[c].rows.domain[d].primary
  <2>1. TypeInv /\ NoOrphans /\ domain \in [Domain -> DomainRow] /\ kv \in [Host -> Entry]
        /\ handler \in [Handler -> HandlerType]
    BY DEF SerialInv, TypeInv
  <2>2. Serially /\ Busy(c) /\ handler[c].at = "deleting" /\ UNCHANGED <<project, kv, reconciler>>
        /\ domain' = [domain EXCEPT ![d] = Absent]
    BY <1>2 DEF DeleteDomain, Busy, Serially
  <2>3. Alone(c) /\ HandlerAims(c)
    BY <2>2, GoesOn
  <2>4. /\ d \in Domain /\ domain[d].status # "none" /\ p = domain[d].primary
        /\ \A h \in Host : kv[h] = IF h = d THEN NoRecord ELSE Wanted[h]
    BY <2>2, <2>3 DEF HandlerAims
  <2>5. project.exists
    BY <2>1, <2>4 DEF NoOrphans
  <2>6. handler'[c].at = (IF p THEN "owed" ELSE "done") /\ \A e \in Handler \ {c} : handler'[e] = handler[e]
    BY <2>1, <2>4 DEF DeleteDomain, HandlerType
  <2>7. ServingIn(domain') = ServingIn(domain) \ {d} /\ \A e \in Domain \ {d} : domain'[e] = domain[e]
    <3>1. domain'[d].status = "none" /\ \A e \in Domain \ {d} : domain'[e] = domain[e]
      BY <2>1, <2>2, <2>4 DEF Absent
    <3>2. d # Default
      BY <2>4
    <3> QED
      BY <3>1, <3>2 DEF ServingIn
  <2> HIDE DEF d, p
  <2>8. CASE p
    <3>1. ASSUME NEW h \in Host, h \notin ServingIn(domain')
          PROVE  kv'[h] = NoRecord
      <4>1. CASE h = d
        BY <2>2, <2>4, <4>1
      <4>2. CASE h # d
        <5>1. h \notin ServingIn(domain)
          BY <2>7, <3>1, <4>2
        <5>2. Wanted[h] = NoRecord
          BY <5>1, Spelled, StrayWanted
        <5> QED
          BY <2>2, <2>4, <4>2, <5>2
      <4> QED
        BY <4>1, <4>2
    <3>2. handler'[c].at = "owed" /\ StrayFree' /\ project'.exists
      BY <2>2, <2>5, <2>6, <2>8, <3>1 DEF StrayFree
    <3>3. HandlerAims(c)' /\ Busy(c)'
      BY <3>2 DEF HandlerAims, Busy
    <3> QED
      BY <2>2, <2>3, <2>6, <3>3, OneActs
  <2>9. CASE ~p
    <3>1. PrimariesIn(domain') = PrimariesIn(domain)
      BY <2>4, <2>7, <2>9 DEF PrimariesIn, ServingIn
    <3>2. ASSUME NEW h \in Host
          PROVE  kv'[h] = Wanted'[h]
      <4>1. CASE h = d
        <5>1. h \notin ServingIn(domain')
          BY <2>7, <4>1
        <5>2. Wanted'[h] = NoRecord
          BY <5>1, SpelledNext, StrayWanted
        <5> QED
          BY <2>2, <2>4, <4>1, <5>2
      <4>2. CASE h # d
        <5>1. h \in ServingIn(domain') <=> h \in ServingIn(domain)
          BY <2>7, <4>2
        <5>2. Wanted[h] = Value(ServingIn(domain), PrimariesIn(domain), project, h)
          BY Spelled, WantedAt
        <5>3. Wanted'[h] = Value(ServingIn(domain'), PrimariesIn(domain'), project', h)
          BY SpelledNext, WantedAt
        <5>4. Wanted'[h] = Wanted[h]
          BY <2>2, <3>1, <5>1, <5>2, <5>3 DEF Value
        <5> QED
          BY <2>2, <2>4, <4>2, <5>4
      <4> QED
        BY <4>1, <4>2
    <3>3. kv' = Wanted'
      BY <2>1, <2>2, <3>2, SpelledNext DEF WantedOf
    <3>4. handler'[c].at = "done"
      BY <2>6, <2>9
    <3>5. HandlerAims(c)'
      BY <3>4 DEF HandlerAims
    <3> QED
      BY <2>2, <2>3, <2>6, <3>3, <3>5, OneActs
  <2> QED
    BY <2>8, <2>9
<1> QED
  BY <1>1, <1>2

LEMMA BeginDeletionStep ==
  ASSUME SerialInv, TypeInv', NoOrphans', NEW c \in Handler, BeginDeletion(c)
  PROVE  SerialInv'
<1>1. CASE ~Serially'
  BY <1>1 DEF SerialInv
<1>2. CASE Serially'
  <2> DEFINE taken == {d \in Domain : domain[d].status # "none"}
  <2>1. Alone(c) /\ StrayFree
    BY <1>2, Began DEF BeginDeletion
  <2>2. handler \in [Handler -> HandlerType] /\ UNCHANGED <<kv, reconciler>>
        /\ handler' = [handler EXCEPT ![c].at = "clearing", ![c].hosts = taken]
    BY DEF SerialInv, TypeInv, BeginDeletion
  <2>3. ASSUME NEW d \in Domain, d \notin taken
        PROVE  kv[d] = NoRecord
    <3>1. d \in Host /\ d # Default /\ domain[d].status = "none"
      BY <2>3 DEF Host
    <3>2. d \notin ServingIn(domain)
      BY <3>1 DEF ServingIn
    <3> QED
      BY <2>1, <3>1, <3>2 DEF StrayFree
  <2> HIDE DEF taken
  <2>4. /\ handler'[c].at = "clearing" /\ handler'[c].hosts = taken
        /\ \A e \in Handler \ {c} : handler'[e] = handler[e]
    BY <2>2 DEF HandlerType
  <2>5. HandlerAims(c)' /\ Busy(c)'
    BY <2>2, <2>3, <2>4 DEF HandlerAims, Busy
  <2> QED
    BY <2>1, <2>2, <2>4, <2>5, OneActs
<1> QED
  BY <1>1, <1>2

LEMMA ReleaseOneStep ==
  ASSUME SerialInv, TypeInv', NoOrphans', NEW c \in Handler, NEW d \in Domain, ReleaseOne(c, d)
  PROVE  SerialInv'
<1>1. CASE ~Serially'
  BY <1>1 DEF SerialInv
<1>2. CASE Serially'
  <2>1. edgeFaults \in 0 .. MaxEdgeFaults /\ kv \in [Host -> Entry] /\ handler \in [Handler -> HandlerType]
    BY DEF SerialInv, TypeInv
  <2>2. Serially /\ kv' = [kv EXCEPT ![d] = NoRecord] /\ UNCHANGED <<project, domain, reconciler>>
        /\ handler' = [handler EXCEPT ![c].hosts = @ \ {d}]
    BY <1>2, <2>1 DEF ReleaseOne, Serially, EdgeFault
  <2>3. Busy(c) /\ handler[c].at = "clearing"
    BY DEF ReleaseOne, Busy
  <2>4. Alone(c) /\ \A e \in Domain \ handler[c].hosts : kv[e] = NoRecord
    BY <2>2, <2>3, GoesOn DEF HandlerAims
  <2>5. /\ handler'[c].at = "clearing" /\ handler'[c].hosts = handler[c].hosts \ {d}
        /\ \A e \in Handler \ {c} : handler'[e] = handler[e]
    BY <2>1, <2>2, <2>3 DEF HandlerType
  <2>6. \A e \in Domain \ handler'[c].hosts : kv'[e] = NoRecord
    BY <2>1, <2>2, <2>4, <2>5 DEF Host
  <2>7. HandlerAims(c)' /\ Busy(c)'
    BY <2>5, <2>6 DEF HandlerAims, Busy
  <2> QED
    BY <2>2, <2>4, <2>5, <2>7, OneActs
<1> QED
  BY <1>1, <1>2

LEMMA DeleteRowsStep ==
  ASSUME SerialInv, TypeInv', NoOrphans', NEW c \in Handler, DeleteRows(c)
  PROVE  SerialInv'
<1>1. CASE ~Serially'
  BY <1>1 DEF SerialInv
<1>2. CASE Serially'
  <2>1. Serially /\ Busy(c) /\ handler[c].at = "clearing" /\ handler[c].hosts = {}
        /\ UNCHANGED <<kv, reconciler>> /\ project' = Gone
    BY <1>2 DEF DeleteRows, Busy, Serially
  <2>2. Alone(c) /\ \A d \in Domain : kv[d] = NoRecord
    BY <2>1, GoesOn DEF HandlerAims
  <2>3. handler'[c].at = "unsiting" /\ \A e \in Handler \ {c} : handler'[e] = handler[e]
    BY AtKept DEF DeleteRows, SerialInv
  <2>4. HandlerAims(c)' /\ Busy(c)'
    BY <2>1, <2>2, <2>3 DEF HandlerAims, Busy, Gone
  <2> QED
    BY <2>1, <2>2, <2>3, <2>4, OneActs
<1> QED
  BY <1>1, <1>2

LEMMA RemoveSiteStep ==
  ASSUME SerialInv, TypeInv', NoOrphans', NEW c \in Handler, RemoveSite(c)
  PROVE  SerialInv'
<1>1. CASE ~Serially'
  BY <1>1 DEF SerialInv
<1>2. CASE Serially'
  <2>1. edgeFaults \in 0 .. MaxEdgeFaults /\ kv \in [Host -> Entry] /\ TypeInv
    BY DEF SerialInv, TypeInv
  <2>2. Serially /\ kv' = [kv EXCEPT ![Default] = NoRecord] /\ UNCHANGED <<project, domain, reconciler>>
    BY <1>2, <2>1 DEF RemoveSite, Serially, EdgeFault
  <2>3. Busy(c) /\ handler[c].at = "unsiting"
    BY DEF RemoveSite, Busy
  <2>4. Alone(c) /\ ~project.exists /\ \A d \in Domain : kv[d] = NoRecord
    BY <2>2, <2>3, GoesOn DEF HandlerAims
  <2>5. handler'[c].at = "done" /\ \A e \in Handler \ {c} : handler'[e] = handler[e]
    BY <2>1, AtKept DEF RemoveSite
  <2>6. kv' = [h \in Host |-> NoRecord]
    BY <2>1, <2>2, <2>4 DEF Host
  <2>7. kv' = Wanted'
    BY <2>2, <2>4, <2>6, SpelledNext, NothingWanted
  <2>8. HandlerAims(c)'
    BY <2>5 DEF HandlerAims
  <2> QED
    BY <2>2, <2>4, <2>5, <2>7, <2>8, OneActs
<1> QED
  BY <1>1, <1>2

LEMMA SyncReadsStep ==
  ASSUME SerialInv, TypeInv', NoOrphans', NEW c \in Handler, SyncReads(c)
  PROVE  SerialInv'
<1>1. CASE ~Serially'
  BY <1>1 DEF SerialInv
<1>2. CASE Serially'
  <2>1. Serially /\ Busy(c) /\ handler[c].at = "owed" /\ UNCHANGED <<project, domain, kv, reconciler>>
    BY <1>2 DEF SyncReads, Busy, Serially
  <2>2. Alone(c) /\ project.exists /\ StrayFree
    BY <2>1, GoesOn DEF HandlerAims
  <2>3. handler \in [Handler -> HandlerType]
    BY DEF SerialInv, TypeInv
  <2>4. /\ handler'[c].at = "reading" /\ handler'[c].rows = SiteRows
        /\ \A e \in Handler \ {c} : handler'[e] = handler[e]
    BY <2>2, <2>3 DEF SyncReads, HandlerType
  <2>5. SameSite(handler[c].rows)'
    BY <2>1, <2>4 DEF SameSite, SiteRows
  <2>6. StrayFree'
    BY <2>1, <2>2 DEF StrayFree
  <2>7. HandlerAims(c)' /\ Busy(c)'
    BY <2>1, <2>2, <2>4, <2>5, <2>6 DEF HandlerAims, Busy
  <2> QED
    BY <2>1, <2>2, <2>4, <2>7, OneActs
<1> QED
  BY <1>1, <1>2

\* The records made of rows that still stand.
LEMMA RecordsMade ==
  ASSUME NEW rows, SameSite(rows), project.exists
  PROVE  /\ DOMAIN RecordsFor(rows, StillLive(rows)) = ServingIn(domain)
         /\ \A h \in ServingIn(domain) : RecordsFor(rows, StillLive(rows))[h] = Wanted[h]
<1>1. StillLive(rows) = rows.project.live
  BY DEF StillLive, SameSite
<1>2. DOMAIN RecordsFor(rows, StillLive(rows)) = ServingIn(domain)
  BY ServingSpelled DEF RecordsFor, SameSite
<1>3. ASSUME NEW h \in ServingIn(domain)
      PROVE  RecordsFor(rows, rows.project.live)[h] = Wanted[h]
  <2>1. RecordsFor(rows, rows.project.live)[h]
          = Value(ServingIn(rows.domain), PrimariesIn(rows.domain), rows.project, h)
    BY <1>3, RecordsForIs DEF SameSite
  <2>2. h \in Host
    BY <1>3 DEF ServingIn, Host
  <2>3. Wanted[h] = Value(ServingIn(domain), PrimariesIn(domain), project, h)
    BY <2>2, Spelled, WantedAt
  <2> QED
    BY <2>1, <2>3 DEF SameSite
<1> QED
  BY <1>1, <1>2, <1>3

LEMMA SyncReadsBuildStep ==
  ASSUME SerialInv, TypeInv', NoOrphans', NEW c \in Handler, SyncReadsBuild(c)
  PROVE  SerialInv'
<1>1. CASE ~Serially'
  BY <1>1 DEF SerialInv
<1>2. CASE Serially'
  <2> DEFINE records == RecordsFor(handler[c].rows, StillLive(handler[c].rows))
  <2>1. Serially /\ Busy(c) /\ handler[c].at = "reading" /\ UNCHANGED <<project, domain, kv, reconciler>>
        /\ handler' = [handler EXCEPT ![c].at = "writing", ![c].rows = NoRows, ![c].write = records]
    BY <1>2 DEF SyncReadsBuild, Busy, Serially
  <2>2. Alone(c) /\ project.exists /\ StrayFree /\ SameSite(handler[c].rows)
    BY <2>1, GoesOn DEF HandlerAims
  <2>3. DOMAIN records = ServingIn(domain) /\ \A h \in ServingIn(domain) : records[h] = Wanted[h]
    BY <2>2, RecordsMade
  <2> HIDE DEF records
  <2>4. handler \in [Handler -> HandlerType]
    BY DEF SerialInv, TypeInv
  <2>5. /\ handler'[c].at = "writing" /\ handler'[c].write = records
        /\ \A e \in Handler \ {c} : handler'[e] = handler[e]
    BY <2>1, <2>4 DEF HandlerType
  <2>6. Wanted' = Wanted
    BY <2>1, Spelled, SpelledNext
  <2>7. StrayFree'
    BY <2>1, <2>2 DEF StrayFree
  <2>8. HandlerAims(c)' /\ Busy(c)'
    BY <2>1, <2>2, <2>3, <2>5, <2>6, <2>7 DEF HandlerAims, Busy
  <2> QED
    BY <2>1, <2>2, <2>5, <2>8, OneActs
<1> QED
  BY <1>1, <1>2

LEMMA SyncWritesStep ==
  ASSUME SerialInv, TypeInv', NoOrphans', NEW c \in Handler, SyncWrites(c)
  PROVE  SerialInv'
<1>1. CASE ~Serially'
  BY <1>1 DEF SerialInv
<1>2. CASE Serially'
  <2> DEFINE records == handler[c].write
  <2>1. edgeFaults \in 0 .. MaxEdgeFaults /\ kv \in [Host -> Entry] /\ handler \in [Handler -> HandlerType]
    BY DEF SerialInv, TypeInv
  <2>2. Serially /\ kv' = Overwrite(records) /\ UNCHANGED <<project, domain, reconciler>>
        /\ handler' = [handler EXCEPT ![c].at = "done", ![c].write = <<>>]
    BY <1>2, <2>1 DEF SyncWrites, Serially, EdgeFault
  <2>3. Busy(c) /\ handler[c].at = "writing"
    BY DEF SyncWrites, Busy
  <2>4. /\ Alone(c) /\ StrayFree /\ DOMAIN records = ServingIn(domain)
        /\ \A h \in ServingIn(domain) : records[h] = Wanted[h]
    BY <2>2, <2>3, GoesOn DEF HandlerAims
  <2>5. Wanted' = Wanted
    BY <2>2, Spelled, SpelledNext
  <2>6. ASSUME NEW h \in Host
        PROVE  kv'[h] = Wanted'[h]
    <3>1. CASE h \in ServingIn(domain)
      BY <2>2, <2>4, <2>5, <3>1 DEF Overwrite
    <3>2. CASE h \notin ServingIn(domain)
      <4>1. Wanted[h] = NoRecord
        BY <3>2, Spelled, StrayWanted
      <4>2. kv[h] = NoRecord
        BY <2>4, <3>2 DEF StrayFree
      <4> QED
        BY <2>2, <2>4, <2>5, <3>2, <4>1, <4>2 DEF Overwrite
    <3> QED
      BY <3>1, <3>2
  <2>7. kv' = Wanted'
    BY <2>2, <2>6, SpelledNext DEF WantedOf, Overwrite
  <2>8. handler'[c].at = "done" /\ \A e \in Handler \ {c} : handler'[e] = handler[e]
    BY <2>1, <2>2 DEF HandlerType
  <2>9. HandlerAims(c)'
    BY <2>8 DEF HandlerAims
  <2> QED
    BY <2>2, <2>4, <2>7, <2>8, <2>9, OneActs
<1> QED
  BY <1>1, <1>2

-----------------------------------------------------------------------------
(* A pass of the reconciler that is alone repairs what it finds. *)

LEMMA ReconcileReadsStep ==
  ASSUME SerialInv, TypeInv', NoOrphans', ReconcileReads
  PROVE  SerialInv'
<1>1. CASE ~Serially'
  BY <1>1 DEF SerialInv
<1>2. CASE Serially'
  <2>1. ~AnyBusy /\ reconciler.at = "idle" /\ UNCHANGED <<project, domain, kv, handler>>
    BY <1>2 DEF ReconcileReads, PassUnchanged, Serially
  <2>2. PassAlone /\ Wanted' = Wanted
    BY <2>1, Spelled, SpelledNext DEF AnyBusy, PassAlone
  <2>3. CASE project.exists
    <3>1. reconciler'.at = "reading" /\ reconciler'.rows = SiteRows
      BY <2>3 DEF ReconcileReads, IdlePass
    <3>2. SameSite(reconciler.rows)'
      BY <2>1, <3>1 DEF SameSite, SiteRows
    <3>3. PassAims'
      BY <2>1, <2>3, <3>1, <3>2 DEF PassAims
    <3> QED
      BY <2>1, <2>2, <3>1, <3>3, PassActs
  <2>4. CASE ~project.exists
    <3>1. reconciler'.at = "listing" /\ reconciler'.wanted = <<>>
      BY <2>4 DEF ReconcileReads, IdlePass
    <3>2. \A h \in Host : WantedBy(reconciler, h)' = NoRecord
      BY <3>1 DEF WantedBy
    <3>3. \A h \in Host : Wanted[h] = NoRecord
      BY <2>4, Spelled, NothingWanted
    <3>4. PassAims'
      BY <2>1, <2>2, <3>1, <3>2, <3>3 DEF PassAims
    <3> QED
      BY <2>1, <2>2, <3>1, <3>4, PassActs
  <2> QED
    BY <2>3, <2>4
<1> QED
  BY <1>1, <1>2

LEMMA PassGoesOn ==
  ASSUME SerialInv, Serially, reconciler.at # "idle"
  PROVE  PassAlone /\ PassAims
BY DEF SerialInv

LEMMA ReconcileReadsBuildStep ==
  ASSUME SerialInv, TypeInv', NoOrphans', ReconcileReadsBuild
  PROVE  SerialInv'
<1>1. CASE ~Serially'
  BY <1>1 DEF SerialInv
<1>2. CASE Serially'
  <2> DEFINE records == RecordsFor(reconciler.rows, StillLive(reconciler.rows))
  <2>1. Serially /\ reconciler.at = "reading" /\ UNCHANGED <<project, domain, kv, handler>>
        /\ reconciler' = [IdlePass EXCEPT !.at = "listing", !.wanted = records]
    BY <1>2 DEF ReconcileReadsBuild, PassUnchanged, Serially
  <2>2. PassAlone /\ project.exists /\ SameSite(reconciler.rows) /\ Wanted' = Wanted
    BY <2>1, PassGoesOn, Spelled, SpelledNext DEF PassAims
  <2>3. DOMAIN records = ServingIn(domain) /\ \A h \in ServingIn(domain) : records[h] = Wanted[h]
    BY <2>2, RecordsMade
  <2> HIDE DEF records
  <2>4. reconciler'.at = "listing" /\ reconciler'.wanted = records
    BY <2>1 DEF IdlePass
  <2>5. ASSUME NEW h \in Host
        PROVE  WantedBy(reconciler, h)' = Wanted'[h]
    <3>1. h \notin ServingIn(domain) => Wanted[h] = NoRecord
      BY Spelled, StrayWanted
    <3> QED
      BY <2>2, <2>3, <2>4, <3>1 DEF WantedBy
  <2>6. PassAims'
    BY <2>4, <2>5 DEF PassAims
  <2> QED
    BY <2>1, <2>2, <2>4, <2>6, PassActs
<1> QED
  BY <1>1, <1>2

LEMMA ReconcileListsStep ==
  ASSUME SerialInv, TypeInv', NoOrphans', ReconcileLists
  PROVE  SerialInv'
<1>1. CASE ~Serially'
  BY <1>1 DEF SerialInv
<1>2. CASE Serially'
  <2> DEFINE puts    == {h \in Host : WantedBy(reconciler, h) \notin {NoRecord, kv[h]}}
             removes == {h \in Host : WantedBy(reconciler, h) = NoRecord /\ kv[h] # NoRecord}
  <2>1. Serially /\ reconciler.at = "listing" /\ UNCHANGED <<project, domain, kv, handler>>
        /\ reconciler' = [reconciler EXCEPT !.at = "putting", !.puts = puts, !.removes = removes]
    BY <1>2 DEF ReconcileLists, PassUnchanged, Serially
  <2>2. PassAlone /\ (\A h \in Host : WantedBy(reconciler, h) = Wanted[h]) /\ Wanted' = Wanted
    BY <2>1, PassGoesOn, Spelled, SpelledNext DEF PassAims
  <2>3. \A h \in Host : /\ h \in puts <=> Wanted[h] \notin {NoRecord, kv[h]}
                        /\ h \in removes <=> Wanted[h] = NoRecord /\ kv[h] # NoRecord
    BY <2>2
  <2> HIDE DEF puts, removes
  <2>4. /\ reconciler'.at = "putting" /\ reconciler'.puts = puts /\ reconciler'.removes = removes
        /\ reconciler'.wanted = reconciler.wanted
    BY <2>1 DEF SerialInv, TypeInv, PassType
  <2>5. \A h \in Host : WantedBy(reconciler, h)' = Wanted'[h]
    BY <2>2, <2>4 DEF WantedBy
  <2>6. PassAims'
    BY <2>1, <2>2, <2>3, <2>4, <2>5 DEF PassAims
  <2> QED
    BY <2>1, <2>2, <2>4, <2>6, PassActs
<1> QED
  BY <1>1, <1>2

LEMMA ReconcilePutsStep ==
  ASSUME SerialInv, TypeInv', NoOrphans', ReconcilePuts
  PROVE  SerialInv'
<1>1. CASE ~Serially'
  BY <1>1 DEF SerialInv
<1>2. CASE Serially'
  <2>1. /\ Serially /\ reconciler.at = "putting" /\ UNCHANGED <<project, domain, handler>>
        /\ kv' = [h \in Host |-> IF h \in reconciler.puts THEN WantedBy(reconciler, h) ELSE kv[h]]
    BY <1>2 DEF ReconcilePuts, PassUnchanged, Serially
  <2>2. PassAlone /\ PassAims /\ Wanted' = Wanted
    BY <2>1, PassGoesOn, Spelled, SpelledNext
  <2>3. reconciler'.at = "removing" /\ reconciler'.removes = reconciler.removes
    BY DEF ReconcilePuts, SerialInv, TypeInv, PassType
  <2>4. ASSUME NEW h \in Host
        PROVE  IF h \in reconciler.removes THEN Wanted[h] = NoRecord ELSE kv'[h] = Wanted[h]
    BY <2>1, <2>2 DEF PassAims
  <2>5. PassAims'
    BY <2>2, <2>3, <2>4 DEF PassAims
  <2> QED
    BY <2>1, <2>2, <2>3, <2>5, PassActs
<1> QED
  BY <1>1, <1>2

LEMMA ReconcileRemovesStep ==
  ASSUME SerialInv, TypeInv', NoOrphans', ReconcileRemoves
  PROVE  SerialInv'
<1>1. CASE ~Serially'
  BY <1>1 DEF SerialInv
<1>2. CASE Serially'
  <2>1. /\ Serially /\ reconciler.at = "removing" /\ UNCHANGED <<project, domain, handler>>
        /\ kv' = [h \in Host |-> IF h \in reconciler.removes THEN NoRecord ELSE kv[h]]
    BY <1>2 DEF ReconcileRemoves, PassUnchanged, Serially
  <2>2. PassAlone /\ PassAims /\ Wanted' = Wanted
    BY <2>1, PassGoesOn, Spelled, SpelledNext
  <2>3. reconciler'.at = "idle"
    BY DEF ReconcileRemoves, IdlePass
  <2>4. \A h \in Host : kv'[h] = Wanted'[h]
    BY <2>1, <2>2 DEF PassAims
  <2>5. kv' = Wanted'
    BY <2>1, <2>4, SpelledNext DEF WantedOf
  <2>6. PassAims'
    BY <2>3 DEF PassAims
  <2> QED
    BY <2>1, <2>2, <2>5, <2>6, PassActs
<1> QED
  BY <1>1, <1>2

-----------------------------------------------------------------------------
(* The theorem. *)

LEMMA SerialInit ==
  ASSUME EdgeInit
  PROVE  SerialInv
<1>1. \A c \in Handler : ~Busy(c)
  BY DEF EdgeInit, IdleHandler, Busy
<1>2. project.exists /\ reconciler.at = "idle" /\ kv = Wanted
  BY DEF EdgeInit, IdlePass
<1> QED
  BY <1>1, <1>2, TypeInit DEF SerialInv, NoOrphans

LEMMA SerialStutters ==
  ASSUME SerialInv, UNCHANGED edgeVars
  PROVE  SerialInv'
<1>1. Wanted' = Wanted
  BY Spelled, SpelledNext DEF edgeVars
<1>2. ASSUME NEW c \in Handler
      PROVE  Busy(c)' = Busy(c) /\ Alone(c)' = Alone(c) /\ HandlerAims(c)' = HandlerAims(c)
  BY <1>1 DEF edgeVars, Busy, Alone, HandlerAims, SameSite, StrayFree
<1>3. PassAlone' = PassAlone /\ AnyBusy' = AnyBusy /\ Serially' = Serially /\ PassAims' = PassAims
  BY <1>1 DEF edgeVars, PassAlone, AnyBusy, Busy, Serially, PassAims, SameSite, WantedBy
<1>4. TypeInv' = TypeInv /\ NoOrphans' = NoOrphans
  BY DEF edgeVars, TypeInv, NoOrphans
<1> QED
  BY <1>1, <1>2, <1>3, <1>4 DEF SerialInv, edgeVars

LEMMA SerialStep ==
  ASSUME SerialInv, [EdgeNext]_edgeVars
  PROVE  SerialInv'
<1>1. TypeInv /\ NoOrphans
  BY DEF SerialInv
<1>2. TypeInv' /\ NoOrphans'
  BY <1>1, TypeStep, OrphansStep
<1>3. ASSUME NEW c \in Handler, HandlerStep(c)
      PROVE  SerialInv'
  BY <1>2, <1>3, ReleaseStep, DeleteDomainStep, ReleaseOneStep, DeleteRowsStep, RemoveSiteStep,
     SyncReadsStep, SyncReadsBuildStep, SyncWritesStep DEF HandlerStep
<1>4. ASSUME NEW c \in Handler,
             \/ TakeOffline(c) \/ BeginDeletion(c)
             \/ \E b \in SiteBuild : PutLive(c, b)
             \/ \E on \in BOOLEAN : Suspend(c, on) \/ \E d \in Domain : SetPrimary(c, d, on)
             \/ \E d \in Domain : Activate(c, d) \/ BeginRemoval(c, d)
      PROVE  SerialInv'
  BY <1>2, <1>4, RowChanges, BeginDeletionStep, BeginRemovalStep
<1>5. ASSUME NEW d \in Domain, AddDomain(d)
      PROVE  SerialInv'
  BY <1>2, <1>5, AddDomainStep
<1>6. CASE ReconcileStep
  BY <1>2, <1>6, ReconcileReadsStep, ReconcileReadsBuildStep, ReconcileListsStep, ReconcilePutsStep,
     ReconcileRemovesStep DEF ReconcileStep
<1>7. CASE ReconcileFails \/ \E c \in Handler : Abandon(c)
  <2>1. ~Serially'
    BY <1>7 DEF ReconcileFails, Abandon, EdgeFault, Serially
  <2> QED
    BY <1>2, <2>1 DEF SerialInv
<1>8. CASE UNCHANGED edgeVars
  BY <1>8, SerialStutters
<1> QED
  BY <1>3, <1>4, <1>5, <1>6, <1>7, <1>8 DEF EdgeNext

\* Whoever has nothing to disturb it leaves Cloudflare with the records the rows
\* ask for: a change, of its own hostnames, and a pass, whatever there was before.
THEOREM RestIsWanted == EdgeSpec => []UndisturbedIsWanted
<1>1. EdgeInit => SerialInv
  BY SerialInit
<1>2. SerialInv /\ [EdgeNext]_edgeVars => SerialInv'
  BY SerialStep
<1>3. SerialInv => UndisturbedIsWanted
  BY DEF SerialInv, UndisturbedIsWanted, Serially
<1> QED
  BY <1>1, <1>2, <1>3, PTL DEF EdgeSpec
=============================================================================
