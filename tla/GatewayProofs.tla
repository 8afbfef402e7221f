---------------------------- MODULE GatewayProofs ----------------------------
(* Theorems about Gateway that hold for every set of keys, every finite set of
   calls, and every limit. *)
EXTENDS Gateway, FiniteSetTheorems, TLAPS

USE GatewayAssumption

-----------------------------------------------------------------------------
(* Types. *)

Calls == [Call -> [at : Stage, key : ApiKey]]

\* A call that moves to another stage keeps its key.
LEMMA ReachKeepsCalls ==
  ASSUME call \in Calls, NEW c \in Call, NEW s \in Stage, Reach(c, s)
  PROVE  call' \in Calls /\ \A d \in Call : call'[d].key = call[d].key
BY DEF Calls, Reach

LEMMA StageOf ==
  {"looking", "cleared", "connecting", "streaming", "metering", "refused", "failed", "charged",
   "unbilled"} \subseteq Stage
BY DEF Stage

\* The limiter's part of the type: times never run ahead of the clock.
LEMMA TypeInit == GatewayInit => GatewayTypeOK
BY DEF GatewayInit, GatewayTypeOK, Stage

LEMMA TypeStep == GatewayTypeOK /\ [GatewayNext]_gatewayVars => GatewayTypeOK'
<1> SUFFICES ASSUME GatewayTypeOK, [GatewayNext]_gatewayVars PROVE GatewayTypeOK'
  OBVIOUS
<1>0. /\ call \in Calls /\ inFlight \in [ApiKey -> Nat] /\ inFlightGlobal \in Nat
      /\ now \in Nat /\ RpmWindow \in Nat
  BY DEF GatewayTypeOK, Calls
<1>1. ASSUME NEW c \in Call, Limit(c) PROVE GatewayTypeOK'
  <2>1. call' \in Calls
    BY <1>0, <1>1, StageOf, ReachKeepsCalls DEF Limit
  <2>2. recentRequests' \in [ApiKey -> SUBSET Call]
    <3>1. Kept \in [ApiKey -> SUBSET Call]
      BY DEF GatewayTypeOK, Kept
    <3> QED
      BY <1>1, <3>1 DEF Limit
  <2>3. openedAt' \in [Call -> 0 .. now]
    BY <1>0, <1>1 DEF Limit, GatewayTypeOK, Stamped
  <2>4. lastSweep' \in 0 .. now
    BY <1>0, <1>1 DEF Limit, GatewayTypeOK
  <2> QED
    BY <1>1, <2>1, <2>2, <2>3, <2>4 DEF Limit, GatewayTypeOK, Calls, slots
<1>2. ASSUME NEW c \in Call, CallStep(c) PROVE GatewayTypeOK'
  <2>1. call' \in Calls
    BY <1>0, <1>2, StageOf, ReachKeepsCalls
       DEF CallStep, LookAtAccount, Acquire, ConnectFails, Connected, StreamEnds, Meter
  <2>2. call[c].key \in ApiKey
    BY <1>0 DEF Calls
  <2>3. inFlight' \in [ApiKey -> Nat] /\ inFlightGlobal' \in Nat
    <3>1. CASE ReleaseSlot(c)
      BY <1>0, <2>2, <3>1 DEF ReleaseSlot
    <3>2. CASE /\ inFlight' = [inFlight EXCEPT ![call[c].key] = @ + 1]
               /\ inFlightGlobal' = inFlightGlobal + 1
      BY <1>0, <2>2, <3>2
    <3>3. CASE UNCHANGED slots
      BY <1>0, <3>3 DEF slots
    <3> QED
      BY <1>2, <3>1, <3>2, <3>3
         DEF CallStep, LookAtAccount, Acquire, ConnectFails, Connected, StreamEnds, Meter
  <2>4. inCredit' \in BOOLEAN /\ metered' \subseteq Call
    BY <1>2
       DEF CallStep, LookAtAccount, Acquire, ConnectFails, Connected, StreamEnds, Meter, GatewayTypeOK
  <2>5. UNCHANGED <<now, limiter>>
    BY <1>2 DEF CallStep, LookAtAccount, Acquire, ConnectFails, Connected, StreamEnds, Meter
  <2> QED
    BY <2>1, <2>3, <2>4, <2>5 DEF GatewayTypeOK, Calls, limiter
<1>3. CASE Refill
  BY <1>3 DEF Refill, GatewayTypeOK, limiter, slots
<1>4. CASE Tick
  <2>1. now' \in RpmWindow .. MaxTime \cup {RpmWindow} /\ now' = now + 1
    BY <1>4 DEF Tick, GatewayTypeOK
  <2>2. 0 .. now \subseteq 0 .. now'
    BY <1>0, <2>1
  <2> QED
    BY <1>4, <2>1, <2>2 DEF Tick, GatewayTypeOK, limiter, slots
<1>5. CASE UNCHANGED gatewayVars
  BY <1>5 DEF GatewayTypeOK, gatewayVars, limiter, slots
<1> QED
  BY <1>1, <1>2, <1>3, <1>4, <1>5 DEF GatewayNext

\* Every variable keeps its type, for any keys, calls, limits and length of time.
THEOREM GatewayTypeCorrect == GatewaySpec => []GatewayTypeOK
BY TypeInit, TypeStep, PTL DEF GatewaySpec

-----------------------------------------------------------------------------
(* The slots. *)

\* The calls that hold a slot when the calls stand as f says, all and by key.
AllIn(f)   == {c \in Call : f[c].at \in Holding}
KeyIn(f, k) == {c \in AllIn(f) : f[c].key = k}

LEMMA HoldersAreFinite ==
  ASSUME NEW f, NEW k
  PROVE  /\ IsFiniteSet(AllIn(f)) /\ Cardinality(AllIn(f)) \in Nat
         /\ IsFiniteSet(KeyIn(f, k)) /\ Cardinality(KeyIn(f, k)) \in Nat
BY FS_Subset, FS_CardinalityType DEF AllIn, KeyIn

LEMMA SlotsMean ==
  ASSUME call \in Calls
  PROVE  SlotsMatchHolders <=>
           /\ \A k \in ApiKey : /\ inFlight[k] = Cardinality(KeyIn(call, k))
                                /\ inFlight[k] <= MaxConcurrent
           /\ inFlightGlobal = Cardinality(AllIn(call)) /\ inFlightGlobal <= MaxConcurrentGlobal
<1>1. Holders = AllIn(call)
  BY DEF Holders, AllIn
<1>2. \A k \in ApiKey : Holders \cap CallsOf(k) = KeyIn(call, k)
  BY DEF Holders, CallsOf, KeyIn, AllIn, Holding
<1> QED
  BY <1>1, <1>2 DEF SlotsMatchHolders

\* The counters after a call has taken a slot, and after it has given it back.
LEMMA TakingCounts ==
  ASSUME call \in Calls, NEW c \in Call, NEW s \in Holding, call[c].at \notin Holding, Reach(c, s)
  PROVE  /\ Cardinality(AllIn(call')) = Cardinality(AllIn(call)) + 1
         /\ \A k \in ApiKey : Cardinality(KeyIn(call', k)) =
              Cardinality(KeyIn(call, k)) + IF k = call[c].key THEN 1 ELSE 0
<1>1. AllIn(call') = AllIn(call) \cup {c} /\ c \notin AllIn(call)
  BY DEF AllIn, Reach, Calls
<1>2. ASSUME NEW k \in ApiKey
      PROVE  /\ c \notin KeyIn(call, k)
             /\ KeyIn(call', k) = IF k = call[c].key THEN KeyIn(call, k) \cup {c} ELSE KeyIn(call, k)
  BY DEF KeyIn, AllIn, Reach, Calls
<1>3. ASSUME NEW k \in ApiKey
      PROVE  Cardinality(KeyIn(call, k) \cup {c}) = Cardinality(KeyIn(call, k)) + 1
  BY <1>2, HoldersAreFinite, FS_AddElement
<1>4. Cardinality(AllIn(call) \cup {c}) = Cardinality(AllIn(call)) + 1
  BY <1>1, HoldersAreFinite, FS_AddElement
<1> QED
  BY <1>1, <1>2, <1>3, <1>4, HoldersAreFinite

LEMMA GivingCounts ==
  ASSUME call \in Calls, NEW c \in Call, NEW s \in Stage \ Holding, call[c].at \in Holding, Reach(c, s)
  PROVE  /\ Cardinality(AllIn(call)) = Cardinality(AllIn(call')) + 1
         /\ \A k \in ApiKey : Cardinality(KeyIn(call, k)) =
              Cardinality(KeyIn(call', k)) + IF k = call[c].key THEN 1 ELSE 0
<1>1. AllIn(call) = AllIn(call') \cup {c} /\ c \notin AllIn(call')
  BY DEF AllIn, Reach, Calls
<1>2. ASSUME NEW k \in ApiKey
      PROVE  /\ c \notin KeyIn(call', k)
             /\ KeyIn(call, k) = IF k = call[c].key THEN KeyIn(call', k) \cup {c} ELSE KeyIn(call', k)
  BY DEF KeyIn, AllIn, Reach, Calls
<1>3. ASSUME NEW k \in ApiKey
      PROVE  Cardinality(KeyIn(call', k) \cup {c}) = Cardinality(KeyIn(call', k)) + 1
  BY <1>2, HoldersAreFinite, FS_AddElement
<1>4. Cardinality(AllIn(call') \cup {c}) = Cardinality(AllIn(call')) + 1
  BY <1>1, HoldersAreFinite, FS_AddElement
<1> QED
  BY <1>1, <1>2, <1>3, <1>4, HoldersAreFinite

\* A call that moves without taking or giving back.
LEMMA StayingCounts ==
  ASSUME call \in Calls, NEW c \in Call, NEW s \in Stage, Reach(c, s),
         call[c].at \in Holding <=> s \in Holding
  PROVE  /\ AllIn(call') = AllIn(call)
         /\ \A k \in ApiKey : KeyIn(call', k) = KeyIn(call, k)
BY DEF AllIn, KeyIn, Reach, Calls

\* acquireSlot and releaseSlot in terms of one step of the counters.
Takes(c) ==
  /\ \E s \in Holding : Reach(c, s)
  /\ call[c].at \notin Holding /\ HasRoom(call[c].key)
  /\ inFlight' = [inFlight EXCEPT ![call[c].key] = @ + 1] /\ inFlightGlobal' = inFlightGlobal + 1

Gives(c) ==
  /\ \E s \in Stage \ Holding : Reach(c, s)
  /\ call[c].at \in Holding
  /\ ReleaseSlot(c)

Stays(c) ==
  /\ \E s \in Stage : Reach(c, s) /\ (call[c].at \in Holding <=> s \in Holding)
  /\ UNCHANGED slots

LEMMA SlotStep ==
  ASSUME GatewayTypeOK, GatewayNext
  PROVE  \/ \E c \in Call : Takes(c) \/ Gives(c) \/ Stays(c)
         \/ UNCHANGED <<call, slots>>
<1>1. ASSUME NEW c \in Call, Limit(c) \/ LookAtAccount(c) \/ Meter(c) PROVE Stays(c)
  BY <1>1, StageOf DEF Limit, LookAtAccount, Meter, Stays, Holding
<1>2. ASSUME NEW c \in Call, Acquire(c) PROVE Takes(c) \/ Stays(c)
  BY <1>2, StageOf DEF Acquire, Takes, Stays, Holding
<1>3. ASSUME NEW c \in Call, ConnectFails(c) \/ StreamEnds(c) PROVE Gives(c)
  BY <1>3, StageOf DEF ConnectFails, StreamEnds, Gives, Holding
<1>4. ASSUME NEW c \in Call, Connected(c) PROVE Gives(c) \/ Stays(c)
  BY <1>4, StageOf DEF Connected, Gives, Stays, Holding
<1>5. CASE Refill \/ Tick
  BY <1>5 DEF Refill, Tick
<1> QED
  BY <1>1, <1>2, <1>3, <1>4, <1>5 DEF GatewayNext, CallStep

LEMMA SlotsInit == GatewayInit => SlotsMatchHolders
<1> SUFFICES ASSUME GatewayInit PROVE SlotsMatchHolders
  OBVIOUS
<1>1. AllIn(call) = {} /\ \A k \in ApiKey : KeyIn(call, k) = {}
  BY DEF GatewayInit, AllIn, KeyIn, Holding
<1>2. call \in Calls
  BY DEF GatewayInit, Calls, Stage
<1>3. Cardinality({}) = 0
  BY FS_EmptySet
<1>4. ASSUME NEW k \in ApiKey
      PROVE  inFlight[k] = Cardinality(KeyIn(call, k)) /\ inFlight[k] <= MaxConcurrent
  <2>1. Cardinality(KeyIn(call, k)) = 0
    BY <1>1, <1>3
  <2>2. inFlight[k] = 0
    BY DEF GatewayInit
  <2> QED
    BY <2>1, <2>2
<1>5. inFlightGlobal = Cardinality(AllIn(call)) /\ inFlightGlobal <= MaxConcurrentGlobal
  BY <1>1, <1>3 DEF GatewayInit
<1>6. SlotsMatchHolders <=>
        /\ \A k \in ApiKey : inFlight[k] = Cardinality(KeyIn(call, k)) /\ inFlight[k] <= MaxConcurrent
        /\ inFlightGlobal = Cardinality(AllIn(call)) /\ inFlightGlobal <= MaxConcurrentGlobal
  BY <1>2, SlotsMean
<1> QED
  BY <1>4, <1>5, <1>6

LEMMA SlotsStep ==
  GatewayTypeOK /\ SlotsMatchHolders /\ [GatewayNext]_gatewayVars => SlotsMatchHolders'
<1> SUFFICES ASSUME GatewayTypeOK, SlotsMatchHolders, [GatewayNext]_gatewayVars
             PROVE  SlotsMatchHolders'
  OBVIOUS
<1> DEFINE Match == /\ \A k \in ApiKey : /\ inFlight[k] = Cardinality(KeyIn(call, k))
                                         /\ inFlight[k] <= MaxConcurrent
                    /\ inFlightGlobal = Cardinality(AllIn(call))
                    /\ inFlightGlobal <= MaxConcurrentGlobal
<1>0. call \in Calls /\ call' \in Calls
  BY TypeStep DEF GatewayTypeOK, Calls
<1>1. Match
  BY <1>0, SlotsMean
<1>2. SlotsMatchHolders' <=> Match'
  <2>1. Holders' = AllIn(call')
    BY DEF Holders, AllIn
  <2>2. \A k \in ApiKey : (Holders \cap CallsOf(k))' = KeyIn(call', k)
    BY DEF Holders, CallsOf, KeyIn, AllIn, Holding
  <2> QED
    BY <2>1, <2>2 DEF SlotsMatchHolders
<1>3. \A k \in ApiKey : call[k] = call[k] /\ inFlight[k] \in Nat
  BY DEF GatewayTypeOK
<1>4. ASSUME NEW c \in Call, Takes(c) PROVE Match'
  <2>1. /\ Cardinality(AllIn(call')) = Cardinality(AllIn(call)) + 1
        /\ \A k \in ApiKey : Cardinality(KeyIn(call', k)) =
              Cardinality(KeyIn(call, k)) + IF k = call[c].key THEN 1 ELSE 0
    BY <1>0, <1>4, TakingCounts DEF Takes
  <2>2. ASSUME NEW k \in ApiKey
        PROVE  inFlight'[k] = inFlight[k] + IF k = call[c].key THEN 1 ELSE 0
    BY <1>4 DEF Takes, GatewayTypeOK
  <2>3. call[c].key \in ApiKey
    BY <1>0 DEF Calls
  <2>4. ASSUME NEW k \in ApiKey
        PROVE  inFlight'[k] = Cardinality(KeyIn(call', k)) /\ inFlight'[k] <= MaxConcurrent
    <3>1. k = call[c].key => inFlight[k] < MaxConcurrent
      BY <1>4 DEF Takes, HasRoom
    <3> QED
      BY <1>1, <1>3, <2>1, <2>2, <3>1
  <2>5. inFlightGlobal' = Cardinality(AllIn(call')) /\ inFlightGlobal' <= MaxConcurrentGlobal
    BY <1>1, <1>4, <2>1 DEF Takes, HasRoom, GatewayTypeOK
  <2> QED
    BY <2>4, <2>5
<1>5. ASSUME NEW c \in Call, Gives(c) PROVE Match'
  <2>1. /\ Cardinality(AllIn(call)) = Cardinality(AllIn(call')) + 1
        /\ \A k \in ApiKey : Cardinality(KeyIn(call, k)) =
              Cardinality(KeyIn(call', k)) + IF k = call[c].key THEN 1 ELSE 0
    BY <1>0, <1>5, GivingCounts DEF Gives
  <2>2. /\ Cardinality(AllIn(call')) \in Nat
        /\ \A k \in ApiKey : Cardinality(KeyIn(call', k)) \in Nat
    BY HoldersAreFinite
  <2>3. call[c].key \in ApiKey
    BY <1>0 DEF Calls
  <2>4. ASSUME NEW k \in ApiKey
        PROVE  inFlight'[k] = Cardinality(KeyIn(call', k)) /\ inFlight'[k] <= MaxConcurrent
    <3>1. inFlight'[k] = IF k = call[c].key /\ inFlight[k] # 0 THEN inFlight[k] - 1 ELSE inFlight[k]
      BY <1>5, <2>3 DEF Gives, ReleaseSlot, GatewayTypeOK
    <3> QED
      BY <1>1, <1>3, <2>1, <2>2, <3>1
  <2>5. inFlightGlobal' = Cardinality(AllIn(call')) /\ inFlightGlobal' <= MaxConcurrentGlobal
    BY <1>1, <1>5, <2>1, <2>2 DEF Gives, ReleaseSlot, GatewayTypeOK
  <2> QED
    BY <2>4, <2>5
<1>6. ASSUME NEW c \in Call, Stays(c) PROVE Match'
  BY <1>0, <1>1, <1>6, StayingCounts DEF Stays, slots
<1>7. CASE UNCHANGED <<call, slots>> \/ UNCHANGED gatewayVars
  <2>1. call' = call /\ inFlight' = inFlight /\ inFlightGlobal' = inFlightGlobal
    BY <1>7 DEF gatewayVars, slots
  <2> QED
    BY <1>1, <1>2, <2>1
<1> QED
  BY <1>2, <1>4, <1>5, <1>6, <1>7, SlotStep

\* The counters are the calls in flight and stay below both ceilings, whatever
\* preflight let through, for any keys, calls and ceilings.
THEOREM SlotsAreKept == GatewaySpec => []SlotsMatchHolders
<1>1. GatewayInit => GatewayTypeOK /\ SlotsMatchHolders
  BY TypeInit, SlotsInit
<1>2. GatewayTypeOK /\ SlotsMatchHolders /\ [GatewayNext]_gatewayVars
        => (GatewayTypeOK /\ SlotsMatchHolders)'
  BY TypeStep, SlotsStep
<1> QED
  BY <1>1, <1>2, PTL DEF GatewaySpec

-----------------------------------------------------------------------------
(* The rate. *)

\* The limiter's list of a key has every call that passed within the window that
\* ends now; a call that has not come, or was refused, has no time.
Recorded ==
  \A c \in Call :
    /\ call[c].at = "new" => openedAt[c] = 0
    /\ openedAt[c] > now - RpmWindow => c \in recentRequests[call[c].key]

\* The calls of key k that passed in the window that ends at t.
Passed(k, t) == {c \in CallsOf(k) : openedAt[c] \in t - RpmWindow + 1 .. t}

RateInv == GatewayTypeOK /\ Recorded /\ RpmRespected

LEMMA PassedIsFinite ==
  ASSUME NEW k, NEW t
  PROVE  IsFiniteSet(Passed(k, t)) /\ Cardinality(Passed(k, t)) \in Nat
BY FS_Subset, FS_CardinalityType DEF Passed, CallsOf

LEMMA RateInit == GatewayInit => RateInv
<1> SUFFICES ASSUME GatewayInit PROVE RateInv
  OBVIOUS
<1>1. GatewayTypeOK
  BY TypeInit
<1>2. Recorded
  BY DEF GatewayInit, Recorded
<1>3. ASSUME NEW k \in ApiKey, NEW t PROVE Cardinality(Passed(k, t)) <= Rpm
  <2>1. Passed(k, t) = {}
    BY DEF GatewayInit, Passed, CallsOf
  <2> QED
    BY <2>1, FS_EmptySet
<1> QED
  BY <1>1, <1>2, <1>3 DEF RateInv, RpmRespected, Passed

\* A step that opens no call and lets no time pass.
LEMMA QuietRate ==
  ASSUME RateInv, GatewayTypeOK', now' = now, openedAt' = openedAt,
         \A c \in Call : call'[c].key = call[c].key /\ (call[c].at = "new" \/ call'[c].at # "new"),
         \A k \in ApiKey : \A c \in recentRequests[k] : Within(c, now) => c \in recentRequests'[k]
  PROVE  RateInv'
<1>0. /\ call \in Calls /\ now \in Nat /\ now >= RpmWindow /\ RpmWindow \in Nat \ {0}
      /\ openedAt \in [Call -> 0 .. now]
  BY DEF RateInv, GatewayTypeOK, Calls
<1>1. Recorded'
  <2> SUFFICES ASSUME NEW c \in Call
               PROVE  /\ call'[c].at = "new" => openedAt[c] = 0
                      /\ openedAt[c] > now - RpmWindow => c \in recentRequests'[call[c].key]
    BY DEF Recorded
  <2>1. call[c].key \in ApiKey
    BY <1>0 DEF Calls
  <2> QED
    BY <2>1 DEF RateInv, Recorded, Within
<1>2. ASSUME NEW k \in ApiKey, NEW t \in RpmWindow .. now PROVE Passed(k, t)' = Passed(k, t)
  <2>1. \A c \in Call : openedAt[c] \in t - RpmWindow + 1 .. t => call[c].at # "new"
    BY <1>0 DEF RateInv, Recorded
  <2> QED
    BY <2>1 DEF Passed, CallsOf
<1>3. RpmRespected'
  BY <1>2 DEF RateInv, RpmRespected, Passed
<1> QED
  BY <1>1, <1>3 DEF RateInv

\* What the sweep drops is outside of the window.
LEMMA KeptEnough ==
  ASSUME GatewayTypeOK
  PROVE  /\ Kept \in [ApiKey -> SUBSET Call]
         /\ \A k \in ApiKey : \A c \in recentRequests[k] : Within(c, now) => c \in Kept[k]
BY DEF GatewayTypeOK, Kept

\* The calls within the window, as the limiter counts them.
Times(k) == {d \in Kept[k] : Within(d, now)}

LEMMA OpenRate ==
  ASSUME RateInv, GatewayTypeOK', NEW c \in Call, call[c].at = "new",
         Cardinality(Times(call[c].key)) < Rpm,
         now' = now, openedAt' = Stamped(c),
         recentRequests' = [Kept EXCEPT ![call[c].key] = Times(call[c].key) \cup {c}],
         NEW s \in Stage, s # "new", Reach(c, s)
  PROVE  RateInv'
<1> DEFINE k0 == call[c].key
<1>0. /\ call \in Calls /\ now \in Nat /\ now >= RpmWindow /\ RpmWindow \in Nat \ {0}
      /\ openedAt \in [Call -> 0 .. now] /\ GatewayTypeOK
  BY DEF RateInv, GatewayTypeOK, Calls
<1>1. k0 \in ApiKey
  BY <1>0 DEF Calls
<1>2. \A d \in Call : call'[d].key = call[d].key /\ (d # c => call'[d] = call[d])
  BY <1>0 DEF Reach, Calls
<1>3. call'[c].at = s
  BY <1>0 DEF Reach, Calls
<1>4. \A d \in Call : openedAt'[d] = IF d = c THEN now ELSE openedAt[d]
  BY <1>0 DEF Stamped
<1>5. Recorded'
  <2> SUFFICES ASSUME NEW d \in Call
               PROVE  /\ call'[d].at = "new" => openedAt'[d] = 0
                      /\ openedAt'[d] > now - RpmWindow => d \in recentRequests'[call[d].key]
    BY <1>2 DEF Recorded
  <2>1. call'[d].at = "new" => openedAt'[d] = 0
    BY <1>2, <1>3, <1>4 DEF RateInv, Recorded
  <2>2. CASE d = c
    BY <1>0, <1>1, <2>1, <2>2, KeptEnough
  <2>3. ASSUME d # c, openedAt[d] > now - RpmWindow PROVE d \in recentRequests'[call[d].key]
    <3>1. d \in recentRequests[call[d].key] /\ Within(d, now) /\ call[d].key \in ApiKey
      BY <1>0, <2>3 DEF RateInv, Recorded, Within, Calls
    <3>2. d \in Kept[call[d].key]
      BY <1>0, <3>1, KeptEnough
    <3> QED
      BY <1>0, <3>1, <3>2, KeptEnough DEF Times
  <2> QED
    BY <1>4, <2>1, <2>2, <2>3
<1>6. ASSUME NEW k \in ApiKey, NEW t \in RpmWindow .. now PROVE Cardinality(Passed(k, t)') <= Rpm
  <2>0. Cardinality(Passed(k, t)) <= Rpm
    BY DEF RateInv, RpmRespected, Passed
  <2>1. ASSUME NEW d \in Call, d # c PROVE d \in Passed(k, t)' <=> d \in Passed(k, t)
    BY <1>2, <1>4, <2>1 DEF Passed, CallsOf
  <2>2. CASE c \notin Passed(k, t)'
    <3>1. c \notin Passed(k, t)
      BY <1>0 DEF RateInv, Recorded, Passed, CallsOf
    <3>2. Passed(k, t)' = Passed(k, t)
      BY <2>1, <2>2, <3>1 DEF Passed, CallsOf
    <3> QED
      BY <2>0, <3>2
  <2>3. CASE c \in Passed(k, t)'
    <3>1. k = k0 /\ t = now
      BY <1>0, <1>2, <1>4, <2>3 DEF Passed, CallsOf
    <3>2. Passed(k, t)' \subseteq Times(k0) \cup {c}
      <4> SUFFICES ASSUME NEW d \in Passed(k, t), d # c PROVE d \in Times(k0)
        BY <2>1 DEF Passed, CallsOf
      <4>1. d \in Call /\ call[d].key = k0 /\ openedAt[d] > now - RpmWindow
        BY <1>0, <3>1 DEF Passed, CallsOf
      <4>2. d \in recentRequests[k0] /\ Within(d, now)
        BY <4>1 DEF RateInv, Recorded, Within
      <4> QED
        BY <1>0, <1>1, <4>2, KeptEnough DEF Times
    <3>3. IsFiniteSet(Times(k0)) /\ Cardinality(Times(k0)) \in Nat
      BY <1>0, <1>1, KeptEnough, FS_Subset, FS_CardinalityType DEF Times
    <3>4. IsFiniteSet(Times(k0) \cup {c}) /\ Cardinality(Times(k0) \cup {c}) <= Cardinality(Times(k0)) + 1
      <4> HIDE DEF k0
      <4>1. /\ IsFiniteSet(Times(k0) \cup {c})
            /\ Cardinality(Times(k0) \cup {c}) = IF c \in Times(k0) THEN Cardinality(Times(k0))
                                                 ELSE Cardinality(Times(k0)) + 1
        BY <3>3, FS_AddElement
      <4> QED
        BY <3>3, <4>1
    <3>5. Cardinality(Passed(k, t)') <= Cardinality(Times(k0) \cup {c})
      BY <3>2, <3>4, FS_Subset
    <3>6. Cardinality(Passed(k, t)') \in Nat /\ Cardinality(Times(k0) \cup {c}) \in Nat
      BY <3>2, <3>4, FS_Subset, FS_CardinalityType
    <3> QED
      BY <3>3, <3>4, <3>5, <3>6
  <2> QED
    BY <2>2, <2>3
<1>7. RpmRespected'
  BY <1>6 DEF RpmRespected, Passed
<1> QED
  BY <1>5, <1>7 DEF RateInv

LEMMA RateStep == RateInv /\ [GatewayNext]_gatewayVars => RateInv'
<1> SUFFICES ASSUME RateInv, [GatewayNext]_gatewayVars PROVE RateInv'
  OBVIOUS
<1>0. GatewayTypeOK /\ GatewayTypeOK' /\ call \in Calls
  BY TypeStep DEF RateInv, GatewayTypeOK, Calls
<1>1. ASSUME NEW c \in Call, Limit(c) PROVE RateInv'
  <2>1. CASE /\ recentRequests' = Kept /\ Reach(c, "refused") /\ UNCHANGED <<openedAt, now>>
    <3>1. \A d \in Call : call'[d].key = call[d].key /\ (call[d].at = "new" \/ call'[d].at # "new")
      BY <1>0, <2>1 DEF Reach, Calls
    <3> QED
      BY <1>0, <2>1, <3>1, KeptEnough, QuietRate
  <2>2. CASE /\ Cardinality(Times(call[c].key)) < Rpm
             /\ recentRequests' = [Kept EXCEPT ![call[c].key] = Times(call[c].key) \cup {c}]
             /\ openedAt' = Stamped(c) /\ now' = now
             /\ Reach(c, IF HasRoom(call[c].key) THEN "looking" ELSE "refused")
    <3>1. \E s \in Stage : s # "new" /\ Reach(c, s)
      BY <2>2, StageOf
    <3>2. call[c].at = "new"
      BY <1>1 DEF Limit
    <3> QED
      BY <1>0, <2>2, <3>1, <3>2, OpenRate
  <2> QED
    BY <1>1, <2>1, <2>2 DEF Limit, Times
<1>2. ASSUME NEW c \in Call, CallStep(c) PROVE RateInv'
  <2>1. UNCHANGED <<now, limiter>> /\ \E s \in Stage : s # "new" /\ Reach(c, s)
    BY <1>2, StageOf DEF CallStep, LookAtAccount, Acquire, ConnectFails, Connected, StreamEnds, Meter
  <2>2. \A d \in Call : call'[d].key = call[d].key /\ (call[d].at = "new" \/ call'[d].at # "new")
    BY <1>0, <2>1 DEF Reach, Calls
  <2> QED
    BY <1>0, <2>1, <2>2, QuietRate DEF limiter
<1>3. CASE Refill \/ UNCHANGED gatewayVars
  BY <1>0, <1>3, QuietRate DEF Refill, gatewayVars, limiter
<1>4. CASE Tick
  <2>0. /\ now \in Nat /\ now >= RpmWindow /\ RpmWindow \in Nat \ {0} /\ now' = now + 1
        /\ openedAt \in [Call -> 0 .. now] /\ UNCHANGED <<limiter, call>>
    BY <1>0, <1>4 DEF Tick, GatewayTypeOK
  <2>1. Recorded'
    BY <2>0 DEF RateInv, Recorded, limiter
  <2>2. ASSUME NEW k \in ApiKey, NEW t \in RpmWindow .. now' PROVE Cardinality(Passed(k, t)') <= Rpm
    <3>1. CASE t <= now
      <4>1. Passed(k, t)' = Passed(k, t)
        BY <2>0 DEF Passed, CallsOf, limiter
      <4> QED
        BY <2>0, <3>1, <4>1 DEF RateInv, RpmRespected, Passed
    <3>2. CASE t = now + 1
      <4>1. Passed(k, t)' \subseteq Passed(k, now)
        BY <2>0, <3>2 DEF Passed, CallsOf, limiter
      <4>2. Cardinality(Passed(k, now)) <= Rpm
        <5>1. now \in RpmWindow .. now
          BY <2>0
        <5> QED
          BY <5>1 DEF RateInv, RpmRespected, Passed
      <4>3. Cardinality(Passed(k, t)') <= Cardinality(Passed(k, now))
        BY <4>1, PassedIsFinite, FS_Subset
      <4>4. Cardinality(Passed(k, t)') \in Nat
        BY <4>1, PassedIsFinite, FS_Subset, FS_CardinalityType
      <4> QED
        BY <4>2, <4>3, <4>4, PassedIsFinite
    <3> QED
      BY <2>0, <3>1, <3>2
  <2>3. RpmRespected'
    BY <2>2 DEF RpmRespected, Passed
  <2> QED
    BY <1>0, <2>1, <2>3 DEF RateInv
<1> QED
  BY <1>1, <1>2, <1>3, <1>4 DEF GatewayNext

\* No key gets more than its rate in any window, wherever the sweep of idle keys
\* falls, for any rate and length of the window.
THEOREM RateIsKept == GatewaySpec => []RpmRespected
<1>1. RateInv => RpmRespected
  BY DEF RateInv
<1> QED
  BY <1>1, RateInit, RateStep, PTL DEF GatewaySpec
=============================================================================
