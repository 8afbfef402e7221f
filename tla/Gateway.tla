------------------------------ MODULE Gateway ------------------------------
(* The AI gateway's limits: requests per minute and requests in flight, per key
   and over all keys, kept in the memory of one process, and the charge that
   follows a completion.  A step is the code between two awaits: preflight's
   limiter, its look at the account, the slot, the model provider, the charge.

   Of the money only one bit is here: whether the account and the key's daily cap
   have room.  What a charge does to buckets and ledger is Credits. *)
EXTENDS Integers, FiniteSets

CONSTANTS
  ApiKey,
  Call,                  \* bound: the completions that are asked for
  Streamed,              \* those with stream: true
  MaxConcurrent,         \* GATEWAY_MAX_CONCURRENT
  MaxConcurrentGlobal,   \* GATEWAY_MAX_CONCURRENT_GLOBAL
  Rpm,                   \* GATEWAY_RPM
  RpmWindow,             \* RPM_WINDOW_MS, in ticks
  MaxTime                \* bound: ticks

ASSUME GatewayAssumption ==
  /\ IsFiniteSet(Call) /\ Streamed \subseteq Call
  /\ {MaxConcurrent, MaxConcurrentGlobal, Rpm, RpmWindow} \subseteq Nat \ {0}
  /\ MaxTime \in Nat

VARIABLES
  now,
  recentRequests,  \* per key, the calls whose time is in the limiter's list
  lastSweep,
  inFlight,        \* per key; a key without an entry has 0
  inFlightGlobal,
  call,            \* where each completion stands, and its key
  openedAt,        \* when the limiter let it pass
  inCredit,        \* the balance is at its minimum or above, and the cap not reached
  metered          \* calls with a GatewayUsage row and a debit

limiter     == <<recentRequests, lastSweep, openedAt>>
slots       == <<inFlight, inFlightGlobal>>
gatewayVars == <<now, limiter, slots, call, inCredit, metered>>

Stage == {"new", "looking", "cleared", "connecting", "streaming", "metering",
          "refused", "failed", "charged", "unbilled"}

\* The stages between acquireSlot and releaseSlot.
Holding  == {"connecting", "streaming"}
Holders  == {c \in Call : call[c].at \in Holding}
CallsOf(k) == {c \in Call : call[c].at # "new" /\ call[c].key = k}

GatewayInit ==
  /\ now = RpmWindow  \* the clock is far beyond the first window
  /\ recentRequests = [k \in ApiKey |-> {}] /\ lastSweep = 0
  /\ inFlight = [k \in ApiKey |-> 0] /\ inFlightGlobal = 0
  /\ call \in [Call -> [at : {"new"}, key : ApiKey]]
  /\ openedAt = [c \in Call |-> 0]
  /\ inCredit = TRUE
  /\ metered = {}

Reach(c, stage) == call' = [call EXCEPT ![c].at = stage]

-----------------------------------------------------------------------------
(* preflight. *)

\* Mutant of Within: a time is forgotten a tick early.
WithinShorter(c, t) == openedAt[c] > t - RpmWindow + 1

\* A time that the limiter, looking at time t, still counts.
Within(c, t) == openedAt[c] > t - RpmWindow

\* sweepRecentRequests: at most once in a window, the keys whose newest time is
\* outside of it are dropped.
Sweeps == now - lastSweep >= RpmWindow
Kept   == [k \in ApiKey |-> IF Sweeps /\ \A c \in recentRequests[k] : ~Within(c, now)
                            THEN {} ELSE recentRequests[k]]

\* Mutant of Stamped: the time it is forgotten at.
StampedExpiry(c) == [openedAt EXCEPT ![c] = now + RpmWindow]

Stamped(c) == [openedAt EXCEPT ![c] = now]

HasRoom(k) == inFlight[k] < MaxConcurrent /\ inFlightGlobal < MaxConcurrentGlobal

\* Over the rate, or recorded, and then maybe refused for the calls in flight.
Limit(c) ==
  LET k     == call[c].key
      times == {d \in Kept[k] : Within(d, now)}
  IN  /\ call[c].at = "new"
      /\ lastSweep' = IF Sweeps THEN now ELSE lastSweep
      /\ \/ /\ Cardinality(times) >= Rpm
            /\ recentRequests' = Kept
            /\ Reach(c, "refused")
            /\ UNCHANGED openedAt
         \/ /\ Cardinality(times) < Rpm
            /\ recentRequests' = [Kept EXCEPT ![k] = times \cup {c}]
            /\ openedAt' = Stamped(c)
            /\ Reach(c, IF HasRoom(k) THEN "looking" ELSE "refused")
      /\ UNCHANGED <<now, slots, inCredit, metered>>

\* The look at the account: three queries, the answer good for that moment only.
LookAtAccount(c) ==
  /\ call[c].at = "looking"
  /\ Reach(c, IF inCredit THEN "cleared" ELSE "refused")
  /\ UNCHANGED <<now, limiter, slots, inCredit, metered>>

-----------------------------------------------------------------------------
(* chatCompletion and streamChatCompletion. *)

\* Mutant of Acquire: preflight's check is trusted.
AcquireUnchecked(c) ==
  LET k == call[c].key
  IN  /\ call[c].at = "cleared"
      /\ Reach(c, "connecting")
      /\ inFlight' = [inFlight EXCEPT ![k] = @ + 1] /\ inFlightGlobal' = inFlightGlobal + 1
      /\ UNCHANGED <<now, limiter, inCredit, metered>>

\* acquireSlot.
Acquire(c) ==
  LET k == call[c].key
  IN  /\ call[c].at = "cleared"
      /\ \/ /\ HasRoom(k)
            /\ Reach(c, "connecting")
            /\ inFlight' = [inFlight EXCEPT ![k] = @ + 1] /\ inFlightGlobal' = inFlightGlobal + 1
         \/ ~HasRoom(k) /\ Reach(c, "refused") /\ UNCHANGED slots
      /\ UNCHANGED <<now, limiter, inCredit, metered>>

\* releaseSlot.
ReleaseSlot(c) ==
  /\ inFlight' = [inFlight EXCEPT ![call[c].key] = IF @ = 0 THEN 0 ELSE @ - 1]
  /\ inFlightGlobal' = IF inFlightGlobal = 0 THEN 0 ELSE inFlightGlobal - 1

\* Mutant of ConnectFails: only the stream's generator gives the slot back.
ConnectFailsHolding(c) ==
  /\ call[c].at = "connecting"
  /\ Reach(c, "failed")
  /\ IF c \in Streamed THEN UNCHANGED slots ELSE ReleaseSlot(c)
  /\ UNCHANGED <<now, limiter, inCredit, metered>>

\* The model provider refuses, and nothing is charged.
ConnectFails(c) ==
  /\ call[c].at = "connecting"
  /\ Reach(c, "failed")
  /\ ReleaseSlot(c)
  /\ UNCHANGED <<now, limiter, inCredit, metered>>

\* It answers: with everything, or with a stream.
Connected(c) ==
  /\ call[c].at = "connecting"
  /\ \/ c \in Streamed /\ Reach(c, "streaming") /\ UNCHANGED slots
     \/ c \notin Streamed /\ Reach(c, "metering") /\ ReleaseSlot(c)
  /\ UNCHANGED <<now, limiter, inCredit, metered>>

\* Mutant of StreamEnds: a stream that was broken off is not charged.
StreamEndsFree(c) ==
  /\ call[c].at = "streaming"
  /\ ReleaseSlot(c)
  /\ Reach(c, "metering") \/ Reach(c, "failed")
  /\ UNCHANGED <<now, limiter, inCredit, metered>>

\* The generator's finally, whether the stream ended, broke or was aborted.
StreamEnds(c) ==
  /\ call[c].at = "streaming"
  /\ ReleaseSlot(c)
  /\ Reach(c, "metering")
  /\ UNCHANGED <<now, limiter, inCredit, metered>>

\* meterGateway, after the slot has been given back.  It may use the credit up;
\* or it fails, which is reported and not repeated.
Meter(c) ==
  /\ call[c].at = "metering"
  /\ \/ Reach(c, "charged") /\ metered' = metered \cup {c} /\ inCredit' \in {inCredit, FALSE}
     \/ Reach(c, "unbilled") /\ UNCHANGED <<metered, inCredit>>
  /\ UNCHANGED <<now, limiter, slots>>

CallStep(c) ==
  \/ LookAtAccount(c) \/ Acquire(c) \/ ConnectFails(c) \/ Connected(c)
  \/ StreamEnds(c) \/ Meter(c)

\* A top-up, or the next day.
Refill == ~inCredit /\ inCredit' = TRUE /\ UNCHANGED <<now, limiter, slots, call, metered>>

Tick == now < MaxTime /\ now' = now + 1 /\ UNCHANGED <<limiter, slots, call, inCredit, metered>>

GatewayNext == Refill \/ Tick \/ \E c \in Call : Limit(c) \/ CallStep(c)

GatewaySpec == GatewayInit /\ [][GatewayNext]_gatewayVars

\* Queries are answered; the provider answers, or its timeout, or the stream's
\* wall clock, ends the call.
GatewayFairness == \A c \in Call : WF_gatewayVars(CallStep(c))

-----------------------------------------------------------------------------
(* Properties. *)

GatewayTypeOK ==
  /\ now \in RpmWindow .. MaxTime \cup {RpmWindow} /\ lastSweep \in 0 .. now
  /\ recentRequests \in [ApiKey -> SUBSET Call]
  /\ inFlight \in [ApiKey -> Nat] /\ inFlightGlobal \in Nat
  /\ call \in [Call -> [at : Stage, key : ApiKey]]
  /\ openedAt \in [Call -> 0 .. now]
  /\ inCredit \in BOOLEAN
  /\ metered \subseteq Call

\* The counters are exactly the calls the provider is working on, on every way
\* out of a call, and never above their ceilings, though preflight's look at them
\* is stale by then (gateway.service.ts:51: "it is not an enforcement point. This is").
SlotsMatchHolders ==
  /\ \A k \in ApiKey : /\ inFlight[k] = Cardinality(Holders \cap CallsOf(k))
                       /\ inFlight[k] <= MaxConcurrent
  /\ inFlightGlobal = Cardinality(Holders) /\ inFlightGlobal <= MaxConcurrentGlobal

\* No more than GATEWAY_RPM calls of a key pass in any window, wherever the sweep
\* that forgets idle keys falls between them.
RpmRespected ==
  \A k \in ApiKey, t \in RpmWindow .. now :
    Cardinality({c \in CallsOf(k) : openedAt[c] \in t - RpmWindow + 1 .. t}) <= Rpm

\* Whatever the provider delivered is charged or reported as unbilled, also when
\* the reader has gone (gateway.service.ts:650: "it runs on every exit path").
DeliveredIsMetered ==
  \A c \in Call : call[c].at \in {"streaming", "metering"} ~> c \in metered \/ call[c].at = "unbilled"
=============================================================================
