------------------------------ MODULE Credits ------------------------------
(* The money of an account: lib/credits.ts and the callers that decide how
   often, and under which key, it is called.

   Every change of a balance is a database transaction that locks the account
   row (lockAccount), reads it, looks its idempotency key up in the ledger, and
   then writes the new balance, computed from what it read, together with a
   ledger row.  Isolation is Postgres's READ COMMITTED, so nothing but the row
   lock and the unique index on the key orders two transactions; a follow-up
   message alone (addMessage) is Serializable, and reads a snapshot.  A transaction
   is run by a connection `conn`: one step for each statement another
   transaction can come between, and one step, Commit, that makes its writes
   visible.

   Of the ledger the code reads two things, and the model keeps those two: the
   keys present (findUnique by idempotencyKey) and an account's sum of amounts
   (reconcileAccount).  CREDITS_ENFORCE is on; amounts are small numbers. *)
EXTENDS Integers, FiniteSets

CONSTANTS
  User, Conn,
  Job,          \* generation jobs
  NewProject,   \* those of them that initializeProject starts; addMessage starts the rest
  Call,         \* model calls: made for a job, or proxied by the /v1 gateway
  Order,        \* credit packs bought at the payment provider
  Cycle,        \* billing cycles of a PRO subscription, charged by the provider
  Unmatched,    \* those of both that the server cannot tell the account of
  Fee,          \* things with a flat price: a first publish, a saved logo
  Owner,        \* the account each of these belongs to
  None,
  GRANT, ALLOTMENT, PACK, PROMO, PRICE, COST, \* amounts
  MIN_SPEND, MIN_BALANCE, \* the least balance a job, a completion starts with
  MaxConcurrentJobs, MaxRedemptions,
  MaxIndex,     \* bound on the event indices of a job
  MaxRetries,   \* bound on second attempts
  MaxFaults     \* bound on transactions cut off and on lost acknowledgements

VARIABLES
  account,    \* BillingAccount rows: the three buckets, or None
  booked,     \* CreditLedger: the sum of an account's amounts
  keys,       \* CreditLedger: the idempotency keys present
  hold,       \* CreditHold rows
  redeemedBy, \* PromoRedemption rows of one promo code
  redeemed,   \* and the redeemedCount of its PromoCode row
  locked,     \* the connection that holds a BillingAccount row
  promoLocked,\* the connection that holds the PromoCode row
  conn,       \* the transaction of each connection
  call,       \* model calls: their job, their debit sequence, how far they are
  index,      \* bus.nextIndex of a job's buffer, past its first frame
  summaries,  \* `summarizations` of the agent loop's current attempt
  turns,      \* the next Message.sequence
  retried,    \* the runner's second attempt has begun
  event,      \* WebhookEvent rows of paid orders and charged cycles
  faults

database == <<account, booked, keys, hold, redeemedBy, redeemed>>
counters == <<index, summaries, turns, retried>>
vars == <<database, locked, promoLocked, conn, call, counters, event, faults>>

-----------------------------------------------------------------------------
(* Operations and their keys. *)

\* What a transaction is for: <<kind, item>>.
Op == ({"reserve"} \X Job) \cup ({"meter"} \X Call) \cup ({"bonus"} \X Order)
      \cup ({"plan"} \X Cycle) \cup ({"flat"} \X Fee) \cup ({"promo", "ensure"} \X User)

UserOf(op) == IF op[1] \in {"promo", "ensure"} THEN op[2] ELSE Owner[op[2]]

\* A debit of a job is keyed by the job and a sequence, not by the call; one of
\* the gateway by the request.  A hold has no key.
Key(op) == IF op[1] = "meter" /\ call[op[2]].job # None
           THEN <<"debit", call[op[2]].job, call[op[2]].n>> ELSE op

Buckets == [free : Nat, plan : Nat, bonus : Nat]

ASSUME CreditsAssumption ==
  /\ {GRANT, ALLOTMENT, PACK, PROMO, PRICE, COST, MIN_SPEND, MIN_BALANCE} \subseteq Nat \ {0}
  /\ {MaxConcurrentJobs, MaxRedemptions, MaxIndex, MaxRetries, MaxFaults} \subseteq Nat
  /\ Owner \in [Job \cup Call \cup Order \cup Cycle \cup Fee -> User]
  /\ None \notin User \cup Conn \cup Job \cup Op \cup Buckets
  /\ IsFiniteSet(Job) /\ IsFiniteSet(User) /\ IsFiniteSet(Call) /\ NewProject \subseteq Job
  /\ Unmatched \subseteq Order \cup Cycle

\* The operation a webhook event stands for.
Handling(i) == IF i \in Order THEN <<"bonus", i>> ELSE <<"plan", i>>

\* The signup grant's row is the key of ensureBillingAccount.
GrantKey(u) == <<"ensure", u>>

Seed    == [free |-> GRANT, plan |-> 0, bonus |-> 0]
Gross(a) == a.free + a.plan + a.bonus

Least(m, n) == IF m <= n THEN m ELSE n

\* Mutant of Spend: the last bucket is not floored at zero.
SpendUnfloored(a, amount) ==
  LET f == Least(a.free, amount)
      p == Least(a.plan, amount - f)
  IN  [free |-> a.free - f, plan |-> a.plan - p, bonus |-> a.bonus - (amount - f - p)]

\* spendBuckets: the buckets after spending what there is of the amount.
Spend(a, amount) ==
  LET f == Least(a.free, amount)
      p == Least(a.plan, amount - f)
      b == Least(a.bonus, amount - f - p)
  IN  [free |-> a.free - f, plan |-> a.plan - p, bonus |-> a.bonus - b]

\* The buckets an operation writes, from the row it read.
After(op, a) ==
  CASE op[1] = "meter" -> Spend(a, COST)
    [] op[1] = "flat"  -> Spend(a, PRICE)
    [] op[1] = "bonus" -> [a EXCEPT !.bonus = @ + PACK]
    [] op[1] = "promo" -> [a EXCEPT !.bonus = @ + PROMO]
    [] op[1] = "plan"  -> [a EXCEPT !.plan = ALLOTMENT]
    [] OTHER -> a

\* What its ledger rows add up to; a new cycle writes an EXPIRE row as well.
Amount(op, a) ==
  CASE op[1] = "meter" -> -Least(COST, Gross(a))
    [] op[1] = "flat"  -> -Least(PRICE, Gross(a))
    [] op[1] = "bonus" -> PACK
    [] op[1] = "promo" -> PROMO
    [] op[1] = "plan"  -> ALLOTMENT - a.plan
    [] OTHER -> 0

ActiveHolds(u) == {j \in Job : hold[j].status = "ACTIVE" /\ Owner[j] = u}

\* addMessage's transaction, the one with an isolation level of its own.
Serializable(op) == op[1] = "reserve" /\ op[2] \notin NewProject

\* The holds a connection counts: those of its snapshot, or those of now.
Counted(c) ==
  IF Serializable(conn[c].op) THEN conn[c].seen ELSE ActiveHolds(UserOf(conn[c].op))

\* Mutant of Refused: the job that is one too many is let in.
RefusedLate(c, a) ==
  LET kind == conn[c].op[1]
  IN  \/ kind = "reserve" /\ Cardinality(Counted(c)) > MaxConcurrentJobs
      \/ kind = "reserve" /\ Gross(a) < MIN_SPEND
      \/ kind = "flat" /\ Gross(a) < PRICE

\* ConcurrentJobLimitError and InsufficientCreditsError.
Refused(c, a) ==
  LET kind == conn[c].op[1]
  IN  \/ kind = "reserve" /\ Cardinality(Counted(c)) >= MaxConcurrentJobs
      \/ kind = "reserve" /\ Gross(a) < MIN_SPEND
      \/ kind = "flat" /\ Gross(a) < PRICE

-----------------------------------------------------------------------------
(* A connection: its operation, the statement `at` it is about to run, the
   account row as the transaction has `read` it, `grant` when it has written the
   signup grant's row, which nobody sees before it commits, and `hook` when it
   runs for a webhook delivery.  A Serializable one has `seen` the holds of its
   snapshot, and is `stale` once another transaction has committed what the two
   of them cannot both have done. *)

Idle == [op |-> None, at |-> "idle", read |-> None, grant |-> FALSE, hook |-> FALSE,
         seen |-> {}, stale |-> FALSE]

Init ==
  /\ account = [u \in User |-> None]
  /\ booked = [u \in User |-> 0]
  /\ keys = {}
  /\ hold = [j \in Job |-> [status |-> "NONE", consumed |-> 0]]
  /\ redeemedBy = {} /\ redeemed = 0
  /\ locked = [u \in User |-> None] /\ promoLocked = None
  /\ conn = [c \in Conn |-> Idle]
  /\ call = [k \in Call |-> [job |-> None, n |-> 0, state |-> "none", tries |-> 0]]
  /\ index = [j \in Job |-> 1] /\ summaries = [j \in Job |-> 0]
  /\ turns = [j \in Job |-> 0] /\ retried = {}
  /\ event = [i \in Order \cup Cycle |-> "none"]
  /\ faults = 0

FirstStatement(kind) ==
  CASE kind = "meter" -> "lock"
    [] kind = "plan"  -> "lookup"
    [] kind = "promo" -> "promo"
    [] OTHER -> "ensure"

Begin(c, op, hook) ==
  /\ conn[c].at = "idle"
  /\ conn' = [conn EXCEPT ![c] =
       [Idle EXCEPT !.op = op, !.at = FirstStatement(op[1]), !.hook = hook,
                    !.seen = IF Serializable(op) THEN ActiveHolds(UserOf(op)) ELSE {}]]

Goto(c, at) == conn' = [conn EXCEPT ![c].at = at]

Running(op) == \E c \in Conn : conn[c].op = op

\* The transaction is over and its caller has the answer.  meterWithRetry calls
\* again after an error; processRazorpayWebhook sets processedAt after success.
Close(c, ok, outdated) ==
  LET op == conn[c].op
  IN  /\ conn' = [d \in Conn |-> IF d = c THEN Idle
                                ELSE [conn[d] EXCEPT !.stale = @ \/ d \in outdated]]
      /\ locked' = [u \in User |-> IF locked[u] = c THEN None ELSE locked[u]]
      /\ promoLocked' = IF promoLocked = c THEN None ELSE promoLocked
      /\ call' = IF op[1] # "meter" THEN call
                 ELSE IF ok THEN [call EXCEPT ![op[2]].state = "billed"]
                            ELSE [call EXCEPT ![op[2]].tries = @ - 1]
      /\ event' = IF ok /\ conn[c].hook THEN [event EXCEPT ![op[2]] = "done"] ELSE event

Return(c, ok) == Close(c, ok, {})

-----------------------------------------------------------------------------
(* Statements of a transaction. *)

\* Mutant of LockPromo: SELECT without FOR UPDATE.
LockPromoUnwaiting(c) ==
  LET u == UserOf(conn[c].op)
  IN  /\ conn[c].at = "promo"
      /\ IF redeemed >= MaxRedemptions \/ u \in redeemedBy
         THEN Return(c, FALSE)
         ELSE /\ promoLocked' = c
              /\ Goto(c, "ensure")
              /\ UNCHANGED <<locked, call, event>>
      /\ UNCHANGED <<database, counters, faults>>

\* redeem: lock the PromoCode row, then its checks; the PromoRedemption and the
\* count are written under that lock and become visible at Commit.
LockPromo(c) ==
  LET u == UserOf(conn[c].op)
  IN  /\ conn[c].at = "promo" /\ promoLocked = None
      /\ IF redeemed >= MaxRedemptions \/ u \in redeemedBy
         THEN Return(c, FALSE)
         ELSE /\ promoLocked' = c
              /\ Goto(c, "ensure")
              /\ UNCHANGED <<locked, call, event>>
      /\ UNCHANGED <<database, counters, faults>>

\* ensureBillingAccount, the upsert.  Inside a transaction the new row is seen,
\* and locked, by that transaction alone.
Ensure(c) ==
  LET u == UserOf(conn[c].op)
  IN  /\ conn[c].at = "ensure"
      /\ \/ /\ account[u] # None
            /\ Goto(c, "read")
            /\ UNCHANGED <<account, locked>>
         \/ /\ account[u] = None /\ locked[u] = None
            /\ IF conn[c].op[1] = "ensure"
               THEN /\ account' = [account EXCEPT ![u] = Seed]
                    /\ Goto(c, "read")
                    /\ UNCHANGED locked
               ELSE /\ locked' = [locked EXCEPT ![u] = c]
                    /\ conn' = [conn EXCEPT ![c].at = "read", ![c].read = Seed]
                    /\ UNCHANGED account
      /\ UNCHANGED <<booked, keys, hold, redeemedBy, redeemed>>
      /\ UNCHANGED <<promoLocked, call, counters, event, faults>>

\* ensureBillingAccount, findUnique.
ReadGrant(c) ==
  LET op == conn[c].op
  IN  /\ conn[c].at = "read"
      /\ IF GrantKey(UserOf(op)) \notin keys
         THEN Goto(c, "insert") /\ UNCHANGED <<locked, promoLocked, call, event>>
         ELSE IF op[1] = "ensure" THEN Return(c, TRUE)
         ELSE Goto(c, "lock") /\ UNCHANGED <<locked, promoLocked, call, event>>
      /\ UNCHANGED <<database, counters, faults>>

\* ensureBillingAccount, create.  It waits for a transaction that has inserted
\* the same key and, the row having a foreign key, for one that holds the
\* account.  P2002 is caught, but Postgres has then given up a transaction the
\* insert ran in, and its next statement fails.
InsertGrant(c) ==
  LET op == conn[c].op
      u  == UserOf(op)
  IN  /\ conn[c].at = "insert"
      /\ locked[u] \in {None, c}
      /\ \A d \in Conn \ {c} : conn[d].grant => UserOf(conn[d].op) # u
      /\ IF GrantKey(u) \in keys
         THEN Return(c, op[1] = "ensure") /\ UNCHANGED <<booked, keys>>
         ELSE IF op[1] = "ensure"
         THEN /\ keys' = keys \cup {GrantKey(u)}
              /\ booked' = [booked EXCEPT ![u] = @ + GRANT]
              /\ Return(c, TRUE)
         ELSE /\ conn' = [conn EXCEPT ![c].grant = TRUE, ![c].at = "lock"]
              /\ UNCHANGED <<booked, keys, locked, promoLocked, call, event>>
      /\ UNCHANGED <<account, hold, redeemedBy, redeemed, counters, faults>>

\* grantPlanCycle looks its key up before it takes the lock.
Lookup(c) ==
  /\ conn[c].at = "lookup"
  /\ IF Key(conn[c].op) \in keys
     THEN Return(c, TRUE)
     ELSE Goto(c, "lock") /\ UNCHANGED <<locked, promoLocked, call, event>>
  /\ UNCHANGED <<database, counters, faults>>

\* The rest of an operation up to its writes, which the row lock makes one step.
AfterLock(c, row) ==
  LET op == conn[c].op
  IN  IF op[1] \in {"meter", "bonus", "flat"} /\ Key(op) \in keys THEN "repeat"
      ELSE IF conn[c].stale \/ Refused(c, row) THEN "refused" ELSE "write"

\* Mutant of MayLock: SELECT without FOR UPDATE.
MayLockUnwaiting(c, u) == TRUE

\* FOR UPDATE waits for the holder of the row, and for a transaction whose new
\* ledger row refers to it.
MayLock(c, u) ==
  /\ locked[u] \in {None, c}
  /\ \A d \in Conn \ {c} : conn[d].grant => UserOf(conn[d].op) # u

\* lockAccount, the duplicate check and the refusals.
Lock(c) ==
  LET op  == conn[c].op
      u   == UserOf(op)
      row == IF conn[c].read # None THEN conn[c].read ELSE account[u]
      at  == AfterLock(c, row)
  IN  /\ conn[c].at = "lock" /\ MayLock(c, u)
      /\ IF at = "refused"
         THEN Return(c, FALSE)
         ELSE /\ locked' = [locked EXCEPT ![u] = c]
              /\ conn' = [conn EXCEPT ![c].at = at, ![c].read = row]
              /\ UNCHANGED <<promoLocked, call, event>>
      /\ UNCHANGED <<database, counters, faults>>

\* Mutant of Taken: the key has no unique index.
TakenUnindexed(op) == FALSE

\* The unique index on idempotencyKey refuses the row.
Taken(op) == op[1] # "reserve" /\ Key(op) \in keys

\* What becomes visible at once.
Write(c) ==
  LET op  == conn[c].op
      u   == UserOf(op)
      row == conn[c].read
      own == IF conn[c].at = "write" THEN op ELSE <<"none">>
      silent == own[1] \in {"none", "reserve"}
  IN  /\ account' = IF silent /\ account[u] # None THEN account
                    ELSE [account EXCEPT ![u] = After(own, row)]
      /\ booked' = [booked EXCEPT ![u] = @ + Amount(own, row) + IF conn[c].grant THEN GRANT ELSE 0]
      /\ keys' = keys \cup (IF conn[c].grant THEN {GrantKey(u)} ELSE {})
                      \cup (IF silent THEN {} ELSE {Key(own)})
      /\ hold' = CASE own[1] = "reserve" -> [hold EXCEPT ![op[2]] = [status |-> "ACTIVE", consumed |-> 0]]
                   [] own[1] = "meter" /\ call[op[2]].job # None ->
                        [hold EXCEPT ![call[op[2]].job].consumed = @ - Amount(own, row)]
                   [] OTHER -> hold
      /\ redeemedBy' = IF own[1] = "promo" THEN redeemedBy \cup {u} ELSE redeemedBy
      /\ redeemed' = IF own[1] = "promo" THEN redeemed + 1 ELSE redeemed

\* The snapshots that a commit outdates.  Serializable refuses a FOR UPDATE of a
\* row that was updated since (a lock alone does not count), and the second of
\* two transactions that each counted the holds before the other's.
Outdated(c) ==
  {d \in Conn \ {c} :
     /\ conn[d].at # "idle" /\ Serializable(conn[d].op)
     /\ UserOf(conn[d].op) = UserOf(conn[c].op)
     /\ conn[c].at = "write" /\ (conn[c].op[1] # "reserve" \/ Serializable(conn[c].op))}

\* The end of a transaction.  The acknowledgement may be lost: the caller then
\* takes what was committed for a failure.
Commit(c) ==
  /\ conn[c].at \in {"write", "repeat"}
  /\ IF conn[c].at = "write" /\ Taken(conn[c].op)
     THEN Return(c, FALSE) /\ UNCHANGED <<database, faults>>
     ELSE /\ Write(c)
          /\ \/ Close(c, TRUE, Outdated(c)) /\ UNCHANGED faults
             \/ faults < MaxFaults /\ faults' = faults + 1 /\ Close(c, FALSE, Outdated(c))
  /\ UNCHANGED counters

\* The connection or the process goes, and the transaction with it.
CutOff(c) ==
  /\ conn[c].at # "idle" /\ faults < MaxFaults
  /\ faults' = faults + 1
  /\ Return(c, FALSE)
  /\ UNCHANGED <<database, counters>>

-----------------------------------------------------------------------------
(* The callers. *)

Started == <<database, locked, promoLocked, call, counters, event, faults>>

\* At signup, and on every read of the balance.
EnsureAccount(c, u) == Begin(c, <<"ensure", u>>, FALSE) /\ UNCHANGED Started

\* A request that creates a generation job; the job's row is part of the
\* transaction, so that its id is new and has no hold.  For addMessage a project
\* exists, and with it the account and its grant.
Reserve(c, j) ==
  /\ j \in NewProject \/ GrantKey(Owner[j]) \in keys
  /\ hold[j].status = "NONE" /\ ~Running(<<"reserve", j>>)
  /\ Begin(c, <<"reserve", j>>, FALSE)
  /\ UNCHANGED Started

Redeem(c, u) == Begin(c, <<"promo", u>>, FALSE) /\ UNCHANGED Started

Charge(c, f) == Begin(c, <<"flat", f>>, FALSE) /\ UNCHANGED Started

\* One call made, or made again after an error.
Meter(c, k) ==
  /\ call[k].state = "made" /\ call[k].tries > 0 /\ ~Running(<<"meter", k>>)
  /\ Begin(c, <<"meter", k>>, FALSE)
  /\ UNCHANGED Started

\* verifyCreditPayment: the client's success callback, as often as it comes.  An
\* order of an unknown account or pack is refused.
Verify(c, o) ==
  /\ event[o] # "none" /\ o \notin Unmatched
  /\ Begin(c, <<"bonus", o>>, FALSE)
  /\ UNCHANGED Started

\* Mutant of Deliver: processedAt is set before the event is handled.
DeliverMarked(c, i) ==
  /\ event[i] = "due" /\ i \notin Unmatched
  /\ Begin(c, Handling(i), TRUE)
  /\ event' = [event EXCEPT ![i] = "done"]
  /\ UNCHANGED <<database, locked, promoLocked, call, counters, faults>>

\* processRazorpayWebhook.  The provider delivers an event until one delivery is
\* answered, and may deliver it twice at a time; one already processed returns.
Deliver(c, i) ==
  /\ event[i] = "due" /\ i \notin Unmatched
  /\ Begin(c, Handling(i), TRUE)
  /\ UNCHANGED Started

\* The same for a subscription without a Subscription row (subscribeToPro creates
\* it at the provider first, and may fail before it writes the row) and for an
\* order whose notes, or whose pack, the server does not know: the handler warns
\* and returns, and processedAt is set all the same.  Nothing is granted.
Discard(i) ==
  /\ event[i] = "due" /\ i \in Unmatched
  /\ event' = [event EXCEPT ![i] = "done"]
  /\ UNCHANGED <<database, locked, promoLocked, conn, call, counters, faults>>

\* settle, by whoever ends the job or by the hourly sweep.  It takes no lock.
Settle(j) ==
  /\ hold[j].status = "ACTIVE"
  /\ hold' = [hold EXCEPT ![j].status = "SETTLED"]
  /\ UNCHANGED <<account, booked, keys, redeemedBy, redeemed>>
  /\ UNCHANGED <<locked, promoLocked, conn, call, counters, event, faults>>

\* An order is paid, or a cycle charged, at the provider.  Both were set up by a
\* request that ensured the account.
Pay(i) ==
  /\ event[i] = "none" /\ account[Owner[i]] # None
  /\ event' = [event EXCEPT ![i] = "due"]
  /\ UNCHANGED <<database, locked, promoLocked, conn, call, counters, faults>>

\* A model call has been answered and will be metered under sequence n.
Made(k, j, n, tries) ==
  /\ call[k].state = "none" /\ Owner[k] = Owner[j]
  /\ hold[j].status # "NONE"
  /\ call' = [call EXCEPT ![k] = [job |-> j, n |-> n, state |-> "made", tries |-> tries]]
  /\ UNCHANGED <<database, locked, promoLocked, conn, event, faults>>

\* A turn of the main loop: its message's sequence.
MakeTurn(k, j) ==
  /\ Made(k, j, turns[j], 2)
  /\ turns' = [turns EXCEPT ![j] = @ + 1]
  /\ UNCHANGED <<index, summaries, retried>>

\* A sub-agent's turn (two tries) or another call of the harness (one): an index
\* of the job's events, negated.
MakeHarnessCall(k, j, tries) ==
  /\ index[j] <= MaxIndex
  /\ Made(k, j, -index[j], tries)
  /\ index' = [index EXCEPT ![j] = @ + 1]
  /\ UNCHANGED <<summaries, turns, retried>>

\* A summary of the context: the number of summaries of this attempt, negated.
MakeSummary(k, j) ==
  /\ Made(k, j, -(summaries[j] + 1), 2)
  /\ summaries' = [summaries EXCEPT ![j] = @ + 1]
  /\ UNCHANGED <<index, turns, retried>>

\* A frame of the job's event stream takes an index as well.
PublishFrame(j) ==
  /\ hold[j].status # "NONE" /\ index[j] <= MaxIndex
  /\ index' = [index EXCEPT ![j] = @ + 1]
  /\ UNCHANGED <<summaries, turns, retried>>
  /\ UNCHANGED <<database, locked, promoLocked, conn, call, event, faults>>

\* The runner's second attempt: a new agent loop, the same job and event buffer.
Retry(j) ==
  /\ hold[j].status # "NONE" /\ j \notin retried /\ Cardinality(retried) < MaxRetries
  /\ retried' = retried \cup {j}
  /\ summaries' = [summaries EXCEPT ![j] = 0]
  /\ UNCHANGED <<index, turns>>
  /\ UNCHANGED <<database, locked, promoLocked, conn, call, event, faults>>

\* A completion for an API key: preflight's look at the balance, the upstream
\* call, then one attempt to meter it under its own request id.
MakeCompletion(k) ==
  /\ call[k].state = "none"
  /\ account[Owner[k]] # None /\ Gross(account[Owner[k]]) >= MIN_BALANCE
  /\ call' = [call EXCEPT ![k] = [job |-> None, n |-> 0, state |-> "made", tries |-> 1]]
  /\ UNCHANGED <<database, locked, promoLocked, conn, counters, event, faults>>

Statement(c) ==
  \/ LockPromo(c) \/ Ensure(c) \/ ReadGrant(c) \/ InsertGrant(c)
  \/ Lookup(c) \/ Lock(c) \/ Commit(c)

Next ==
  \/ \E c \in Conn :
       \/ Statement(c) \/ CutOff(c)
       \/ \E u \in User : EnsureAccount(c, u) \/ Redeem(c, u)
       \/ \E j \in Job : Reserve(c, j)
       \/ \E k \in Call : Meter(c, k)
       \/ \E f \in Fee : Charge(c, f)
       \/ \E o \in Order : Verify(c, o)
       \/ \E i \in Order \cup Cycle : Deliver(c, i)
  \/ \E j \in Job : Settle(j) \/ PublishFrame(j) \/ Retry(j)
  \/ \E k \in Call, j \in Job :
       MakeTurn(k, j) \/ MakeSummary(k, j) \/ \E tries \in 1..2 : MakeHarnessCall(k, j, tries)
  \/ \E k \in Call : MakeCompletion(k)
  \/ \E i \in Order \cup Cycle : Pay(i) \/ Discard(i)

Spec == Init /\ [][Next]_vars

-----------------------------------------------------------------------------
(* Properties. *)

\* Every value is in its domain: no bucket is negative, a connection's state is
\* one of its kind.
TypeOK ==
  /\ account \in [User -> Buckets \cup {None}]
  /\ booked \in [User -> Int]
  /\ hold \in [Job -> [status : {"NONE", "ACTIVE", "SETTLED"}, consumed : Nat]]
  /\ redeemedBy \subseteq User /\ redeemed \in Nat
  /\ locked \in [User -> Conn \cup {None}] /\ promoLocked \in Conn \cup {None}
  /\ conn \in [Conn -> [op : Op \cup {None},
                        at : {"idle", "promo", "ensure", "read", "insert", "lookup", "lock", "write", "repeat"},
                        read : Buckets \cup {None}, grant : BOOLEAN, hook : BOOLEAN,
                        seen : SUBSET Job, stale : BOOLEAN]]
  /\ call \in [Call -> [job : Job \cup {None}, n : Int, state : {"none", "made", "billed"}, tries : 0..2]]
  /\ event \in [Order \cup Cycle -> {"none", "due", "done"}]
  /\ faults \in 0..MaxFaults

\* The money record: the ledger's rows of an account add up to its balance, but
\* for the signup grant while its row is still missing
\* (prisma/schema.prisma, CreditLedger).
LedgerMatchesBalance ==
  \A u \in User :
    IF account[u] = None THEN booked[u] = 0 /\ GrantKey(u) \notin keys
    ELSE Gross(account[u]) = booked[u] + IF GrantKey(u) \in keys THEN 0 ELSE GRANT

\* Among requests of one kind the limit is kept: the row lock orders two new
\* projects, and Serializable two follow-up messages.
CapAmongEqual ==
  \A u \in User : \A kind \in {NewProject, Job \ NewProject} :
    Cardinality(ActiveHolds(u) \cap kind) <= MaxConcurrentJobs

\* The promo code is redeemed at most so often, once by an account, and its
\* counter, its redemptions and their ledger rows agree.
PromoWithinLimit ==
  /\ redeemed <= MaxRedemptions
  /\ redeemed = Cardinality(redeemedBy)
  /\ \A u \in User : u \in redeemedBy <=> <<"promo", u>> \in keys

\* A webhook event of which the server knows the account is marked processed only
\* when its money is there: a crash in between costs a second delivery, never
\* the credits.  The others are marked without any (Discard).
ProcessedMeansGranted ==
  \A i \in (Order \cup Cycle) \ Unmatched :
    event[i] = "done" => Handling(i) \in keys

\* Two model calls of a job never share a debit key, which would leave the
\* second of them uncharged (worker/lib/meterCall.ts: the counter "gives this
\* call a sequence no other debit has").
DebitKeysDistinct ==
  \A k, l \in Call :
    k # l /\ call[k].job # None /\ call[k].job = call[l].job => call[k].n # call[l].n

-----------------------------------------------------------------------------
(* What an account promises: Wallet. *)

AnyKey == ({"debit"} \X Job \X (-(MaxIndex + Cardinality(Call)) .. Cardinality(Call)))
          \cup ({"meter"} \X Call) \cup ({"bonus"} \X Order) \cup ({"plan"} \X Cycle)
          \cup ({"flat"} \X Fee) \cup ({"promo"} \X User)

Opened == {u \in User : account[u] # None}

W == INSTANCE Wallet WITH
       KeySet <- AnyKey,
       Whose <- [k \in AnyKey |-> IF k[1] = "promo" THEN k[2] ELSE Owner[k[2]]],
       opened <- Opened,
       balance <- [u \in User |-> IF account[u] = None THEN 0 ELSE Gross(account[u])],
       applied <- keys \cap AnyKey

\* Seen from outside, a balance moves in single steps, each under a key of its
\* own and by the amount that key stands for: the locks, the retries, the double
\* deliveries and the crashes do not show.
WalletImplemented == W!Spec
=============================================================================
