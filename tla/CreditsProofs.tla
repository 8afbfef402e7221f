--------------------------- MODULE CreditsProofs ---------------------------
(* Theorems about Credits that hold for any accounts, connections, jobs,      *)
(* calls, orders, cycles and fees, any amounts and any number of faults.      *)
EXTENDS Credits, FiniteSetTheorems, TLAPS

USE CreditsAssumption


-----------------------------------------------------------------------------
(* Operations and amounts. *)

Item == Job \cup Call \cup Order \cup Cycle \cup Fee

\* An operation is its kind and what it is about.
LEMMA OpShape ==
  ASSUME NEW op \in Op
  PROVE  /\ op = <<op[1], op[2]>> /\ UserOf(op) \in User /\ op # None
         /\ op[1] \in {"reserve", "meter", "bonus", "plan", "flat", "promo", "ensure"}
         /\ op[1] = "reserve" => op[2] \in Job
         /\ op[1] = "meter" => op[2] \in Call
         /\ op[1] = "bonus" => op[2] \in Order
         /\ op[1] = "plan" => op[2] \in Cycle
         /\ op[1] = "flat" => op[2] \in Fee
         /\ op[1] \in {"promo", "ensure"} => op[2] \in User
BY DEF Op, UserOf

\* Every request of a caller is an operation.
LEMMA OpMade ==
  /\ \A u \in User : <<"ensure", u>> \in Op /\ <<"promo", u>> \in Op
  /\ \A j \in Job : <<"reserve", j>> \in Op
  /\ \A k \in Call : <<"meter", k>> \in Op
  /\ \A f \in Fee : <<"flat", f>> \in Op
  /\ \A o \in Order : <<"bonus", o>> \in Op
  /\ \A y \in Cycle : <<"plan", y>> \in Op
BY DEF Op

\* The signup grant is a row of buckets like any other.
LEMMA SeedType == Seed \in Buckets /\ Gross(Seed) = GRANT /\ Seed # None /\ None \notin Buckets
BY DEF Seed, Buckets, Gross

\* Spending takes the amount, or all there is, from the buckets together.
LEMMA SpendTakes ==
  ASSUME NEW a \in Buckets, NEW amount \in Nat
  PROVE  /\ Spend(a, amount) \in Buckets
         /\ Gross(a) \in Nat
         /\ Gross(Spend(a, amount)) = Gross(a) - Least(amount, Gross(a))
BY DEF Spend, Least, Gross, Buckets

\* The ledger records what the buckets lost or gained.
LEMMA AmountIsChange ==
  ASSUME NEW op, NEW a \in Buckets
  PROVE  /\ After(op, a) \in Buckets
         /\ Amount(op, a) \in Int
         /\ Gross(After(op, a)) = Gross(a) + Amount(op, a)
         /\ op[1] \in {"meter", "flat"} => -Amount(op, a) \in Nat
         /\ op[1] \in {"none", "reserve", "ensure"} => After(op, a) = a /\ Amount(op, a) = 0
<1>1. CASE op[1] = "meter"
  <2>1. After(op, a) = Spend(a, COST)
    BY <1>1 DEF After
  <2>2. Amount(op, a) = -Least(COST, Gross(a))
    BY <1>1 DEF Amount
  <2>3. Gross(a) \in Nat /\ COST \in Nat /\ Least(COST, Gross(a)) \in Nat
    BY SpendTakes DEF Least
  <2>4. /\ Spend(a, COST) \in Buckets
        /\ Gross(Spend(a, COST)) = Gross(a) - Least(COST, Gross(a))
    BY SpendTakes
  <2>5. -(-Least(COST, Gross(a))) = Least(COST, Gross(a)) /\ -Least(COST, Gross(a)) \in Int
    BY <2>3
  <2>6. Gross(a) - Least(COST, Gross(a)) = Gross(a) + (-Least(COST, Gross(a)))
    BY <2>3
  <2> QED
    BY <1>1, <2>1, <2>2, <2>3, <2>4, <2>5, <2>6
<1>2. CASE op[1] = "flat"
  <2>1. After(op, a) = Spend(a, PRICE)
    BY <1>2 DEF After
  <2>2. Amount(op, a) = -Least(PRICE, Gross(a))
    BY <1>2 DEF Amount
  <2>3. Gross(a) \in Nat /\ PRICE \in Nat /\ Least(PRICE, Gross(a)) \in Nat
    BY SpendTakes DEF Least
  <2>4. /\ Spend(a, PRICE) \in Buckets
        /\ Gross(Spend(a, PRICE)) = Gross(a) - Least(PRICE, Gross(a))
    BY SpendTakes
  <2>5. -(-Least(PRICE, Gross(a))) = Least(PRICE, Gross(a)) /\ -Least(PRICE, Gross(a)) \in Int
    BY <2>3
  <2>6. Gross(a) - Least(PRICE, Gross(a)) = Gross(a) + (-Least(PRICE, Gross(a)))
    BY <2>3
  <2> QED
    BY <1>2, <2>1, <2>2, <2>3, <2>4, <2>5, <2>6
<1>3. CASE op[1] = "bonus"
  BY <1>3 DEF After, Amount, Gross, Buckets
<1>4. CASE op[1] = "promo"
  BY <1>4 DEF After, Amount, Gross, Buckets
<1>5. CASE op[1] = "plan"
  BY <1>5 DEF After, Amount, Gross, Buckets
<1>6. CASE op[1] \notin {"meter", "flat", "bonus", "promo", "plan"}
  BY <1>6 DEF After, Amount, Gross, Buckets
<1> QED
  BY <1>1, <1>2, <1>3, <1>4, <1>5, <1>6
-----------------------------------------------------------------------------
(* The inductive invariant. *)

Stage == {"idle", "promo", "ensure", "read", "insert", "lookup", "lock", "write", "repeat"}
ConnRecord == [op : Op \cup {None}, at : Stage, read : Buckets \cup {None},
               grant : BOOLEAN, hook : BOOLEAN, seen : SUBSET Job, stale : BOOLEAN]

\* The types, by what uses them.
MoneyTyped ==
  /\ account \in [User -> Buckets \cup {None}]
  /\ booked \in [User -> Int]
  /\ locked \in [User -> Conn \cup {None}]
ConnTyped == conn \in [Conn -> ConnRecord]
CallTyped ==
  call \in [Call -> [job : Job \cup {None}, n : Int, state : {"none", "made", "billed"}, tries : 0..2]]
HoldTyped == hold \in [Job -> [status : {"NONE", "ACTIVE", "SETTLED"}, consumed : Nat]]
EventTyped == event \in [Order \cup Cycle -> {"none", "due", "done"}]
CountTyped ==
  /\ redeemedBy \subseteq User /\ redeemed \in Nat
  /\ promoLocked \in Conn \cup {None}
  /\ index \in [Job -> Nat] /\ summaries \in [Job -> Nat] /\ turns \in [Job -> Nat]
  /\ faults \in 0..MaxFaults

\* What exists belongs to an account that exists.
Opening ==
  /\ \A j \in Job : hold[j].status # "NONE" => account[Owner[j]] # None
  /\ \A k \in Call : call[k].state # "none" => account[Owner[k]] # None
  /\ \A i \in Order \cup Cycle : event[i] # "none" => account[Owner[i]] # None

AccountOf(c) == UserOf(conn[c].op)

\* The row a transaction sees.
RowOf(u) == IF account[u] = None THEN Seed ELSE account[u]

\* A transaction has read the row it holds, and nobody has changed it since.
Reads ==
  \A c \in Conn : conn[c].read # None =>
    /\ conn[c].at # "idle"
    /\ locked[AccountOf(c)] = c /\ conn[c].read = RowOf(AccountOf(c))

\* A signup row that is about to be written is the account's only one.
Grants ==
  /\ \A c \in Conn : conn[c].grant => conn[c].at # "idle" /\ GrantKey(AccountOf(c)) \notin keys
  /\ \A c, d \in Conn : conn[c].grant /\ conn[d].grant /\ AccountOf(c) = AccountOf(d) => c = d

\* Where a transaction stands, and what it has got by then.
StageOK(k) ==
  /\ k.at = "idle" <=> k.op = None
  /\ k.at \in {"read", "insert", "lookup", "lock", "write", "repeat"} =>
       account[UserOf(k.op)] # None \/ k.read # None
  /\ k.at \in {"write", "repeat"} => k.read # None
  /\ k.at # "idle" /\ k.op[1] \in {"meter", "plan"} => account[UserOf(k.op)] # None
  /\ k.at # "idle" /\ k.op[1] = "ensure" =>
       k.at \in {"ensure", "read", "insert"} /\ k.read = None /\ ~k.grant
  /\ k.at = "repeat" /\ k.op[1] # "meter" => k.op \in keys
  /\ k.hook => /\ k.at # "idle" /\ k.op[2] \in Order \cup Cycle
               /\ k.op = Handling(k.op[2]) /\ event[k.op[2]] # "none"
Stages == \A c \in Conn : StageOK(conn[c])

\* A call is metered by one transaction at a time, and only with a try left.
Metering ==
  /\ \A c \in Conn : conn[c].at # "idle" /\ conn[c].op[1] = "meter" =>
       call[conn[c].op[2]].state = "made" /\ call[conn[c].op[2]].tries > 0
  /\ \A c, d \in Conn :
       conn[c].at # "idle" /\ conn[c].op[1] = "meter" /\ conn[d].op = conn[c].op => c = d

IInv ==
  /\ MoneyTyped /\ ConnTyped /\ CallTyped /\ HoldTyped /\ EventTyped /\ CountTyped
  /\ Opening /\ Reads /\ Grants /\ Stages /\ Metering
  /\ LedgerMatchesBalance
  /\ ProcessedMeansGranted

\* The typed parts together are the type invariant.
LEMMA InvTypes == IInv => TypeOK
BY DEF IInv, TypeOK, MoneyTyped, ConnTyped, ConnRecord, Stage, CallTyped, HoldTyped, EventTyped, CountTyped

\* Initially no account exists, and no transaction is in progress.
LEMMA InitInv == Init => IInv
<1> SUFFICES ASSUME Init PROVE IInv
  OBVIOUS
<1>1. MoneyTyped /\ CallTyped /\ HoldTyped /\ EventTyped /\ CountTyped
  BY DEF Init, MoneyTyped, CallTyped, HoldTyped, EventTyped, CountTyped
<1>2. ConnTyped
  BY DEF Init, ConnTyped, ConnRecord, Stage, Idle
<1>3. Opening
  BY DEF Init, Opening
<1>4. Reads /\ Grants /\ Metering
  BY DEF Init, Reads, Grants, Metering, Idle
<1>5. Stages
  BY DEF Init, Stages, StageOK, Idle
<1>6. LedgerMatchesBalance /\ ProcessedMeansGranted
  BY DEF Init, LedgerMatchesBalance, ProcessedMeansGranted
<1> QED
  BY <1>1, <1>2, <1>3, <1>4, <1>5, <1>6 DEF IInv

-----------------------------------------------------------------------------
(* Transactions begin and go on. *)

\* Begin, for whichever caller.
LEMMA BeginKeeps ==
  ASSUME IInv, NEW c \in Conn, NEW op \in Op, NEW hook \in BOOLEAN, Begin(c, op, hook),
         op[1] \in {"meter", "plan"} => account[UserOf(op)] # None,
         op[1] = "meter" => /\ call[op[2]].state = "made" /\ call[op[2]].tries > 0
                            /\ ~Running(op),
         hook => /\ op[2] \in Order \cup Cycle /\ op = Handling(op[2])
                 /\ event[op[2]] # "none",
         UNCHANGED Started
  PROVE  IInv'
<1> DEFINE s == IF Serializable(op) THEN ActiveHolds(UserOf(op)) ELSE {}
           k == [Idle EXCEPT !.op = op, !.at = FirstStatement(op[1]), !.hook = hook, !.seen = s]
<1>0. /\ MoneyTyped /\ ConnTyped /\ CallTyped /\ HoldTyped /\ EventTyped /\ CountTyped
      /\ Opening /\ Reads /\ Grants /\ Stages /\ Metering
      /\ LedgerMatchesBalance /\ ProcessedMeansGranted
  BY DEF IInv
<1>1. /\ UNCHANGED <<account, booked, keys, hold, redeemedBy, redeemed, locked, promoLocked>>
      /\ UNCHANGED <<call, index, summaries, turns, event, faults>>
  BY DEF Started, database, counters
<1>2. s \in SUBSET Job
  BY DEF ActiveHolds
<1>3. /\ conn' = [conn EXCEPT ![c] = k]
      /\ conn[c].at = "idle"
  BY DEF Begin
<1>4. FirstStatement(op[1]) \in {"lock", "lookup", "promo", "ensure"}
  BY DEF FirstStatement
<1> HIDE DEF s
<1>5. /\ k \in ConnRecord /\ k.op = op /\ k.at = FirstStatement(op[1])
      /\ k.hook = hook /\ k.read = None /\ k.grant = FALSE
  <2>1. FirstStatement(op[1]) \in Stage
    BY <1>4 DEF Stage
  <2> DEFINE at == FirstStatement(op[1])
  <2> HIDE DEF at
  <2>2. k = [Idle EXCEPT !.op = op, !.at = at, !.hook = hook, !.seen = s]
    BY DEF at
  <2> HIDE DEF k
  <2>3. at \in Stage
    BY <2>1 DEF at
  <2>4. /\ k \in ConnRecord /\ k.op = op /\ k.at = at
        /\ k.hook = hook /\ k.read = None /\ k.grant = FALSE
    <3>1. Idle \in ConnRecord /\ Idle.read = None /\ Idle.grant = FALSE
      BY DEF Idle, ConnRecord, Stage
    <3> QED
      BY <1>2, <2>2, <2>3, <3>1 DEF ConnRecord
  <2> QED
    BY <2>4 DEF at
<1> HIDE DEF k
<1>6. ConnTyped'
  BY <1>0, <1>3, <1>5 DEF ConnTyped
<1>7. conn'[c] = k /\ \A d \in Conn \ {c} : conn'[d] = conn[d]
  BY <1>0, <1>3, <1>5 DEF ConnTyped
<1>8. MoneyTyped' /\ CallTyped' /\ HoldTyped' /\ EventTyped' /\ CountTyped' /\ Opening'
  BY <1>0, <1>1 DEF MoneyTyped, CallTyped, HoldTyped, EventTyped, CountTyped, Opening
<1>9. LedgerMatchesBalance' /\ ProcessedMeansGranted'
  BY <1>0, <1>1 DEF LedgerMatchesBalance, ProcessedMeansGranted
<1>10. Reads'
  BY <1>0, <1>1, <1>5, <1>7 DEF Reads, AccountOf, RowOf
<1>11. Grants'
  BY <1>0, <1>1, <1>5, <1>7 DEF Grants, AccountOf
<1>12. op # None /\ op[1] \in {"reserve", "meter", "bonus", "plan", "flat", "promo", "ensure"}
  BY OpShape
<1>13. op[1] = "ensure" => FirstStatement(op[1]) = "ensure"
  BY DEF FirstStatement
<1>14. FirstStatement(op[1]) \in {"lock", "lookup"} => op[1] \in {"meter", "plan"}
  BY DEF FirstStatement
<1>15. Stages'
  <2> SUFFICES ASSUME NEW d \in Conn PROVE StageOK(conn[d])'
    BY DEF Stages
  <2>1. CASE d = c
    BY <1>1, <1>4, <1>7, <1>12, <1>13, <1>14, <1>5, <2>1 DEF StageOK
  <2>2. CASE d # c
    BY <1>0, <1>1, <1>7, <2>2 DEF Stages, StageOK, UserOf
  <2> QED
    BY <2>1, <2>2
<1>16. Metering'
  BY <1>0, <1>1, <1>3, <1>5, <1>7, <1>12 DEF Metering, Running, Stages, StageOK
<1> QED
  BY <1>6, <1>8, <1>9, <1>10, <1>11, <1>15, <1>16 DEF IInv

\* A transaction goes on: it may take the lock of its account, read the row and
\* write the signup row.
LEMMA AdvanceKeeps ==
  ASSUME IInv, NEW c \in Conn, NEW k \in ConnRecord,
         conn[c].at # "idle", k.at # "idle",
         k.op = conn[c].op, k.hook = conn[c].hook, StageOK(k),
         conn' = [conn EXCEPT ![c] = k],
         \/ UNCHANGED locked
         \/ locked[AccountOf(c)] \in {None, c} /\ locked' = [locked EXCEPT ![AccountOf(c)] = c],
         \/ k.read = conn[c].read
         \/ k.read = RowOf(AccountOf(c)) /\ locked'[AccountOf(c)] = c /\ locked[AccountOf(c)] \in {None, c},
         \/ k.grant = conn[c].grant
         \/ /\ GrantKey(AccountOf(c)) \notin keys
            /\ \A d \in Conn \ {c} : conn[d].grant => AccountOf(d) # AccountOf(c),
         promoLocked' \in Conn \cup {None},
         UNCHANGED <<database, call, counters, event, faults>>
  PROVE  IInv'
<1>0. /\ MoneyTyped /\ ConnTyped /\ CallTyped /\ HoldTyped /\ EventTyped /\ CountTyped
      /\ Opening /\ Reads /\ Grants /\ Stages /\ Metering
      /\ LedgerMatchesBalance /\ ProcessedMeansGranted
  BY DEF IInv
<1>1. /\ UNCHANGED <<account, booked, keys, hold, redeemedBy, redeemed>>
      /\ UNCHANGED <<call, index, summaries, turns, event, faults>>
  BY DEF database, counters
<1>2. ConnTyped'
  BY <1>0 DEF ConnTyped
<1>3. conn'[c] = k /\ \A d \in Conn \ {c} : conn'[d] = conn[d]
  BY <1>0 DEF ConnTyped
<1>4. conn[c].op \in Op /\ AccountOf(c) \in User
  BY <1>0, OpShape DEF Stages, StageOK, ConnTyped, ConnRecord, AccountOf
<1>5. MoneyTyped' /\ CallTyped' /\ HoldTyped' /\ EventTyped' /\ CountTyped' /\ Opening'
  BY <1>0, <1>1, <1>4 DEF MoneyTyped, CallTyped, HoldTyped, EventTyped, CountTyped, Opening
<1>6. LedgerMatchesBalance' /\ ProcessedMeansGranted'
  BY <1>0, <1>1 DEF LedgerMatchesBalance, ProcessedMeansGranted
<1>7. /\ locked'[AccountOf(c)] = locked[AccountOf(c)] \/ locked'[AccountOf(c)] = c
      /\ \A u \in User : u # AccountOf(c) => locked'[u] = locked[u]
  BY <1>0, <1>4 DEF MoneyTyped
<1>8. \A d \in Conn : AccountOf(d)' = AccountOf(d)
  BY <1>3 DEF AccountOf
<1>9. \A u : RowOf(u)' = RowOf(u)
  BY <1>1 DEF RowOf
<1>10. Reads'
  <2> SUFFICES ASSUME NEW d \in Conn, conn'[d].read # None
               PROVE  /\ conn'[d].at # "idle"
                      /\ locked'[AccountOf(d)] = d /\ conn'[d].read = RowOf(AccountOf(d))
    BY <1>8, <1>9 DEF Reads
  <2>1. CASE d = c
    BY <1>0, <1>3, <1>4, <1>7, <2>1 DEF Reads
  <2>2. CASE d # c
    <3>1. /\ conn[d].at # "idle" /\ locked[AccountOf(d)] = d /\ conn[d].read = RowOf(AccountOf(d))
      BY <1>0, <1>3, <2>2 DEF Reads
    <3>2. d # None /\ AccountOf(d) \in User
      BY <1>0, <3>1, OpShape DEF Stages, StageOK, ConnTyped, ConnRecord, AccountOf
    <3>3. locked'[AccountOf(d)] = d
      BY <1>0, <1>4, <1>7, <2>2, <3>1, <3>2 DEF MoneyTyped
    <3> QED
      BY <1>3, <2>2, <3>1, <3>3
  <2> QED
    BY <2>1, <2>2
<1>11. Grants'
  BY <1>0, <1>1, <1>3, <1>8 DEF Grants
<1>12. Stages'
  <2> SUFFICES ASSUME NEW d \in Conn PROVE StageOK(conn[d])'
    BY DEF Stages
  <2>1. CASE d = c
    BY <1>1, <1>3, <2>1 DEF StageOK
  <2>2. CASE d # c
    BY <1>0, <1>1, <1>3, <2>2 DEF Stages, StageOK
  <2> QED
    BY <2>1, <2>2
<1>13. Metering'
  BY <1>0, <1>1, <1>3 DEF Metering
<1> QED
  BY <1>2, <1>5, <1>6, <1>10, <1>11, <1>12, <1>13 DEF IInv

-----------------------------------------------------------------------------
(* Transactions end. *)

\* What the end of c's transaction may do to the database: account u alone
\* changes, its row only while c or nobody holds it, its signup row only while no
\* other transaction has written one, and the ledger keeps up with the balance.
Moves(c) ==
  LET u == AccountOf(c)
  IN  /\ account' \in [User -> Buckets \cup {None}] /\ booked' \in [User -> Int]
      /\ HoldTyped' /\ redeemedBy' \subseteq User /\ redeemed' \in Nat
      /\ \A v \in User : account[v] # None => account'[v] # None
      /\ \A v \in User \ {u} : /\ account'[v] = account[v] /\ booked'[v] = booked[v]
                               /\ GrantKey(v) \in keys' <=> GrantKey(v) \in keys
      /\ \/ locked[u] \in {None, c} \/ account'[u] = account[u]
         \/ account[u] = None /\ account'[u] = Seed
      /\ \/ GrantKey(u) \in keys' <=> GrantKey(u) \in keys
         \/ \A d \in Conn \ {c} : conn[d].grant => AccountOf(d) # u
      /\ keys \subseteq keys'
      /\ \A j \in Job : hold'[j].status # "NONE" => account'[Owner[j]] # None
      /\ IF account'[u] = None THEN booked'[u] = 0 /\ GrantKey(u) \notin keys'
         ELSE Gross(account'[u]) = booked'[u] + IF GrantKey(u) \in keys' THEN 0 ELSE GRANT

\* Nobody else notices that a transaction is closed, except a stale one.
LEMMA CloseFrees ==
  ASSUME IInv, NEW c \in Conn, NEW ok \in BOOLEAN, NEW outdated, Close(c, ok, outdated)
  PROVE  /\ ConnTyped' /\ conn'[c] = Idle
         /\ \A d \in Conn \ {c} :
              /\ conn'[d].op = conn[d].op /\ conn'[d].at = conn[d].at
              /\ conn'[d].read = conn[d].read /\ conn'[d].grant = conn[d].grant
              /\ conn'[d].hook = conn[d].hook
         /\ locked' \in [User -> Conn \cup {None}] /\ promoLocked' \in Conn \cup {None}
         /\ \A u \in User : locked[u] # c => locked'[u] = locked[u]
<1>0. MoneyTyped /\ ConnTyped /\ CountTyped
  BY DEF IInv
<1>1. conn' = [d \in Conn |-> IF d = c THEN Idle
                              ELSE [conn[d] EXCEPT !.stale = @ \/ d \in outdated]]
  BY DEF Close
<1>2. Idle \in ConnRecord
  BY DEF Idle, ConnRecord, Stage
<1>3. ASSUME NEW d \in Conn, NEW b \in BOOLEAN
      PROVE  LET k == [conn[d] EXCEPT !.stale = b]
             IN  /\ k \in ConnRecord
                 /\ k.op = conn[d].op /\ k.at = conn[d].at /\ k.read = conn[d].read
                 /\ k.grant = conn[d].grant /\ k.hook = conn[d].hook
  BY <1>0 DEF ConnTyped, ConnRecord
<1>4. ConnTyped'
  BY <1>1, <1>2, <1>3 DEF ConnTyped
<1>5. conn'[c] = Idle
  BY <1>1
<1>6. ASSUME NEW d \in Conn \ {c}
      PROVE  /\ conn'[d].op = conn[d].op /\ conn'[d].at = conn[d].at
             /\ conn'[d].read = conn[d].read /\ conn'[d].grant = conn[d].grant
             /\ conn'[d].hook = conn[d].hook
  BY <1>1, <1>3
<1>7. /\ locked' \in [User -> Conn \cup {None}] /\ promoLocked' \in Conn \cup {None}
      /\ \A u \in User : locked[u] # c => locked'[u] = locked[u]
  BY <1>0 DEF Close, MoneyTyped, CountTyped
<1> QED
  BY <1>4, <1>5, <1>6, <1>7

\* What the caller of a transaction learns.
LEMMA CloseTells ==
  ASSUME IInv, NEW c \in Conn, NEW ok \in BOOLEAN, NEW outdated, Close(c, ok, outdated),
         conn[c].at # "idle"
  PROVE  /\ CallTyped' /\ EventTyped'
         /\ \A k \in Call : /\ call'[k].state # "none" => call[k].state # "none"
                            /\ conn[c].op = <<"meter", k>> \/ call'[k] = call[k]
         /\ \A i \in Order \cup Cycle :
              /\ event[i] # "none" <=> event'[i] # "none"
              /\ event'[i] = "done" => \/ event[i] = "done"
                                       \/ (ok /\ conn[c].hook /\ conn[c].op = Handling(i))
<1>0. ConnTyped /\ CallTyped /\ EventTyped /\ Stages /\ Metering
  BY DEF IInv
<1>1. conn[c].op \in Op
  BY <1>0 DEF Stages, StageOK, ConnTyped, ConnRecord
<1> DEFINE op == conn[c].op
<1>2. /\ op = <<op[1], op[2]>>
      /\ op[1] = "meter" => op[2] \in Call
  BY <1>1, OpShape
<1>3. op[1] = "meter" => call[op[2]].state = "made" /\ call[op[2]].tries \in 1..2
  BY <1>0, <1>2 DEF Metering, CallTyped
<1>4. call' = IF op[1] # "meter" THEN call
              ELSE IF ok THEN [call EXCEPT ![op[2]].state = "billed"]
                         ELSE [call EXCEPT ![op[2]].tries = @ - 1]
  BY DEF Close
<1>5. event' = IF ok /\ conn[c].hook THEN [event EXCEPT ![op[2]] = "done"] ELSE event
  BY DEF Close
<1>6. conn[c].hook => /\ op[2] \in Order \cup Cycle /\ op = Handling(op[2])
                      /\ event[op[2]] # "none"
  BY <1>0 DEF Stages, StageOK
<1> HIDE DEF op
<1>7. CallTyped'
  <2>1. CASE op[1] # "meter"
    BY <1>0, <1>4, <2>1 DEF CallTyped
  <2>2. CASE op[1] = "meter" /\ ok
    BY <1>0, <1>2, <1>4, <2>2 DEF CallTyped
  <2>3. CASE op[1] = "meter" /\ ~ok
    <3>1. call[op[2]].tries - 1 \in 0..2
      BY <1>3, <2>3
    <3> QED
      BY <1>0, <1>2, <1>4, <2>3, <3>1 DEF CallTyped
  <2> QED
    BY <2>1, <2>2, <2>3
<1>8. ASSUME NEW k \in Call
      PROVE  /\ call'[k].state # "none" => call[k].state # "none"
             /\ op = <<"meter", k>> \/ call'[k] = call[k]
  BY <1>0, <1>2, <1>3, <1>4 DEF CallTyped
<1>9. EventTyped'
  BY <1>0, <1>5, <1>6 DEF EventTyped
<1>10. ASSUME NEW i \in Order \cup Cycle
       PROVE  /\ event[i] # "none" <=> event'[i] # "none"
              /\ event'[i] = "done" => event[i] = "done" \/ (ok /\ conn[c].hook /\ op = Handling(i))
  <2>1. CASE ok /\ conn[c].hook
    <3>1. event' = [event EXCEPT ![op[2]] = "done"]
      BY <1>5, <2>1
    <3>2. CASE i = op[2]
      <4>1. event'[i] = "done" /\ event[i] # "none" /\ op = Handling(i)
        BY <1>6, <2>1, <3>1, <3>2, <1>0 DEF EventTyped
      <4> QED
        BY <2>1, <4>1
    <3>3. CASE i # op[2]
      BY <1>0, <3>1, <3>3 DEF EventTyped
    <3> QED
      BY <3>2, <3>3
  <2>2. CASE ~(ok /\ conn[c].hook)
    <3>1. event' = event
      BY <1>5, <2>2
    <3> QED
      BY <3>1
  <2> QED
    BY <2>1, <2>2
<1> QED
  BY <1>7, <1>8, <1>9, <1>10 DEF op

\* A transaction that ends keeps the invariant if what it wrote fits: the one
\* lemma in which the ledger and the buckets meet.
LEMMA EndKeeps ==
  ASSUME IInv, NEW c \in Conn, NEW ok \in BOOLEAN, NEW outdated, Close(c, ok, outdated),
         conn[c].at # "idle", Moves(c), faults' \in 0..MaxFaults, UNCHANGED counters,
         ok /\ conn[c].hook => conn[c].op \in keys'
  PROVE  IInv'
<1>0. /\ MoneyTyped /\ ConnTyped /\ CallTyped /\ HoldTyped /\ EventTyped /\ CountTyped
      /\ Opening /\ Reads /\ Grants /\ Stages /\ Metering
      /\ LedgerMatchesBalance /\ ProcessedMeansGranted
  BY DEF IInv
<1> DEFINE u == AccountOf(c)
<1>1. /\ ConnTyped' /\ conn'[c] = Idle
      /\ \A d \in Conn \ {c} :
           /\ conn'[d].op = conn[d].op /\ conn'[d].at = conn[d].at
           /\ conn'[d].read = conn[d].read /\ conn'[d].grant = conn[d].grant
           /\ conn'[d].hook = conn[d].hook
      /\ locked' \in [User -> Conn \cup {None}] /\ promoLocked' \in Conn \cup {None}
      /\ \A v \in User : locked[v] # c => locked'[v] = locked[v]
  BY CloseFrees
<1>2. /\ CallTyped' /\ EventTyped'
      /\ \A k \in Call : /\ call'[k].state # "none" => call[k].state # "none"
                         /\ conn[c].op = <<"meter", k>> \/ call'[k] = call[k]
      /\ \A i \in Order \cup Cycle :
           /\ event[i] # "none" <=> event'[i] # "none"
           /\ event'[i] = "done" => \/ event[i] = "done"
                                    \/ (ok /\ conn[c].hook /\ conn[c].op = Handling(i))
  BY CloseTells
<1>3. /\ account' \in [User -> Buckets \cup {None}] /\ booked' \in [User -> Int]
      /\ HoldTyped' /\ redeemedBy' \subseteq User /\ redeemed' \in Nat
      /\ \A v \in User : account[v] # None => account'[v] # None
      /\ \A v \in User \ {u} : /\ account'[v] = account[v] /\ booked'[v] = booked[v]
                               /\ GrantKey(v) \in keys' <=> GrantKey(v) \in keys
      /\ \/ locked[u] \in {None, c} \/ account'[u] = account[u]
         \/ account[u] = None /\ account'[u] = Seed
      /\ \/ GrantKey(u) \in keys' <=> GrantKey(u) \in keys
         \/ \A d \in Conn \ {c} : conn[d].grant => AccountOf(d) # u
      /\ keys \subseteq keys'
      /\ \A j \in Job : hold'[j].status # "NONE" => account'[Owner[j]] # None
      /\ IF account'[u] = None THEN booked'[u] = 0 /\ GrantKey(u) \notin keys'
         ELSE Gross(account'[u]) = booked'[u] + IF GrantKey(u) \in keys' THEN 0 ELSE GRANT
  BY DEF Moves
<1>3a. \A v \in User : v # u => account'[v] = account[v]
  BY DEF Moves
<1>3b. \A v \in User : v # u => booked'[v] = booked[v]
  BY DEF Moves
<1>3c. \A v \in User : v # u => (GrantKey(v) \in keys' <=> GrantKey(v) \in keys)
  BY DEF Moves
<1>4. Idle.op = None /\ Idle.at = "idle" /\ Idle.read = None /\ ~Idle.grant /\ ~Idle.hook
  BY DEF Idle
<1>5. u \in User /\ \A d \in Conn : conn[d].at # "idle" => conn[d].op \in Op /\ AccountOf(d) \in User
  BY <1>0, OpShape DEF Stages, StageOK, ConnTyped, ConnRecord, AccountOf
<1>6. \A d \in Conn \ {c} : AccountOf(d)' = AccountOf(d)
  BY <1>1 DEF AccountOf
<1>7. c # None /\ \A v \in User : GrantKey(v) = GrantKey(u) => v = u
  BY DEF GrantKey
<1> HIDE DEF u
<1>8. MoneyTyped' /\ CountTyped'
  BY <1>0, <1>1, <1>3 DEF MoneyTyped, CountTyped, counters
<1>9. Opening'
  BY <1>0, <1>2, <1>3 DEF Opening
<1>10. Reads'
  <2> SUFFICES ASSUME NEW d \in Conn, conn'[d].read # None
               PROVE  /\ conn'[d].at # "idle"
                      /\ locked'[AccountOf(d)'] = d
                      /\ conn'[d].read = IF account'[AccountOf(d)'] = None THEN Seed
                                         ELSE account'[AccountOf(d)']
    BY DEF Reads, RowOf
  <2>1. d # c /\ AccountOf(d)' = AccountOf(d) /\ conn[d].read # None
    BY <1>1, <1>4, <1>6
  <2>2. /\ conn[d].at # "idle" /\ locked[AccountOf(d)] = d /\ conn[d].read = RowOf(AccountOf(d))
    BY <1>0, <2>1 DEF Reads
  <2>3. AccountOf(d) \in User /\ d # None
    BY <1>5, <2>2
  <2>4. (IF account'[AccountOf(d)] = None THEN Seed ELSE account'[AccountOf(d)]) = RowOf(AccountOf(d))
    <3>1. CASE AccountOf(d) = u
      BY <1>3, <2>1, <2>2, <2>3, <3>1, SeedType DEF RowOf
    <3>2. CASE AccountOf(d) # u
      BY <1>3a, <2>3, <3>2 DEF RowOf
    <3> QED
      BY <3>1, <3>2
  <2> QED
    BY <1>1, <2>1, <2>2, <2>3, <2>4
<1>11. Grants'
  <2>1. ASSUME NEW d \in Conn, conn'[d].grant
        PROVE  /\ d # c /\ conn[d].grant /\ conn'[d].at # "idle" /\ AccountOf(d) \in User
               /\ GrantKey(AccountOf(d)') \notin keys'
    <3>1. d # c /\ AccountOf(d)' = AccountOf(d) /\ conn[d].grant
      BY <1>1, <1>4, <1>6, <2>1
    <3>2. conn[d].at # "idle" /\ GrantKey(AccountOf(d)) \notin keys /\ AccountOf(d) \in User
      BY <1>0, <1>5, <3>1 DEF Grants
    <3>3. GrantKey(AccountOf(d)) \notin keys'
      <4>1. CASE AccountOf(d) # u
        BY <1>3c, <3>2, <4>1
      <4>2. CASE AccountOf(d) = u
        BY <1>3, <3>1, <3>2, <4>2
      <4> QED
        BY <4>1, <4>2
    <3> QED
      BY <1>1, <3>1, <3>2, <3>3
  <2>2. ASSUME NEW d \in Conn, NEW e \in Conn, conn'[d].grant, conn'[e].grant,
               AccountOf(d)' = AccountOf(e)'
        PROVE  d = e
    BY <1>0, <1>6, <2>1, <2>2 DEF Grants
  <2> QED
    BY <2>1, <2>2 DEF Grants
<1>12. Stages'
  <2> SUFFICES ASSUME NEW d \in Conn PROVE StageOK(conn[d])'
    BY DEF Stages
  <2>1. CASE d = c
    BY <1>1, <1>4, <2>1 DEF StageOK
  <2>2. CASE d # c
    <3>1. StageOK(conn[d])
      BY <1>0 DEF Stages
    <3>2. conn[d].at # "idle" => UserOf(conn[d].op) \in User
      BY <1>5 DEF AccountOf
    <3> QED
      BY <1>1, <1>2, <1>3, <2>2, <3>1, <3>2 DEF StageOK
  <2> QED
    BY <2>1, <2>2
<1>13. Metering'
  <2>1. ASSUME NEW d \in Conn, conn'[d].at # "idle", conn'[d].op[1] = "meter"
        PROVE  /\ d # c /\ conn[d].at # "idle" /\ conn[d].op[1] = "meter"
               /\ call'[conn[d].op[2]] = call[conn[d].op[2]]
    <3>1. d # c /\ conn[d].at # "idle" /\ conn[d].op[1] = "meter"
      BY <1>1, <1>4, <2>1
    <3>2. conn[d].op = <<"meter", conn[d].op[2]>> /\ conn[d].op[2] \in Call
      BY <1>5, <3>1, OpShape
    <3>3. conn[c].op # conn[d].op
      BY <1>0, <3>1 DEF Metering
    <3> QED
      BY <1>2, <3>1, <3>2, <3>3
  <2>2. ASSUME NEW d \in Conn, NEW e \in Conn, conn'[d].at # "idle", conn'[d].op[1] = "meter",
               conn'[e].op = conn'[d].op
        PROVE  d = e
    <3>1. CASE e = c
      BY <1>1, <1>4, <1>5, <2>1, <2>2, <3>1
    <3>2. CASE e # c
      BY <1>0, <1>1, <2>1, <2>2, <3>2 DEF Metering
    <3> QED
      BY <3>1, <3>2
  <2> QED
    BY <1>0, <1>1, <2>1, <2>2 DEF Metering
<1>14. LedgerMatchesBalance'
  <2> SUFFICES ASSUME NEW v \in User
               PROVE  IF account'[v] = None THEN booked'[v] = 0 /\ GrantKey(v) \notin keys'
                      ELSE Gross(account'[v]) = booked'[v] + IF GrantKey(v) \in keys' THEN 0 ELSE GRANT
    BY DEF LedgerMatchesBalance, Gross, GrantKey
  <2>1. CASE v = u
    BY <1>3, <2>1
  <2>2. CASE v # u
    BY <1>0, <1>3a, <1>3b, <1>3c, <2>2 DEF LedgerMatchesBalance
  <2> QED
    BY <2>1, <2>2
<1>15. ProcessedMeansGranted'
  BY <1>0, <1>2, <1>3 DEF ProcessedMeansGranted
<1> QED
  BY <1>1, <1>2, <1>3, <1>8, <1>9, <1>10, <1>11, <1>12, <1>13, <1>14, <1>15 DEF IInv

\* Nothing but the stage of one connection moves.
LEMMA StillMoves ==
  ASSUME IInv, NEW c \in Conn, conn[c].at # "idle", UNCHANGED database
  PROVE  Moves(c)
<1>1. UNCHANGED <<account, booked, keys, hold, redeemedBy, redeemed>>
  BY DEF database
<1>2. MoneyTyped /\ HoldTyped /\ CountTyped /\ Opening /\ LedgerMatchesBalance
  BY DEF IInv
<1>3. AccountOf(c) \in User
  BY OpShape DEF IInv, Stages, StageOK, ConnTyped, ConnRecord, AccountOf
<1>4. HoldTyped'
  BY <1>1, <1>2 DEF HoldTyped
<1> QED
  BY <1>1, <1>2, <1>3, <1>4 DEF Moves, MoneyTyped, CountTyped, Opening, LedgerMatchesBalance

\* The transaction changes nothing and closes.
LEMMA ReturnKeeps ==
  ASSUME IInv, NEW c \in Conn, NEW ok \in BOOLEAN, Return(c, ok), conn[c].at # "idle",
         UNCHANGED database, UNCHANGED counters, faults' \in 0..MaxFaults,
         ok /\ conn[c].hook => conn[c].op \in keys
  PROVE  IInv'
<1>1. Close(c, ok, {}) /\ Moves(c) /\ keys' = keys
  BY StillMoves DEF Return, database
<1> QED
  BY <1>1, EndKeeps

\* It goes on to another statement.
LEMMA GotoKeeps ==
  ASSUME IInv, NEW c \in Conn, NEW at \in Stage \ {"idle"}, Goto(c, at), conn[c].at # "idle",
         StageOK([conn[c] EXCEPT !.at = at]), promoLocked' \in Conn \cup {None},
         UNCHANGED <<database, locked, call, counters, event, faults>>
  PROVE  IInv'
<1> DEFINE k == [conn[c] EXCEPT !.at = at]
<1>1. conn[c] \in ConnRecord
  BY DEF IInv, ConnTyped
<1>2. /\ k \in ConnRecord /\ k.at # "idle" /\ k.op = conn[c].op /\ k.hook = conn[c].hook
      /\ k.read = conn[c].read /\ k.grant = conn[c].grant
  BY <1>1 DEF ConnRecord
<1>3. conn' = [conn EXCEPT ![c] = k]
  BY DEF Goto
<1> HIDE DEF k
<1>4. /\ UNCHANGED locked /\ UNCHANGED <<database, call, counters, event, faults>>
      /\ StageOK(k)
  BY DEF k
<1> QED
  BY <1>2, <1>3, <1>4, AdvanceKeeps

\* What holds of a transaction in progress.
LEMMA InProgress ==
  ASSUME IInv, NEW c \in Conn, conn[c].at # "idle"
  PROVE  /\ conn[c] \in ConnRecord /\ conn[c].op \in Op /\ AccountOf(c) \in User
         /\ AccountOf(c) = UserOf(conn[c].op) /\ StageOK(conn[c])
         /\ conn[c].hook => conn[c].op[1] \in {"bonus", "plan"}
         /\ faults' = faults => faults' \in 0..MaxFaults
         /\ promoLocked \in Conn \cup {None} /\ c # None
<1>1. /\ conn[c] \in ConnRecord /\ conn[c].op \in Op /\ StageOK(conn[c]) /\ CountTyped
  BY DEF IInv, Stages, StageOK, ConnTyped, ConnRecord
<1>2. AccountOf(c) \in User /\ AccountOf(c) = UserOf(conn[c].op)
  BY <1>1, OpShape DEF AccountOf
<1>3. conn[c].hook => conn[c].op[1] \in {"bonus", "plan"}
  <2>1. conn[c].hook => conn[c].op = Handling(conn[c].op[2])
    BY <1>1 DEF StageOK
  <2>2. \A i : Handling(i)[1] \in {"bonus", "plan"}
    BY DEF Handling
  <2> QED
    BY <2>1, <2>2
<1> QED
  BY <1>1, <1>2, <1>3 DEF CountTyped

\* The stage alone moves.
LEMMA Staged ==
  ASSUME NEW k \in ConnRecord, NEW at \in Stage \ {"idle"}, StageOK(k), k.at # "idle",
         at \in {"read", "insert", "lookup", "lock"} =>
           account[UserOf(k.op)] # None \/ k.read # None,
         at \notin {"write", "repeat"},
         k.op[1] = "ensure" => at \in {"ensure", "read", "insert"}
  PROVE  StageOK([k EXCEPT !.at = at])
<1> DEFINE m == [k EXCEPT !.at = at]
<1>1. /\ m.at = at /\ m.op = k.op /\ m.read = k.read /\ m.grant = k.grant /\ m.hook = k.hook
  BY DEF ConnRecord
<1> HIDE DEF m
<1>2. StageOK(m)
  BY <1>1 DEF StageOK
<1> QED
  BY <1>2 DEF m

\* Waiting for the row of the promo code.
LEMMA LockPromoKeeps == ASSUME IInv, NEW c \in Conn, LockPromo(c) PROVE IInv'
<1> DEFINE u == UserOf(conn[c].op)
<1>1. /\ conn[c].at = "promo" /\ UNCHANGED <<database, counters, faults>>
      /\ \/ Return(c, FALSE)
         \/ promoLocked' = c /\ Goto(c, "ensure") /\ UNCHANGED <<locked, call, event>>
  BY DEF LockPromo
<1>2. /\ conn[c] \in ConnRecord /\ StageOK(conn[c]) /\ conn[c].op[1] # "ensure"
      /\ faults' \in 0..MaxFaults
  BY <1>1, InProgress DEF StageOK
<1>3. CASE Return(c, FALSE)
  BY <1>1, <1>2, <1>3, ReturnKeeps
<1>4. CASE promoLocked' = c /\ Goto(c, "ensure") /\ UNCHANGED <<locked, call, event>>
  <2>1. StageOK([conn[c] EXCEPT !.at = "ensure"]) /\ "ensure" \in Stage \ {"idle"}
    BY <1>1, <1>2, Staged DEF Stage
  <2>2. UNCHANGED <<database, locked, call, counters, event, faults>>
    BY <1>1, <1>4
  <2> QED
    BY <1>1, <1>4, <2>1, <2>2, GotoKeeps
<1> QED
  BY <1>1, <1>3, <1>4

\* The look for the idempotency key without a lock.
LEMMA LookupKeeps == ASSUME IInv, NEW c \in Conn, Lookup(c) PROVE IInv'
<1>1. /\ conn[c].at = "lookup" /\ UNCHANGED <<database, counters, faults>>
      /\ \/ Key(conn[c].op) \in keys /\ Return(c, TRUE)
         \/ Goto(c, "lock") /\ UNCHANGED <<locked, promoLocked, call, event>>
  BY DEF Lookup
<1>2. /\ conn[c] \in ConnRecord /\ StageOK(conn[c]) /\ conn[c].op[1] # "ensure"
      /\ account[UserOf(conn[c].op)] # None \/ conn[c].read # None
      /\ conn[c].hook => conn[c].op[1] # "meter"
      /\ faults' \in 0..MaxFaults /\ promoLocked \in Conn \cup {None}
  BY <1>1, InProgress DEF StageOK
<1>3. CASE Key(conn[c].op) \in keys /\ Return(c, TRUE)
  <2>1. conn[c].hook => conn[c].op \in keys
    BY <1>2, <1>3 DEF Key
  <2> QED
    BY <1>1, <1>2, <1>3, <2>1, ReturnKeeps
<1>4. CASE Goto(c, "lock") /\ UNCHANGED <<locked, promoLocked, call, event>>
  <2>1. StageOK([conn[c] EXCEPT !.at = "lock"]) /\ "lock" \in Stage \ {"idle"}
    BY <1>1, <1>2, Staged DEF Stage
  <2>2. UNCHANGED <<database, locked, call, counters, event, faults>>
    BY <1>1, <1>4
  <2> QED
    BY <1>1, <1>2, <1>4, <2>1, <2>2, GotoKeeps
<1> QED
  BY <1>1, <1>3, <1>4

\* The look for the signup row.
LEMMA ReadGrantKeeps == ASSUME IInv, NEW c \in Conn, ReadGrant(c) PROVE IInv'
<1>1. /\ conn[c].at = "read" /\ UNCHANGED <<database, counters, faults>>
      /\ \/ conn[c].op[1] = "ensure" /\ Return(c, TRUE)
         \/ Goto(c, "insert") /\ UNCHANGED <<locked, promoLocked, call, event>>
         \/ /\ conn[c].op[1] # "ensure" /\ Goto(c, "lock")
            /\ UNCHANGED <<locked, promoLocked, call, event>>
  BY DEF ReadGrant
<1>2. /\ conn[c] \in ConnRecord /\ StageOK(conn[c])
      /\ account[UserOf(conn[c].op)] # None \/ conn[c].read # None
      /\ conn[c].hook => conn[c].op[1] # "ensure"
      /\ faults' \in 0..MaxFaults /\ promoLocked \in Conn \cup {None}
  BY <1>1, InProgress DEF StageOK
<1>3. CASE conn[c].op[1] = "ensure" /\ Return(c, TRUE)
  <2>1. ~conn[c].hook
    BY <1>2, <1>3
  <2> QED
    BY <1>1, <1>2, <1>3, <2>1, ReturnKeeps
<1>4. ASSUME NEW at \in {"insert", "lock"}, at = "lock" => conn[c].op[1] # "ensure",
             Goto(c, at), UNCHANGED <<locked, promoLocked, call, event>>
      PROVE  IInv'
  <2>1. StageOK([conn[c] EXCEPT !.at = at]) /\ at \in Stage \ {"idle"}
    BY <1>1, <1>2, <1>4, Staged DEF Stage
  <2>2. UNCHANGED <<database, locked, call, counters, event, faults>>
    BY <1>1, <1>4
  <2> QED
    BY <1>1, <1>2, <1>4, <2>1, <2>2, GotoKeeps
<1> QED
  BY <1>1, <1>3, <1>4

\* A cut off transaction leaves nothing behind.
LEMMA CutOffKeeps == ASSUME IInv, NEW c \in Conn, CutOff(c) PROVE IInv'
<1>1. /\ conn[c].at # "idle" /\ faults < MaxFaults /\ faults' = faults + 1
      /\ Return(c, FALSE) /\ UNCHANGED <<database, counters>>
  BY DEF CutOff
<1>2. faults' \in 0..MaxFaults
  BY <1>1 DEF IInv, CountTyped
<1> QED
  BY <1>1, <1>2, ReturnKeeps

\* The account of a caller outside any transaction is created at once.
LEMMA OpensKeeps ==
  ASSUME IInv, NEW c \in Conn, conn[c].at = "ensure", conn[c].op[1] = "ensure",
         account[AccountOf(c)] = None, locked[AccountOf(c)] = None,
         account' = [account EXCEPT ![AccountOf(c)] = Seed], Goto(c, "read"),
         UNCHANGED <<booked, keys, hold, redeemedBy, redeemed>>,
         UNCHANGED <<locked, promoLocked, call, counters, event, faults>>
  PROVE  IInv'
<1> DEFINE u == AccountOf(c)
           k == [conn[c] EXCEPT !.at = "read"]
<1>0. /\ MoneyTyped /\ ConnTyped /\ CallTyped /\ HoldTyped /\ EventTyped /\ CountTyped
      /\ Opening /\ Reads /\ Grants /\ Stages /\ Metering
      /\ LedgerMatchesBalance /\ ProcessedMeansGranted
  BY DEF IInv
<1>1. UNCHANGED <<call, index, summaries, turns, event, faults>>
  BY DEF counters
<1>2. conn[c] \in ConnRecord /\ u \in User /\ StageOK(conn[c])
  BY InProgress
<1>3. /\ k \in ConnRecord /\ k.at = "read" /\ k.op = conn[c].op /\ k.hook = conn[c].hook
      /\ k.read = None /\ k.grant = FALSE
  <2>1. conn[c].read = None /\ ~conn[c].grant
    BY <1>2 DEF StageOK
  <2>2. conn[c].grant = FALSE
    BY <1>2, <2>1 DEF ConnRecord
  <2> QED
    BY <1>2, <2>1, <2>2 DEF ConnRecord, Stage
<1>4. conn' = [conn EXCEPT ![c] = k]
  BY DEF Goto
<1>5. conn'[c] = k /\ \A d \in Conn \ {c} : conn'[d] = conn[d]
  BY <1>0, <1>4 DEF ConnTyped
<1>6. /\ account'[u] = Seed /\ Seed # None /\ Seed \in Buckets
      /\ \A v \in User \ {u} : account'[v] = account[v]
  BY <1>0, <1>2, SeedType DEF MoneyTyped
<1>7. \A d \in Conn : AccountOf(d)' = AccountOf(d)
  BY <1>3, <1>5 DEF AccountOf
<1>8. account[u] = None /\ locked[u] = None /\ UNCHANGED <<locked, booked, keys>>
  OBVIOUS
<1> HIDE DEF k, u
<1>9. MoneyTyped' /\ CallTyped' /\ HoldTyped' /\ EventTyped' /\ CountTyped'
  BY <1>0, <1>1, <1>2, <1>6 DEF MoneyTyped, CallTyped, HoldTyped, EventTyped, CountTyped
<1>10. ConnTyped'
  BY <1>0, <1>3, <1>4 DEF ConnTyped
<1>11. \A v \in User : account[v] # None => account'[v] # None
  BY <1>6, <1>8
<1>12. Opening'
  BY <1>0, <1>1, <1>11 DEF Opening
<1>13. Reads'
  <2> SUFFICES ASSUME NEW d \in Conn, conn'[d].read # None
               PROVE  /\ conn'[d].at # "idle" /\ locked'[AccountOf(d)'] = d
                      /\ conn'[d].read = RowOf(AccountOf(d))'
    BY DEF Reads
  <2>1. d # c /\ conn[d].read # None
    BY <1>3, <1>5
  <2>2. /\ conn[d].at # "idle" /\ locked[AccountOf(d)] = d
        /\ conn[d].read = RowOf(AccountOf(d))
    BY <1>0, <2>1 DEF Reads
  <2>3. AccountOf(d) \in User /\ d # None
    BY <2>2, InProgress
  <2>4. AccountOf(d) # u
    BY <1>8, <2>2, <2>3
  <2> QED
    BY <1>5, <1>6, <1>7, <1>8, <2>1, <2>2, <2>3, <2>4 DEF RowOf
<1>14. Grants'
  BY <1>0, <1>3, <1>5, <1>7, <1>8 DEF Grants
<1>15. Stages'
  <2> SUFFICES ASSUME NEW d \in Conn PROVE StageOK(conn[d])'
    BY DEF Stages
  <2>1. CASE d = c
    BY <1>1, <1>2, <1>3, <1>5, <1>6, <1>8, <2>1 DEF StageOK, u, AccountOf
  <2>2. CASE d # c
    <3>1. conn'[d] = conn[d] /\ StageOK(conn[d])
      BY <1>0, <1>5, <2>2 DEF Stages
    <3>2. conn[d].at # "idle" => UserOf(conn[d].op) \in User
      BY InProgress
    <3> QED
      BY <1>1, <1>8, <1>11, <3>1, <3>2 DEF StageOK
  <2> QED
    BY <2>1, <2>2
<1>16. Metering'
  BY <1>0, <1>1, <1>3, <1>5 DEF Metering
<1>17. LedgerMatchesBalance'
  BY <1>0, <1>2, <1>6, <1>8, SeedType DEF LedgerMatchesBalance
<1>18. ProcessedMeansGranted'
  BY <1>0, <1>1, <1>8 DEF ProcessedMeansGranted
<1> QED
  BY <1>9, <1>10, <1>12, <1>13, <1>14, <1>15, <1>16, <1>17, <1>18 DEF IInv

\* The upsert of the account.
LEMMA EnsureKeeps == ASSUME IInv, NEW c \in Conn, Ensure(c) PROVE IInv'
<1> DEFINE u == AccountOf(c)
<1>1. /\ conn[c].at = "ensure"
      /\ UNCHANGED <<booked, keys, hold, redeemedBy, redeemed>>
      /\ UNCHANGED <<promoLocked, call, counters, event, faults>>
      /\ \/ account[u] # None /\ Goto(c, "read") /\ UNCHANGED <<account, locked>>
         \/ /\ account[u] = None /\ locked[u] = None /\ conn[c].op[1] = "ensure"
            /\ account' = [account EXCEPT ![u] = Seed] /\ Goto(c, "read") /\ UNCHANGED locked
         \/ /\ account[u] = None /\ locked[u] = None /\ conn[c].op[1] # "ensure"
            /\ locked' = [locked EXCEPT ![u] = c]
            /\ conn' = [conn EXCEPT ![c].at = "read", ![c].read = Seed] /\ UNCHANGED account
  BY DEF Ensure, AccountOf
<1>2. /\ conn[c] \in ConnRecord /\ StageOK(conn[c]) /\ u \in User /\ u = UserOf(conn[c].op)
      /\ promoLocked \in Conn \cup {None}
  BY <1>1, InProgress
<1>3. CASE account[u] # None /\ Goto(c, "read") /\ UNCHANGED <<account, locked>>
  <2>1. StageOK([conn[c] EXCEPT !.at = "read"]) /\ "read" \in Stage \ {"idle"}
    BY <1>1, <1>2, <1>3, Staged DEF Stage
  <2>2. UNCHANGED <<database, locked, call, counters, event, faults>>
    BY <1>1, <1>3 DEF database
  <2> QED
    BY <1>1, <1>2, <1>3, <2>1, <2>2, GotoKeeps
<1>4. CASE /\ account[u] = None /\ locked[u] = None /\ conn[c].op[1] = "ensure"
           /\ account' = [account EXCEPT ![u] = Seed] /\ Goto(c, "read") /\ UNCHANGED locked
  BY <1>1, <1>4, OpensKeeps
<1>5. CASE /\ account[u] = None /\ locked[u] = None /\ conn[c].op[1] # "ensure"
           /\ locked' = [locked EXCEPT ![u] = c]
           /\ conn' = [conn EXCEPT ![c].at = "read", ![c].read = Seed] /\ UNCHANGED account
  <2> DEFINE k == [conn[c] EXCEPT !.at = "read", !.read = Seed]
  <2>1. /\ k \in ConnRecord /\ k.at = "read" /\ k.op = conn[c].op /\ k.hook = conn[c].hook
        /\ k.read = Seed /\ k.grant = conn[c].grant
    BY <1>2, SeedType DEF ConnRecord, Stage
  <2>2. conn' = [conn EXCEPT ![c] = k]
    BY <1>5
  <2> HIDE DEF k
  <2>3. StageOK(k)
    BY <1>1, <1>2, <1>5, <2>1, SeedType DEF StageOK
  <2>4. k.read = RowOf(u) /\ locked'[u] = c
    BY <1>2, <1>5, <2>1 DEF RowOf, IInv, MoneyTyped
  <2>5. UNCHANGED <<database, call, counters, event, faults>> /\ promoLocked' \in Conn \cup {None}
    BY <1>1, <1>2, <1>5 DEF database
  <2> QED
    BY <1>1, <1>5, <2>1, <2>2, <2>3, <2>4, <2>5, AdvanceKeeps
<1> QED
  BY <1>1, <1>3, <1>4, <1>5

\* The signup row of the ledger, and the balance that goes with it.
LEMMA InsertGrantKeeps == ASSUME IInv, NEW c \in Conn, InsertGrant(c) PROVE IInv'
<1> DEFINE u == AccountOf(c)
           op == conn[c].op
           k == [conn[c] EXCEPT !.grant = TRUE, !.at = "lock"]
<1>1. /\ conn[c].at = "insert" /\ locked[u] \in {None, c}
      /\ \A d \in Conn \ {c} : conn[d].grant => AccountOf(d) # u
      /\ UNCHANGED <<account, hold, redeemedBy, redeemed, counters, faults>>
      /\ \/ Return(c, op[1] = "ensure") /\ UNCHANGED <<booked, keys>>
         \/ /\ GrantKey(u) \notin keys /\ op[1] = "ensure" /\ Return(c, TRUE)
            /\ keys' = keys \cup {GrantKey(u)}
            /\ booked' = [booked EXCEPT ![u] = @ + GRANT]
         \/ /\ GrantKey(u) \notin keys /\ op[1] # "ensure" /\ conn' = [conn EXCEPT ![c] = k]
            /\ UNCHANGED <<booked, keys, locked, promoLocked, call, event>>
  BY DEF InsertGrant, AccountOf
<1>2. /\ conn[c] \in ConnRecord /\ StageOK(conn[c]) /\ u \in User /\ u = UserOf(op)
      /\ conn[c].hook => op[1] # "ensure"
      /\ account[u] # None \/ conn[c].read # None
      /\ faults' \in 0..MaxFaults /\ promoLocked \in Conn \cup {None}
  BY <1>1, InProgress DEF StageOK
<1>3. CASE Return(c, op[1] = "ensure") /\ UNCHANGED <<booked, keys>>
  <2>1. UNCHANGED database /\ UNCHANGED counters
    BY <1>1, <1>3 DEF database
  <2>2. (op[1] = "ensure") \in BOOLEAN /\ ((op[1] = "ensure") => ~conn[c].hook)
    BY <1>2
  <2> QED
    BY <1>1, <1>2, <1>3, <2>1, <2>2, ReturnKeeps
<1>4. CASE /\ GrantKey(u) \notin keys /\ op[1] = "ensure" /\ Return(c, TRUE)
           /\ keys' = keys \cup {GrantKey(u)}
           /\ booked' = [booked EXCEPT ![u] = @ + GRANT]
  <2>1. account[u] # None
    BY <1>1, <1>2, <1>4 DEF StageOK
  <2>2. MoneyTyped /\ HoldTyped /\ CountTyped /\ Opening /\ LedgerMatchesBalance
    BY DEF IInv
  <2>3. HoldTyped' /\ redeemedBy' \subseteq User /\ redeemed' \in Nat
    BY <1>1, <2>2 DEF HoldTyped, CountTyped
  <2> HIDE DEF u
  <2>4. booked' \in [User -> Int] /\ booked'[u] = booked[u] + GRANT /\ booked[u] \in Int
    BY <1>2, <1>4, <2>2 DEF MoneyTyped
  <2>5. \A v \in User \ {u} : booked'[v] = booked[v] /\ GrantKey(v) # GrantKey(u)
    BY <1>2, <1>4, <2>2 DEF MoneyTyped, GrantKey
  <2>6. account'[u] # None /\ Gross(account'[u]) = booked'[u] /\ GrantKey(u) \in keys'
    <3>1. Gross(account[u]) = booked[u] + GRANT
      BY <1>2, <1>4, <2>1, <2>2 DEF LedgerMatchesBalance
    <3> QED
      BY <1>1, <1>4, <2>1, <2>4, <3>1
  <2>7. Moves(c)
    <3>1. booked'[u] + 0 = booked'[u]
      BY <1>2, <2>4
    <3> QED
      BY <1>1, <1>2, <1>4, <2>2, <2>3, <2>4, <2>5, <2>6, <3>1
      DEF Moves, MoneyTyped, Opening, u
  <2>8. Close(c, TRUE, {}) /\ ~conn[c].hook /\ UNCHANGED counters
    BY <1>1, <1>2, <1>4 DEF Return
  <2> QED
    BY <1>1, <1>2, <2>7, <2>8, EndKeeps
<1>5. CASE /\ GrantKey(u) \notin keys /\ op[1] # "ensure" /\ conn' = [conn EXCEPT ![c] = k]
           /\ UNCHANGED <<booked, keys, locked, promoLocked, call, event>>
  <2>1. /\ k \in ConnRecord /\ k.at = "lock" /\ k.op = op /\ k.hook = conn[c].hook
        /\ k.read = conn[c].read
    BY <1>2 DEF ConnRecord, Stage
  <2> HIDE DEF k
  <2>2. StageOK(k)
    BY <1>1, <1>2, <1>5, <2>1 DEF StageOK
  <2>3. /\ UNCHANGED <<database, call, counters, event, faults>> /\ UNCHANGED locked
        /\ promoLocked' \in Conn \cup {None}
    BY <1>1, <1>2, <1>5 DEF database
  <2> QED
    BY <1>1, <1>5, <2>1, <2>2, <2>3, AdvanceKeeps
<1> QED
  BY <1>1, <1>3, <1>4, <1>5

\* The row lock, the second look at the key, and the checks under the lock.
LEMMA LockKeeps == ASSUME IInv, NEW c \in Conn, Lock(c) PROVE IInv'
<1> DEFINE u == AccountOf(c)
           op == conn[c].op
           row == IF conn[c].read # None THEN conn[c].read ELSE account[u]
           at == AfterLock(c, row)
           k == [conn[c] EXCEPT !.at = at, !.read = row]
<1>1. /\ conn[c].at = "lock" /\ locked[u] \in {None, c}
      /\ UNCHANGED <<database, counters, faults>>
      /\ \/ Return(c, FALSE)
         \/ /\ at # "refused" /\ locked' = [locked EXCEPT ![u] = c]
            /\ conn' = [conn EXCEPT ![c] = k] /\ UNCHANGED <<promoLocked, call, event>>
  BY DEF Lock, MayLock, AccountOf
<1>2. /\ conn[c] \in ConnRecord /\ StageOK(conn[c]) /\ u \in User /\ u = UserOf(op)
      /\ account[u] # None \/ conn[c].read # None
      /\ op[1] # "ensure"
      /\ faults' \in 0..MaxFaults /\ promoLocked \in Conn \cup {None}
  BY <1>1, InProgress DEF StageOK
<1>3. CASE Return(c, FALSE)
  BY <1>1, <1>2, <1>3, ReturnKeeps
<1>4. CASE /\ at # "refused" /\ locked' = [locked EXCEPT ![u] = c]
           /\ conn' = [conn EXCEPT ![c] = k] /\ UNCHANGED <<promoLocked, call, event>>
  <2>1. row \in Buckets /\ row = RowOf(u) /\ row # None
    BY <1>2, SeedType DEF RowOf, IInv, MoneyTyped, Reads, ConnRecord
  <2>2. /\ at \in {"write", "repeat"}
        /\ at = "repeat" /\ op[1] # "meter" => op \in keys
    BY <1>4 DEF AfterLock, Key
  <2> HIDE DEF at, row
  <2>3. /\ k \in ConnRecord /\ k.at = at /\ k.op = op /\ k.hook = conn[c].hook
        /\ k.read = row /\ k.grant = conn[c].grant
    BY <1>2, <2>1, <2>2 DEF ConnRecord, Stage
  <2> HIDE DEF k
  <2>4. StageOK(k)
    BY <1>1, <1>2, <2>1, <2>2, <2>3 DEF StageOK
  <2>5. locked'[u] = c
    BY <1>2, <1>4 DEF IInv, MoneyTyped
  <2>6. /\ UNCHANGED <<database, call, counters, event, faults>>
        /\ promoLocked' \in Conn \cup {None}
    BY <1>1, <1>2, <1>4
  <2> QED
    BY <1>1, <1>4, <2>1, <2>2, <2>3, <2>4, <2>5, <2>6, AdvanceKeeps
<1> QED
  BY <1>1, <1>3, <1>4

\* What a transaction's writes do.
LEMMA WriteMoves ==
  ASSUME IInv, NEW c \in Conn, conn[c].at \in {"write", "repeat"}, Write(c)
  PROVE  Moves(c) /\ (conn[c].hook => conn[c].op \in keys')
<1> DEFINE op == conn[c].op
           u == AccountOf(c)
           row == conn[c].read
           own == IF conn[c].at = "write" THEN op ELSE <<"none">>
           silent == own[1] \in {"none", "reserve"}
           got == IF conn[c].grant THEN GRANT ELSE 0
<1>0. MoneyTyped /\ HoldTyped /\ CallTyped /\ CountTyped /\ Opening /\ LedgerMatchesBalance
  BY DEF IInv
<1>1. /\ conn[c] \in ConnRecord /\ StageOK(conn[c]) /\ u \in User /\ u = UserOf(op)
      /\ conn[c].hook => op[1] \in {"bonus", "plan"}
      /\ op \in Op
  BY InProgress
<1>2. /\ row \in Buckets /\ row = RowOf(u) /\ locked[u] = c /\ op[1] # "ensure"
  BY <1>1 DEF StageOK, ConnRecord, IInv, Reads
<1>3. /\ After(own, row) \in Buckets /\ Amount(own, row) \in Int
      /\ Gross(After(own, row)) = Gross(row) + Amount(own, row)
      /\ own[1] \in {"meter", "flat"} => -Amount(own, row) \in Nat
      /\ silent => After(own, row) = row /\ Amount(own, row) = 0
  BY <1>2, AmountIsChange
<1>4. /\ own[1] \in {"none", "reserve", "meter", "bonus", "plan", "flat", "promo"}
      /\ own[1] # "none" => own = op /\ conn[c].at = "write"
      /\ own[1] = "none" => conn[c].at = "repeat"
  BY <1>1, <1>2, OpShape
<1>5. \A v \in User : silent \/ Key(own) # GrantKey(v)
  BY <1>4 DEF Key, GrantKey
<1>6. /\ account' = IF silent /\ account[u] # None THEN account
                    ELSE [account EXCEPT ![u] = After(own, row)]
      /\ booked' = [booked EXCEPT ![u] = @ + Amount(own, row) + got]
      /\ keys' = keys \cup (IF conn[c].grant THEN {GrantKey(u)} ELSE {})
                      \cup (IF silent THEN {} ELSE {Key(own)})
      /\ hold' = CASE own[1] = "reserve" -> [hold EXCEPT ![op[2]] = [status |-> "ACTIVE", consumed |-> 0]]
                   [] own[1] = "meter" /\ call[op[2]].job # None ->
                        [hold EXCEPT ![call[op[2]].job].consumed = @ - Amount(own, row)]
                   [] OTHER -> hold
      /\ redeemedBy' = IF own[1] = "promo" THEN redeemedBy \cup {u} ELSE redeemedBy
      /\ redeemed' = IF own[1] = "promo" THEN redeemed + 1 ELSE redeemed
  BY DEF Write, AccountOf
<1>7. redeemedBy' \subseteq User /\ redeemed' \in Nat
  <2> DEFINE promo == own[1] = "promo"
  <2>1. /\ redeemedBy' = IF promo THEN redeemedBy \cup {u} ELSE redeemedBy
        /\ redeemed' = IF promo THEN redeemed + 1 ELSE redeemed
    BY <1>6
  <2>2. redeemedBy \subseteq User /\ redeemed \in Nat
    BY <1>0 DEF CountTyped
  <2> HIDE DEF promo, u
  <2> QED
    BY <1>1, <2>1, <2>2
<1>8. /\ op = <<op[1], op[2]>>
      /\ own[1] = "reserve" => op[2] \in Job /\ Owner[op[2]] = u
      /\ own[1] = "meter" => op[2] \in Call
  BY <1>1, <1>4, OpShape DEF UserOf
<1>9. conn[c].hook => op \in keys'
  <2>1. CASE conn[c].at = "repeat"
    BY <1>1, <1>6, <2>1 DEF StageOK
  <2>2. CASE conn[c].at = "write"
    <3>1. conn[c].hook => ~silent /\ Key(own) = op
      BY <1>1, <2>2 DEF Key
    <3> QED
      BY <1>6, <3>1
  <2> QED
    BY <2>1, <2>2
<1> HIDE DEF silent, own, row, op, got
<1>10. /\ account' \in [User -> Buckets \cup {None}]
       /\ \A v \in User \ {u} : account'[v] = account[v]
       /\ account'[u] # None /\ account'[u] = After(own, row)
  <2>1. CASE silent /\ account[u] # None
    BY <1>0, <1>1, <1>2, <1>3, <1>6, <2>1, SeedType DEF MoneyTyped, RowOf
  <2>2. CASE ~(silent /\ account[u] # None)
    BY <1>0, <1>1, <1>3, <1>6, <2>2, SeedType DEF MoneyTyped
  <2> QED
    BY <2>1, <2>2
<1>11. got \in Int /\ booked[u] \in Int /\ Gross(row) \in Int
  BY <1>0, <1>1, <1>2, SpendTakes DEF got, MoneyTyped
<1>12. /\ booked' \in [User -> Int] /\ booked'[u] = booked[u] + Amount(own, row) + got
       /\ \A v \in User \ {u} : booked'[v] = booked[v]
  BY <1>0, <1>1, <1>3, <1>6, <1>11 DEF MoneyTyped
<1>13. /\ \A v \in User \ {u} : GrantKey(v) \in keys' <=> GrantKey(v) \in keys
       /\ GrantKey(u) \in keys' <=> GrantKey(u) \in keys \/ conn[c].grant
       /\ keys \subseteq keys'
  <2>1. \A v \in User \ {u} : GrantKey(v) # GrantKey(u)
    BY DEF GrantKey
  <2> QED
    BY <1>1, <1>5, <1>6, <2>1
<1>14. Gross(account'[u]) = booked'[u] + IF GrantKey(u) \in keys' THEN 0 ELSE GRANT
  <2>1. Gross(row) + 0 = booked[u] + (IF GrantKey(u) \in keys THEN 0 ELSE GRANT)
    BY <1>0, <1>1, <1>2, <1>11, SeedType DEF RowOf, LedgerMatchesBalance
  <2>2. conn[c].grant => GrantKey(u) \notin keys
    BY DEF IInv, Grants
  <2>3. (IF GrantKey(u) \in keys THEN 0 ELSE GRANT)
          = got + (IF GrantKey(u) \in keys' THEN 0 ELSE GRANT)
    BY <1>13, <2>2, SeedType DEF got
  <2> DEFINE before == IF GrantKey(u) \in keys THEN 0 ELSE GRANT
             now == IF GrantKey(u) \in keys' THEN 0 ELSE GRANT
             amount == Amount(own, row)
  <2>4. before \in Int /\ now \in Int /\ amount \in Int
    BY <1>3
  <2>5. Gross(account'[u]) = Gross(row) + amount
    BY <1>3, <1>10
  <2>6. booked'[u] = booked[u] + amount + got
    BY <1>12
  <2>7. Gross(row) + 0 = booked[u] + before /\ before = got + now
    BY <2>1, <2>3
  <2> HIDE DEF before, now, amount
  <2>8. Gross(account'[u]) = booked'[u] + now
    BY <1>11, <2>4, <2>5, <2>6, <2>7
  <2> QED
    BY <2>8 DEF now
<1>15. /\ HoldTyped'
       /\ \A j \in Job : hold'[j].status # "NONE" => hold[j].status # "NONE" \/ Owner[j] = u
  <2>1. CASE own[1] = "reserve"
    BY <1>0, <1>6, <1>8, <2>1 DEF HoldTyped
  <2>2. CASE own[1] = "meter" /\ call[op[2]].job # None
    <3> DEFINE j == call[op[2]].job
               amount == Amount(own, row)
    <3>1. j \in Job
      BY <1>0, <1>8, <2>2 DEF CallTyped
    <3>2. hold' = [hold EXCEPT ![j].consumed = @ - amount]
      BY <1>6, <2>2
    <3>3. amount \in Int /\ -amount \in Nat
      BY <1>3, <2>2
    <3> HIDE DEF j, amount
    <3>4. hold[j].consumed \in Nat
      BY <1>0, <3>1 DEF HoldTyped
    <3>5. hold[j].consumed - amount \in Nat
      BY <3>3, <3>4
    <3> QED
      BY <1>0, <3>1, <3>2, <3>5 DEF HoldTyped
  <2>3. CASE own[1] # "reserve" /\ ~(own[1] = "meter" /\ call[op[2]].job # None)
    <3>1. hold' = hold
      BY <1>6, <2>3
    <3> QED
      BY <1>0, <3>1 DEF HoldTyped
  <2> QED
    BY <2>1, <2>2, <2>3
<1>16. \A v \in User : account[v] # None => account'[v] # None
  BY <1>10
<1>17. \A j \in Job : hold'[j].status # "NONE" => account'[Owner[j]] # None
  BY <1>0, <1>10, <1>15, <1>16 DEF Opening
<1>18. conn[c].grant => \A d \in Conn \ {c} : conn[d].grant => AccountOf(d) # u
  BY DEF IInv, Grants
<1>19. \A v \in User \ {u} : /\ account'[v] = account[v] /\ booked'[v] = booked[v]
                             /\ GrantKey(v) \in keys' <=> GrantKey(v) \in keys
  BY <1>10, <1>12, <1>13
<1> HIDE DEF u
<1>20. Moves(c)
  BY <1>2, <1>7, <1>10, <1>12, <1>13, <1>14, <1>15, <1>16, <1>17, <1>18, <1>19 DEF Moves, u
<1> QED
  BY <1>9, <1>20 DEF op

\* What a transaction has written becomes visible, with or without an answer.
LEMMA CommitKeeps == ASSUME IInv, NEW c \in Conn, Commit(c) PROVE IInv'
<1>1. /\ conn[c].at \in {"write", "repeat"} /\ UNCHANGED counters
      /\ \/ Return(c, FALSE) /\ UNCHANGED <<database, faults>>
         \/ Write(c) /\ Close(c, TRUE, Outdated(c)) /\ UNCHANGED faults
         \/ /\ Write(c) /\ Close(c, FALSE, Outdated(c))
            /\ faults < MaxFaults /\ faults' = faults + 1
  BY DEF Commit
<1>2. conn[c].at # "idle" /\ faults \in 0..MaxFaults
  BY <1>1 DEF IInv, CountTyped
<1>3. faults' \in 0..MaxFaults
  <2>1. faults' = faults \/ (faults < MaxFaults /\ faults' = faults + 1)
    BY <1>1
  <2>2. MaxFaults \in Nat
    OBVIOUS
  <2> QED
    BY <1>2, <2>1, <2>2
<1>4. CASE Return(c, FALSE) /\ UNCHANGED <<database, faults>>
  BY <1>1, <1>2, <1>3, <1>4, ReturnKeeps
<1>5. ASSUME NEW ok \in BOOLEAN, Write(c), Close(c, ok, Outdated(c))
      PROVE  IInv'
  <2>1. Moves(c) /\ (conn[c].hook => conn[c].op \in keys')
    BY <1>1, <1>5, WriteMoves
  <2> QED
    BY <1>1, <1>2, <1>3, <1>5, <2>1, EndKeeps
<1> QED
  BY <1>1, <1>4, <1>5

\* The statements together.
LEMMA StatementKeeps == ASSUME IInv, NEW c \in Conn, Statement(c) PROVE IInv'
BY LockPromoKeeps, EnsureKeeps, ReadGrantKeeps, InsertGrantKeeps, LookupKeeps, LockKeeps,
   CommitKeeps DEF Statement

-----------------------------------------------------------------------------
(* The callers. *)

\* A request begins a transaction, whatever it asks for.
LEMMA RequestsKeep ==
  ASSUME IInv, NEW c \in Conn,
         \/ \E u \in User : EnsureAccount(c, u) \/ Redeem(c, u)
         \/ \E j \in Job : Reserve(c, j)
         \/ \E f \in Fee : Charge(c, f)
  PROVE  IInv'
<1>1. PICK op \in Op : /\ op[1] \in {"ensure", "promo", "reserve", "flat"}
                       /\ Begin(c, op, FALSE) /\ UNCHANGED Started
  BY OpMade DEF EnsureAccount, Redeem, Reserve, Charge
<1> QED
  BY <1>1, BeginKeeps

\* A model call is metered while it has a try left.
LEMMA MeterKeeps == ASSUME IInv, NEW c \in Conn, NEW k \in Call, Meter(c, k) PROVE IInv'
<1> DEFINE op == <<"meter", k>>
<1>1. /\ call[k].state = "made" /\ call[k].tries > 0 /\ ~Running(op)
      /\ Begin(c, op, FALSE) /\ UNCHANGED Started
  BY DEF Meter
<1>2. op \in Op /\ op[1] = "meter" /\ op[2] = k /\ UserOf(op) = Owner[k]
  BY OpMade DEF UserOf
<1>3. account[Owner[k]] # None
  BY <1>1 DEF IInv, Opening
<1> HIDE DEF op
<1> QED
  BY <1>1, <1>2, <1>3, BeginKeeps

\* A paid order gives a bonus, a charged cycle a plan's allotment.
LEMMA HandlingShape ==
  ASSUME NEW i \in Order \cup Cycle
  PROVE  /\ Handling(i) \in Op /\ Handling(i)[1] \in {"bonus", "plan"}
         /\ Handling(i)[2] = i /\ UserOf(Handling(i)) = Owner[i]
<1>1. CASE i \in Order
  <2>1. Handling(i) = <<"bonus", i>>
    BY <1>1 DEF Handling
  <2> QED
    BY <1>1, <2>1, OpMade DEF UserOf
<1>2. CASE i \notin Order
  <2>1. Handling(i) = <<"plan", i>> /\ i \in Cycle
    BY <1>2 DEF Handling
  <2> QED
    BY <2>1, OpMade DEF UserOf
<1> QED
  BY <1>1, <1>2

\* A delivery of a webhook grants what was paid.
LEMMA DeliverKeeps ==
  ASSUME IInv, NEW c \in Conn, NEW i \in Order \cup Cycle, Deliver(c, i) PROVE IInv'
<1> DEFINE op == Handling(i)
<1>1. event[i] = "due" /\ Begin(c, op, TRUE) /\ UNCHANGED Started
  BY DEF Deliver
<1>2. /\ op \in Op /\ op[1] \in {"bonus", "plan"} /\ op[2] = i /\ UserOf(op) = Owner[i]
      /\ op = Handling(op[2])
  BY HandlingShape
<1>3. account[Owner[i]] # None
  BY <1>1 DEF IInv, Opening
<1> HIDE DEF op
<1> QED
  BY <1>1, <1>2, <1>3, BeginKeeps

\* So does the client's own verification of an order.
LEMMA VerifyKeeps == ASSUME IInv, NEW c \in Conn, NEW o \in Order, Verify(c, o) PROVE IInv'
<1>1. <<"bonus", o>> \in Op /\ Begin(c, <<"bonus", o>>, FALSE) /\ UNCHANGED Started
  BY OpMade DEF Verify
<1>2. <<"bonus", o>>[1] = "bonus"
  OBVIOUS
<1> QED
  BY <1>1, <1>2, BeginKeeps

\* A step of somebody outside any transaction.
LEMMA OutsideKeeps ==
  ASSUME IInv, UNCHANGED <<account, booked, keys, locked, conn>>,
         HoldTyped', CallTyped', EventTyped', CountTyped', Opening', Metering',
         \A i \in Order \cup Cycle :
           /\ event[i] # "none" => event'[i] # "none"
           /\ event'[i] = "done" /\ i \notin Unmatched => event[i] = "done"
  PROVE  IInv'
<1>0. /\ MoneyTyped /\ ConnTyped /\ Reads /\ Grants /\ Stages
      /\ LedgerMatchesBalance /\ ProcessedMeansGranted
  BY DEF IInv
<1>1. MoneyTyped' /\ ConnTyped'
  BY <1>0 DEF MoneyTyped, ConnTyped
<1>2. Reads'
  BY <1>0 DEF Reads, RowOf, AccountOf
<1>3. Grants'
  BY <1>0 DEF Grants, AccountOf
<1>4. Stages'
  BY <1>0 DEF Stages, StageOK
<1>5. LedgerMatchesBalance' /\ ProcessedMeansGranted'
  BY <1>0 DEF LedgerMatchesBalance, ProcessedMeansGranted
<1> QED
  BY <1>1, <1>2, <1>3, <1>4, <1>5 DEF IInv

\* A hold is settled without a transaction on the account.
LEMMA SettleKeeps == ASSUME IInv, NEW j \in Job, Settle(j) PROVE IInv'
<1>0. HoldTyped /\ CallTyped /\ EventTyped /\ CountTyped /\ Opening /\ Metering
  BY DEF IInv
<1>1. /\ hold[j].status = "ACTIVE" /\ hold' = [hold EXCEPT ![j].status = "SETTLED"]
      /\ UNCHANGED <<account, booked, keys, redeemedBy, redeemed, locked, promoLocked, conn>>
      /\ UNCHANGED <<call, index, summaries, turns, event, faults>>
  BY DEF Settle, counters
<1>2. HoldTyped'
  BY <1>0, <1>1 DEF HoldTyped
<1>3. \A i \in Job : hold'[i].status # "NONE" => hold[i].status # "NONE"
  BY <1>0, <1>1 DEF HoldTyped
<1>4. CallTyped' /\ EventTyped' /\ CountTyped' /\ Opening' /\ Metering'
  BY <1>0, <1>1, <1>3 DEF CallTyped, EventTyped, CountTyped, Opening, Metering
<1> QED
  BY <1>1, <1>2, <1>4, OutsideKeeps

\* The payment service makes an event due.
LEMMA PayKeeps == ASSUME IInv, NEW i \in Order \cup Cycle, Pay(i) PROVE IInv'
<1>0. HoldTyped /\ CallTyped /\ EventTyped /\ CountTyped /\ Opening /\ Metering
  BY DEF IInv
<1>1. /\ event[i] = "none" /\ account[Owner[i]] # None
      /\ event' = [event EXCEPT ![i] = "due"]
      /\ UNCHANGED <<account, booked, keys, hold, redeemedBy, redeemed, locked, promoLocked, conn>>
      /\ UNCHANGED <<call, index, summaries, turns, faults>>
  BY DEF Pay, counters, database
<1>2. EventTyped' /\ \A e \in Order \cup Cycle : event'[e] = IF e = i THEN "due" ELSE event[e]
  BY <1>0, <1>1 DEF EventTyped
<1>3. HoldTyped' /\ CallTyped' /\ CountTyped' /\ Opening' /\ Metering'
  BY <1>0, <1>1, <1>2 DEF HoldTyped, CallTyped, CountTyped, Opening, Metering
<1> QED
  BY <1>1, <1>2, <1>3, OutsideKeeps

\* A delivery the server can tell no account of is marked, and nothing else.
LEMMA DiscardKeeps == ASSUME IInv, NEW i \in Order \cup Cycle, Discard(i) PROVE IInv'
<1>0. HoldTyped /\ CallTyped /\ EventTyped /\ CountTyped /\ Opening /\ Metering
  BY DEF IInv
<1>1. /\ event[i] = "due" /\ i \in Unmatched
      /\ event' = [event EXCEPT ![i] = "done"]
      /\ UNCHANGED <<account, booked, keys, hold, redeemedBy, redeemed, locked, promoLocked, conn>>
      /\ UNCHANGED <<call, index, summaries, turns, faults>>
  BY DEF Discard, counters, database
<1>2. EventTyped' /\ \A e \in Order \cup Cycle : event'[e] = IF e = i THEN "done" ELSE event[e]
  BY <1>0, <1>1 DEF EventTyped
<1>3. HoldTyped' /\ CallTyped' /\ CountTyped' /\ Opening' /\ Metering'
  BY <1>0, <1>1, <1>2 DEF HoldTyped, CallTyped, CountTyped, Opening, Metering
<1> QED
  BY <1>1, <1>2, <1>3, OutsideKeeps

\* A call that was not made yet is made.
LEMMA CallsKeep ==
  ASSUME IInv, NEW k \in Call, call[k].state = "none", account[Owner[k]] # None,
         NEW r \in [job : Job \cup {None}, n : Int, state : {"made"}, tries : 0..2],
         call' = [call EXCEPT ![k] = r],
         UNCHANGED <<database, locked, promoLocked, conn, event, faults>>,
         index' \in [Job -> Nat], summaries' \in [Job -> Nat], turns' \in [Job -> Nat]
  PROVE  IInv'
<1>0. HoldTyped /\ CallTyped /\ EventTyped /\ CountTyped /\ Opening /\ Metering /\ Stages
  BY DEF IInv
<1>1. UNCHANGED <<account, booked, keys, hold, redeemedBy, redeemed, locked, promoLocked,
                  conn, event, faults>>
  BY DEF database
<1>2. CallTyped'
  BY <1>0 DEF CallTyped
<1>3. call'[k] = r /\ \A l \in Call \ {k} : call'[l] = call[l]
  BY <1>0 DEF CallTyped
<1>4. HoldTyped' /\ EventTyped' /\ CountTyped'
  BY <1>0, <1>1 DEF HoldTyped, EventTyped, CountTyped
<1>5. Opening'
  BY <1>0, <1>1, <1>3 DEF Opening
<1>6. Metering'
  <2>1. ASSUME NEW c \in Conn, conn[c].at # "idle", conn[c].op[1] = "meter"
        PROVE  call'[conn[c].op[2]] = call[conn[c].op[2]]
    <3>1. conn[c].op[2] \in Call /\ call[conn[c].op[2]].state = "made"
      BY <1>0, <2>1, InProgress, OpShape DEF Metering
    <3> QED
      BY <1>3, <3>1
  <2> QED
    BY <1>0, <1>1, <2>1 DEF Metering
<1> QED
  BY <1>1, <1>2, <1>4, <1>5, <1>6, OutsideKeeps

\* A model call that is made enters the books as not yet billed.
LEMMA MadeKeeps ==
  ASSUME IInv, NEW k \in Call, NEW j \in Job, NEW n \in Int, NEW tries \in 1..2,
         Made(k, j, n, tries),
         index' \in [Job -> Nat], summaries' \in [Job -> Nat], turns' \in [Job -> Nat]
  PROVE  IInv'
<1> DEFINE r == [job |-> j, n |-> n, state |-> "made", tries |-> tries]
<1>1. /\ call[k].state = "none" /\ Owner[k] = Owner[j] /\ hold[j].status # "NONE"
      /\ call' = [call EXCEPT ![k] = r]
      /\ UNCHANGED <<database, locked, promoLocked, conn, event, faults>>
  BY DEF Made
<1>2. account[Owner[k]] # None
  BY <1>1 DEF IInv, Opening
<1>3. r \in [job : Job \cup {None}, n : Int, state : {"made"}, tries : 0..2]
  OBVIOUS
<1> HIDE DEF r
<1> QED
  BY <1>1, <1>2, <1>3, CallsKeep

\* The loop's call, a sub-agent's, a summary's.
LEMMA CallersKeep ==
  ASSUME IInv, NEW j \in Job,
         \/ \E k \in Call : \/ MakeTurn(k, j) \/ MakeSummary(k, j)
                            \/ \E tries \in 1..2 : MakeHarnessCall(k, j, tries)
         \/ PublishFrame(j) \/ Retry(j)
  PROVE  IInv'
<1>0. /\ index \in [Job -> Nat] /\ summaries \in [Job -> Nat] /\ turns \in [Job -> Nat]
      /\ HoldTyped /\ CallTyped /\ EventTyped /\ CountTyped /\ Opening /\ Metering
  BY DEF IInv, CountTyped
<1>1. ASSUME NEW k \in Call, MakeTurn(k, j) PROVE IInv'
  <2>1. /\ Made(k, j, turns[j], 2) /\ turns[j] \in Int /\ 2 \in 1..2
        /\ index' \in [Job -> Nat] /\ summaries' \in [Job -> Nat] /\ turns' \in [Job -> Nat]
    BY <1>0, <1>1 DEF MakeTurn
  <2> QED
    BY <2>1, MadeKeeps
<1>2. ASSUME NEW k \in Call, MakeSummary(k, j) PROVE IInv'
  <2>1. /\ Made(k, j, -(summaries[j] + 1), 2) /\ -(summaries[j] + 1) \in Int /\ 2 \in 1..2
        /\ index' \in [Job -> Nat] /\ summaries' \in [Job -> Nat] /\ turns' \in [Job -> Nat]
    BY <1>0, <1>2 DEF MakeSummary
  <2> QED
    BY <2>1, MadeKeeps
<1>3. ASSUME NEW k \in Call, NEW tries \in 1..2, MakeHarnessCall(k, j, tries) PROVE IInv'
  <2>1. /\ Made(k, j, -index[j], tries) /\ -index[j] \in Int
        /\ index' \in [Job -> Nat] /\ summaries' \in [Job -> Nat] /\ turns' \in [Job -> Nat]
    BY <1>0, <1>3 DEF MakeHarnessCall
  <2> QED
    BY <2>1, MadeKeeps
<1>4. CASE PublishFrame(j) \/ Retry(j)
  <2>1. /\ UNCHANGED <<account, booked, keys, hold, redeemedBy, redeemed, locked, promoLocked>>
        /\ UNCHANGED <<conn, call, event, faults>>
        /\ index' \in [Job -> Nat] /\ summaries' \in [Job -> Nat] /\ turns' \in [Job -> Nat]
    BY <1>0, <1>4 DEF PublishFrame, Retry, database
  <2>2. HoldTyped' /\ CallTyped' /\ EventTyped' /\ CountTyped' /\ Opening' /\ Metering'
    BY <1>0, <2>1 DEF HoldTyped, CallTyped, EventTyped, CountTyped, Opening, Metering
  <2> QED
    BY <2>1, <2>2, OutsideKeeps
<1> QED
  BY <1>1, <1>2, <1>3, <1>4

\* A completion of the gateway, which looks at the balance first.
LEMMA CompletionKeeps == ASSUME IInv, NEW k \in Call, MakeCompletion(k) PROVE IInv'
<1> DEFINE r == [job |-> None, n |-> 0, state |-> "made", tries |-> 1]
<1>1. /\ call[k].state = "none" /\ account[Owner[k]] # None
      /\ call' = [call EXCEPT ![k] = r]
      /\ UNCHANGED <<database, locked, promoLocked, conn, event, faults>>
      /\ UNCHANGED <<index, summaries, turns>>
  BY DEF MakeCompletion, counters
<1>2. r \in [job : Job \cup {None}, n : Int, state : {"made"}, tries : 0..2]
  OBVIOUS
<1>3. index' \in [Job -> Nat] /\ summaries' \in [Job -> Nat] /\ turns' \in [Job -> Nat]
  BY <1>1 DEF IInv, CountTyped
<1> HIDE DEF r
<1> QED
  BY <1>1, <1>2, <1>3, CallsKeep

-----------------------------------------------------------------------------
(* The theorems. *)

\* The invariant speaks of the variables only.
LEMMA StutterKeeps == ASSUME IInv, UNCHANGED vars PROVE IInv'
<1>1. /\ UNCHANGED <<account, booked, keys, hold, redeemedBy, redeemed, locked, promoLocked>>
      /\ UNCHANGED <<conn, call, index, summaries, turns, event, faults>>
  BY DEF vars, database, counters
<1>2. HoldTyped /\ CallTyped /\ EventTyped /\ CountTyped /\ Opening /\ Metering
  BY DEF IInv
<1>3. HoldTyped' /\ CallTyped' /\ EventTyped' /\ CountTyped' /\ Opening' /\ Metering'
  BY <1>1, <1>2 DEF HoldTyped, CallTyped, EventTyped, CountTyped, Opening, Metering
<1> QED
  BY <1>1, <1>3, OutsideKeeps

\* Every step keeps the invariant: one case per action of Next.
LEMMA NextKeeps == IInv /\ [Next]_vars => IInv'
<1> SUFFICES ASSUME IInv, [Next]_vars PROVE IInv'
  OBVIOUS
<1>1. ASSUME NEW c \in Conn, Statement(c) \/ CutOff(c) PROVE IInv'
  BY <1>1, StatementKeeps, CutOffKeeps
<1>2. ASSUME NEW c \in Conn,
             \/ \E u \in User : EnsureAccount(c, u) \/ Redeem(c, u)
             \/ \E j \in Job : Reserve(c, j)
             \/ \E k \in Call : Meter(c, k)
             \/ \E f \in Fee : Charge(c, f)
             \/ \E o \in Order : Verify(c, o)
             \/ \E i \in Order \cup Cycle : Deliver(c, i)
      PROVE  IInv'
  BY <1>2, RequestsKeep, MeterKeeps, VerifyKeeps, DeliverKeeps
<1>3. ASSUME NEW j \in Job, Settle(j) \/ PublishFrame(j) \/ Retry(j) PROVE IInv'
  BY <1>3, SettleKeeps, CallersKeep
<1>4. ASSUME NEW k \in Call, NEW j \in Job,
             MakeTurn(k, j) \/ MakeSummary(k, j) \/ \E tries \in 1..2 : MakeHarnessCall(k, j, tries)
      PROVE  IInv'
  BY <1>4, CallersKeep
<1>5. ASSUME NEW k \in Call, MakeCompletion(k) PROVE IInv'
  BY <1>5, CompletionKeeps
<1>6. ASSUME NEW i \in Order \cup Cycle, Pay(i) \/ Discard(i) PROVE IInv'
  BY <1>6, PayKeeps, DiscardKeeps
<1>7. CASE UNCHANGED vars
  BY <1>7, StutterKeeps
<1> QED
  BY <1>1, <1>2, <1>3, <1>4, <1>5, <1>6, <1>7 DEF Next

\* The inductive invariant holds in every reachable state.
LEMMA Invariance == Spec => []IInv
BY InitInv, NextKeeps, PTL DEF Spec

\* No bucket of an account, and no counter, leaves its domain, whoever races.
THEOREM CreditsTypeCorrect == Spec => []TypeOK
BY Invariance, InvTypes, PTL

\* The ledger of every account adds up to its balance (reconcileAccount's sum),
\* over retries, double deliveries, lost acknowledgements and crashes.
THEOREM LedgerKeepsBalance == Spec => []LedgerMatchesBalance
<1>1. IInv => LedgerMatchesBalance
  BY DEF IInv
<1> QED
  BY <1>1, Invariance, PTL

\* A webhook event with processedAt set has its credits in the ledger, but for
\* those the server knows no account, no subscription or no pack of.
THEOREM ProcessedIsGranted == Spec => []ProcessedMeansGranted
<1>1. IInv => ProcessedMeansGranted
  BY DEF IInv
<1> QED
  BY <1>1, Invariance, PTL

-----------------------------------------------------------------------------
(* Promo codes. *)

\* A redemption has passed the checks made under the lock of the PromoCode row.
InPromo(k) == k.at \notin {"idle", "promo"} /\ k.op[1] = "promo"

PInv ==
  /\ PromoWithinLimit
  /\ \A c \in Conn : InPromo(conn[c]) =>
       promoLocked = c /\ redeemed < MaxRedemptions /\ AccountOf(c) \notin redeemedBy
  /\ \A c \in Conn : conn[c].at = "repeat" => conn[c].op[1] # "promo"

\* Initially nobody holds the row of the code.
LEMMA PromoInit == Init => PInv
<1> SUFFICES ASSUME Init PROVE PInv
  OBVIOUS
<1>1. Cardinality({}) = 0
  BY FS_EmptySet
<1> QED
  BY <1>1 DEF Init, PInv, PromoWithinLimit, InPromo, Idle

\* Steps that do not redeem.
LEMMA PromoStays ==
  ASSUME PInv, UNCHANGED <<redeemedBy, redeemed>>,
         \A u \in User : <<"promo", u>> \in keys' <=> <<"promo", u>> \in keys,
         \A d \in Conn : InPromo(conn'[d]) =>
           /\ InPromo(conn[d]) /\ conn'[d].op = conn[d].op
           /\ promoLocked = d => promoLocked' = d,
         \A d \in Conn : conn'[d].at = "repeat" => conn'[d].op[1] # "promo"
  PROVE  PInv'
<1>1. PromoWithinLimit'
  BY DEF PInv, PromoWithinLimit
<1>2. ASSUME NEW d \in Conn, InPromo(conn'[d])
      PROVE  promoLocked' = d /\ redeemed' < MaxRedemptions /\ AccountOf(d)' \notin redeemedBy'
  BY <1>2 DEF PInv, AccountOf
<1>3. \A d \in Conn : InPromo(conn'[d]) =>
        promoLocked' = d /\ redeemed' < MaxRedemptions /\ AccountOf(d)' \notin redeemedBy'
  BY <1>2
<1> QED
  BY <1>1, <1>3 DEF PInv, InPromo

\* The same, where only c's record changes.
LEMMA PromoOneStays ==
  ASSUME IInv, PInv, NEW c \in Conn, NEW k, conn' = [conn EXCEPT ![c] = k],
         UNCHANGED <<redeemedBy, redeemed, keys>>,
         promoLocked' = promoLocked,
         InPromo(k) => InPromo(conn[c]) /\ k.op = conn[c].op,
         k.at = "repeat" => k.op[1] # "promo"
  PROVE  PInv'
<1>1. conn'[c] = k /\ \A d \in Conn \ {c} : conn'[d] = conn[d]
  BY DEF IInv, ConnTyped
<1>2. \A d \in Conn : InPromo(conn'[d]) =>
        /\ InPromo(conn[d]) /\ conn'[d].op = conn[d].op
        /\ promoLocked = d => promoLocked' = d
  BY <1>1
<1>3. \A d \in Conn : conn'[d].at = "repeat" => conn'[d].op[1] # "promo"
  BY <1>1 DEF PInv
<1> QED
  BY <1>2, <1>3, PromoStays

\* A transaction that ends gives the row of the code back.
LEMMA PromoCloses ==
  ASSUME IInv, PInv, NEW c \in Conn, NEW ok \in BOOLEAN, NEW outdated, Close(c, ok, outdated),
         UNCHANGED <<redeemedBy, redeemed>>,
         \A u \in User : <<"promo", u>> \in keys' <=> <<"promo", u>> \in keys
  PROVE  PInv'
<1>1. /\ conn'[c] = Idle
      /\ \A d \in Conn \ {c} : conn'[d].op = conn[d].op /\ conn'[d].at = conn[d].at
  BY CloseFrees
<1>2. promoLocked' = IF promoLocked = c THEN None ELSE promoLocked
  BY DEF Close
<1>3. ~InPromo(Idle) /\ Idle.at = "idle"
  BY DEF InPromo, Idle
<1>4. \A d \in Conn : InPromo(conn'[d]) =>
        /\ InPromo(conn[d]) /\ conn'[d].op = conn[d].op
        /\ promoLocked = d => promoLocked' = d
  BY <1>1, <1>2, <1>3 DEF InPromo
<1>5. \A d \in Conn : conn'[d].at = "repeat" => conn'[d].op[1] # "promo"
  BY <1>1, <1>3 DEF PInv
<1> QED
  BY <1>4, <1>5, PromoStays

\* One that changed nothing leaves the number of redemptions.
LEMMA PromoReturns ==
  ASSUME IInv, PInv, NEW c \in Conn, NEW ok \in BOOLEAN, Return(c, ok), UNCHANGED database
  PROVE  PInv'
<1>1. Close(c, ok, {}) /\ UNCHANGED <<redeemedBy, redeemed, keys>>
  BY DEF Return, database
<1> QED
  BY <1>1, PromoCloses

\* One that goes on keeps the row of the code.
LEMMA PromoGoes ==
  ASSUME IInv, PInv, NEW c \in Conn, NEW at \in Stage \ {"repeat"}, Goto(c, at),
         conn[c].at \notin {"idle", "promo"}, UNCHANGED <<redeemedBy, redeemed, keys, promoLocked>>
  PROVE  PInv'
<1> DEFINE k == [conn[c] EXCEPT !.at = at]
<1>1. conn[c] \in ConnRecord
  BY DEF IInv, ConnTyped
<1>2. k.at = at /\ k.op = conn[c].op
  BY <1>1 DEF ConnRecord
<1>3. conn' = [conn EXCEPT ![c] = k]
  BY DEF Goto
<1> HIDE DEF k
<1>4. InPromo(k) => InPromo(conn[c]) /\ k.op = conn[c].op
  BY <1>2 DEF InPromo
<1> QED
  BY <1>2, <1>3, <1>4, PromoOneStays

\* One that begins does not have the row yet.
LEMMA PromoBegins ==
  ASSUME IInv, PInv, NEW c \in Conn, NEW op \in Op, NEW hook, Begin(c, op, hook), UNCHANGED Started
  PROVE  PInv'
<1> DEFINE s == IF Serializable(op) THEN ActiveHolds(UserOf(op)) ELSE {}
           k == [Idle EXCEPT !.op = op, !.at = FirstStatement(op[1]), !.hook = hook, !.seen = s]
<1>1. conn' = [conn EXCEPT ![c] = k]
  BY DEF Begin
<1>2. k.op = op /\ k.at = FirstStatement(op[1])
  BY DEF Idle
<1> HIDE DEF k
<1>3. ~InPromo(k) /\ k.at # "repeat"
  BY <1>2 DEF InPromo, FirstStatement
<1>4. UNCHANGED <<redeemedBy, redeemed, keys>> /\ promoLocked' = promoLocked
  BY DEF Started, database
<1> QED
  BY <1>1, <1>3, <1>4, PromoOneStays

\* Whoever gets the row finds the checks of the code still to be true.
LEMMA PromoLocks == ASSUME IInv, PInv, NEW c \in Conn, LockPromo(c) PROVE PInv'
<1>1. /\ conn[c].at = "promo" /\ promoLocked = None /\ UNCHANGED database
      /\ \/ Return(c, FALSE)
         \/ /\ ~(redeemed >= MaxRedemptions \/ AccountOf(c) \in redeemedBy)
            /\ promoLocked' = c /\ Goto(c, "ensure")
  BY DEF LockPromo, AccountOf
<1>2. CASE Return(c, FALSE)
  BY <1>1, <1>2, PromoReturns
<1>3. CASE /\ ~(redeemed >= MaxRedemptions \/ AccountOf(c) \in redeemedBy)
           /\ promoLocked' = c /\ Goto(c, "ensure")
  <2>1. redeemed < MaxRedemptions /\ AccountOf(c) \notin redeemedBy
    BY <1>3 DEF IInv, CountTyped
  <2>2. /\ \A d \in Conn \ {c} : conn'[d] = conn[d]
        /\ conn'[c].op = conn[c].op /\ conn'[c].at = "ensure"
    BY <1>3 DEF IInv, ConnTyped, ConnRecord, Goto
  <2>3. UNCHANGED <<redeemedBy, redeemed, keys>>
    BY <1>1 DEF database
  <2>4. PromoWithinLimit'
    BY <2>3 DEF PInv, PromoWithinLimit
  <2>5. ASSUME NEW d \in Conn, InPromo(conn[d])'
        PROVE  promoLocked' = d /\ redeemed' < MaxRedemptions /\ AccountOf(d)' \notin redeemedBy'
    <3>1. d = c
      <4> SUFFICES ASSUME d # c PROVE FALSE
        OBVIOUS
      <4>1. InPromo(conn[d])
        BY <2>2, <2>5 DEF InPromo
      <4>2. promoLocked = d /\ d # None
        BY <4>1, InProgress DEF PInv, InPromo
      <4> QED
        BY <1>1, <4>2
    <3> QED
      BY <1>3, <2>1, <2>2, <2>3, <3>1 DEF AccountOf
  <2>6. \A d \in Conn : conn'[d].at = "repeat" => conn'[d].op[1] # "promo"
    BY <2>2 DEF PInv
  <2> QED
    BY <2>4, <2>5, <2>6 DEF PInv
<1> QED
  BY <1>1, <1>2, <1>3

\* Every statement keeps the limit; only the redeemer's commit moves the count.
LEMMA PromoRuns ==
  ASSUME IInv, PInv, NEW c \in Conn,
         Ensure(c) \/ ReadGrant(c) \/ InsertGrant(c) \/ Lookup(c) \/ Lock(c)
  PROVE  PInv'
<1>0. conn[c] \in ConnRecord
  BY DEF IInv, ConnTyped
<1>1. CASE Ensure(c)
  <2>1. /\ conn[c].at = "ensure" /\ UNCHANGED <<redeemedBy, redeemed, keys, promoLocked>>
        /\ \/ Goto(c, "read")
           \/ conn' = [conn EXCEPT ![c].at = "read", ![c].read = Seed]
    BY <1>1 DEF Ensure
  <2>2. CASE Goto(c, "read")
    BY <2>1, <2>2, PromoGoes DEF Stage
  <2>3. CASE conn' = [conn EXCEPT ![c].at = "read", ![c].read = Seed]
    <3> DEFINE k == [conn[c] EXCEPT !.at = "read", !.read = Seed]
    <3>1. k.at = "read" /\ k.op = conn[c].op
      BY <1>0 DEF ConnRecord
    <3>2. conn' = [conn EXCEPT ![c] = k]
      BY <2>3
    <3> HIDE DEF k
    <3>3. InPromo(k) => InPromo(conn[c]) /\ k.op = conn[c].op
      BY <2>1, <3>1 DEF InPromo
    <3> QED
      BY <2>1, <3>1, <3>2, <3>3, PromoOneStays
  <2> QED
    BY <2>1, <2>2, <2>3
<1>2. CASE ReadGrant(c)
  <2>1. /\ conn[c].at = "read" /\ UNCHANGED database
        /\ \/ Return(c, TRUE)
           \/ (Goto(c, "insert") \/ Goto(c, "lock")) /\ UNCHANGED promoLocked
    BY <1>2 DEF ReadGrant
  <2>2. UNCHANGED <<redeemedBy, redeemed, keys>>
    BY <2>1 DEF database
  <2>3. "insert" \in Stage \ {"repeat"} /\ "lock" \in Stage \ {"repeat"}
    BY DEF Stage
  <2> QED
    BY <2>1, <2>2, <2>3, PromoReturns, PromoGoes
<1>3. CASE InsertGrant(c)
  <2> DEFINE u == UserOf(conn[c].op)
             k == [conn[c] EXCEPT !.grant = TRUE, !.at = "lock"]
  <2>1. /\ conn[c].at = "insert" /\ UNCHANGED <<redeemedBy, redeemed>>
        /\ \/ Return(c, conn[c].op[1] = "ensure") /\ UNCHANGED keys
           \/ Return(c, TRUE) /\ keys' = keys \cup {GrantKey(u)}
           \/ conn' = [conn EXCEPT ![c] = k] /\ UNCHANGED <<keys, promoLocked>>
    BY <1>3 DEF InsertGrant
  <2>2. CASE \/ Return(c, conn[c].op[1] = "ensure") /\ UNCHANGED keys
             \/ Return(c, TRUE) /\ keys' = keys \cup {GrantKey(u)}
    <3>1. PICK ok \in BOOLEAN : Close(c, ok, {})
      BY <2>2 DEF Return
    <3>2. \A v \in User : <<"promo", v>> \in keys' <=> <<"promo", v>> \in keys
      <4>1. \A v : <<"promo", v>> # GrantKey(u)
        BY DEF GrantKey
      <4>2. keys' = keys \/ keys' = keys \cup {GrantKey(u)}
        BY <2>2
      <4> QED
        BY <4>1, <4>2
    <3> QED
      BY <2>1, <3>1, <3>2, PromoCloses
  <2>3. CASE conn' = [conn EXCEPT ![c] = k] /\ UNCHANGED <<keys, promoLocked>>
    <3>1. k.at = "lock" /\ k.op = conn[c].op
      BY <1>0 DEF ConnRecord
    <3> HIDE DEF k
    <3>2. InPromo(k) => InPromo(conn[c]) /\ k.op = conn[c].op
      BY <2>1, <3>1 DEF InPromo
    <3> QED
      BY <2>1, <2>3, <3>1, <3>2, PromoOneStays
  <2> QED
    BY <2>1, <2>2, <2>3
<1>4. CASE Lookup(c)
  <2>1. /\ conn[c].at = "lookup" /\ UNCHANGED database
        /\ \/ Return(c, TRUE)
           \/ Goto(c, "lock") /\ UNCHANGED promoLocked
    BY <1>4 DEF Lookup
  <2>2. UNCHANGED <<redeemedBy, redeemed, keys>>
    BY <2>1 DEF database
  <2>3. "lock" \in Stage \ {"repeat"}
    BY DEF Stage
  <2> QED
    BY <2>1, <2>2, <2>3, PromoReturns, PromoGoes
<1>5. CASE Lock(c)
  <2> DEFINE row == IF conn[c].read # None THEN conn[c].read ELSE account[UserOf(conn[c].op)]
             at == AfterLock(c, row)
             k == [conn[c] EXCEPT !.at = at, !.read = row]
  <2>1. /\ conn[c].at = "lock" /\ UNCHANGED database
        /\ \/ Return(c, FALSE)
           \/ conn' = [conn EXCEPT ![c] = k] /\ UNCHANGED promoLocked
    BY <1>5 DEF Lock
  <2>2. UNCHANGED <<redeemedBy, redeemed, keys>>
    BY <2>1 DEF database
  <2>3. at = "repeat" => conn[c].op[1] # "promo"
    BY DEF AfterLock
  <2> HIDE DEF at, row
  <2>4. k.at = at /\ k.op = conn[c].op
    BY <1>0 DEF ConnRecord
  <2> HIDE DEF k
  <2>5. InPromo(k) => InPromo(conn[c]) /\ k.op = conn[c].op
    BY <2>1, <2>4 DEF InPromo
  <2>6. CASE Return(c, FALSE)
    BY <2>1, <2>6, PromoReturns
  <2>7. CASE conn' = [conn EXCEPT ![c] = k] /\ UNCHANGED promoLocked
    BY <2>2, <2>3, <2>4, <2>5, <2>7, PromoOneStays
  <2> QED
    BY <2>1, <2>6, <2>7
<1> QED
  BY <1>1, <1>2, <1>3, <1>4, <1>5

\* A redemption is committed: the lock has kept the count and the redeemer's own
\* record as they were when they were checked.
LEMMA PromoCommits == ASSUME IInv, PInv, NEW c \in Conn, Commit(c) PROVE PInv'
<1> DEFINE op == conn[c].op
           u == AccountOf(c)
           row == conn[c].read
           own == IF conn[c].at = "write" THEN op ELSE <<"none">>
           silent == own[1] \in {"none", "reserve"}
<1>0. /\ conn[c].at \in {"write", "repeat"}
      /\ \/ Return(c, FALSE) /\ UNCHANGED database
         \/ Write(c) /\ \E ok \in BOOLEAN : Close(c, ok, Outdated(c))
  BY DEF Commit
<1>1. /\ op \in Op /\ u \in User /\ u = UserOf(op) /\ op = <<op[1], op[2]>>
      /\ op[1] \in {"reserve", "meter", "bonus", "plan", "flat", "promo", "ensure"}
  BY <1>0, InProgress, OpShape
<1>2. CASE Return(c, FALSE) /\ UNCHANGED database
  BY <1>2, PromoReturns
<1>3. CASE Write(c) /\ \E ok \in BOOLEAN : Close(c, ok, Outdated(c))
  <2>1. /\ keys' = keys \cup (IF conn[c].grant THEN {GrantKey(u)} ELSE {})
                        \cup (IF silent THEN {} ELSE {Key(own)})
        /\ redeemedBy' = IF own[1] = "promo" THEN redeemedBy \cup {u} ELSE redeemedBy
        /\ redeemed' = IF own[1] = "promo" THEN redeemed + 1 ELSE redeemed
    BY <1>3 DEF Write, AccountOf
  <2>2. \A v \in User : <<"promo", v>> # GrantKey(u)
    BY DEF GrantKey
  <2>3. CASE own[1] # "promo"
    <3>1. \A v \in User : silent \/ Key(own) # <<"promo", v>>
      BY <1>1, <2>3 DEF Key
    <3> HIDE DEF own, silent
    <3>2. \A v \in User : <<"promo", v>> \in keys' <=> <<"promo", v>> \in keys
      BY <2>1, <2>2, <3>1
    <3>3. UNCHANGED <<redeemedBy, redeemed>>
      BY <2>1, <2>3
    <3> QED
      BY <1>3, <3>2, <3>3, PromoCloses
  <2>4. CASE own[1] = "promo"
    <3>1. conn[c].at = "write" /\ op[1] = "promo" /\ op = <<"promo", u>>
      BY <1>1, <2>4 DEF UserOf
    <3>2. promoLocked = c /\ redeemed < MaxRedemptions /\ u \notin redeemedBy
      BY <3>1 DEF PInv, InPromo
    <3>3. ~silent /\ Key(own) = <<"promo", u>>
      BY <3>1 DEF Key
    <3> HIDE DEF own, silent
    <3>4. /\ \A v \in User : <<"promo", v>> \in keys' <=> <<"promo", v>> \in keys \/ v = u
          /\ redeemedBy' = redeemedBy \cup {u} /\ redeemed' = redeemed + 1
      BY <2>1, <2>2, <2>4, <3>3
    <3>5. redeemed \in Nat /\ IsFiniteSet(redeemedBy)
      BY FS_Subset DEF IInv, CountTyped
    <3>6. PromoWithinLimit'
      <4>1. Cardinality(redeemedBy') = Cardinality(redeemedBy) + 1
        BY <3>2, <3>4, <3>5, FS_AddElement
      <4>2. redeemed = Cardinality(redeemedBy)
        BY DEF PInv, PromoWithinLimit
      <4>3. redeemed' = Cardinality(redeemedBy')
        BY <3>4, <4>1, <4>2
      <4>4. redeemed' <= MaxRedemptions
        BY <3>2, <3>4, <3>5
      <4>5. \A v \in User : v \in redeemedBy' <=> <<"promo", v>> \in keys'
        BY <3>4 DEF PInv, PromoWithinLimit
      <4> QED
        BY <4>3, <4>4, <4>5 DEF PromoWithinLimit
    <3>7. /\ conn'[c] = Idle
          /\ \A d \in Conn \ {c} : conn'[d].op = conn[d].op /\ conn'[d].at = conn[d].at
      BY <1>3, CloseFrees
    <3>8. \A d \in Conn : ~InPromo(conn'[d])
      BY <3>2, <3>7 DEF PInv, InPromo, Idle
    <3>9. \A d \in Conn : conn'[d].at = "repeat" => conn'[d].op[1] # "promo"
      BY <3>7 DEF PInv, Idle
    <3> QED
      BY <3>6, <3>8, <3>9 DEF PInv, InPromo
  <2> QED
    BY <2>3, <2>4
<1> QED
  BY <1>0, <1>2, <1>3

\* And so does every step.
LEMMA PromoNext == IInv /\ PInv /\ [Next]_vars => PInv'
<1> SUFFICES ASSUME IInv, PInv, [Next]_vars PROVE PInv'
  OBVIOUS
<1>1. ASSUME NEW c \in Conn, Statement(c) \/ CutOff(c) PROVE PInv'
  <2>1. CASE Statement(c)
    BY <2>1, PromoLocks, PromoRuns, PromoCommits DEF Statement
  <2>2. CASE CutOff(c)
    BY <2>2, PromoReturns DEF CutOff
  <2> QED
    BY <1>1, <2>1, <2>2
<1>2. ASSUME NEW c \in Conn,
             \/ \E u \in User : EnsureAccount(c, u) \/ Redeem(c, u)
             \/ \E j \in Job : Reserve(c, j)
             \/ \E k \in Call : Meter(c, k)
             \/ \E f \in Fee : Charge(c, f)
             \/ \E o \in Order : Verify(c, o)
             \/ \E i \in Order \cup Cycle : Deliver(c, i)
      PROVE  PInv'
  <2>1. PICK op \in Op, hook \in BOOLEAN : Begin(c, op, hook) /\ UNCHANGED Started
    BY <1>2, OpMade, HandlingShape
    DEF EnsureAccount, Redeem, Reserve, Meter, Charge, Verify, Deliver
  <2> QED
    BY <2>1, PromoBegins
<1>3. ASSUME UNCHANGED <<redeemedBy, redeemed, keys, promoLocked, conn>> PROVE PInv'
  BY <1>3 DEF PInv, PromoWithinLimit, InPromo, AccountOf
<1>4. ASSUME NEW j \in Job, Settle(j) \/ PublishFrame(j) \/ Retry(j) PROVE PInv'
  BY <1>3, <1>4 DEF Settle, PublishFrame, Retry, database
<1>5. ASSUME NEW k \in Call, NEW j \in Job,
             MakeTurn(k, j) \/ MakeSummary(k, j) \/ \E tries \in 1..2 : MakeHarnessCall(k, j, tries)
      PROVE  PInv'
  BY <1>3, <1>5 DEF MakeTurn, MakeSummary, MakeHarnessCall, Made, database
<1>6. ASSUME NEW k \in Call, MakeCompletion(k) PROVE PInv'
  BY <1>3, <1>6 DEF MakeCompletion, database
<1>7. ASSUME NEW i \in Order \cup Cycle, Pay(i) \/ Discard(i) PROVE PInv'
  BY <1>3, <1>7 DEF Pay, Discard, database
<1>8. CASE UNCHANGED vars
  BY <1>3, <1>8 DEF vars, database
<1> QED
  BY <1>1, <1>2, <1>4, <1>5, <1>6, <1>7, <1>8 DEF Next

\* A promo code is redeemed at most so often and once by an account, whatever
\* redemptions race for the last place: the lock of its row is held from the
\* checks to the commit.
THEOREM PromoLimitKept == Spec => []PromoWithinLimit
<1>1. Spec => []PInv
  BY PromoInit, PromoNext, Invariance, PTL DEF Spec
<1>2. PInv => PromoWithinLimit
  BY DEF PInv
<1> QED
  BY <1>1, <1>2, PTL

-----------------------------------------------------------------------------
(* The concurrency limit, among requests of one kind. *)

\* What a reservation k in progress can rely on while its account's holds are
\* `holds`: a follow-up message on its snapshot until it is stale, and any that is
\* about to write on what it counted.
CapHolds(k, holds) ==
  k.at # "idle" /\ k.op[1] = "reserve" =>
    IF Serializable(k.op)
    THEN /\ ~k.stale \/ k.at = "write" => holds \ NewProject \subseteq k.seen
         /\ k.at = "write" => Cardinality(k.seen) < MaxConcurrentJobs
    ELSE k.at = "write" => Cardinality(holds) < MaxConcurrentJobs

CInv == CapAmongEqual /\ \A c \in Conn : CapHolds(conn[c], ActiveHolds(AccountOf(c)))

\* There are finitely many holds.
LEMMA HoldsFinite ==
  ASSUME NEW S \in SUBSET Job
  PROVE  IsFiniteSet(S) /\ Cardinality(S) \in Nat
BY FS_Subset, FS_CardinalityType

\* Fewer holds count less.
LEMMA FewerHolds ==
  ASSUME NEW S \in SUBSET Job, NEW T \in SUBSET S
  PROVE  Cardinality(T) <= Cardinality(S)
BY HoldsFinite, FS_Subset

\* Initially there are no holds.
LEMMA CapInit == Init => CInv
<1> SUFFICES ASSUME Init PROVE CInv
  OBVIOUS
<1>1. \A u \in User : ActiveHolds(u) = {}
  BY DEF Init, ActiveHolds
<1>2. CapAmongEqual
  <2> SUFFICES ASSUME NEW u \in User, NEW kind
               PROVE  Cardinality(ActiveHolds(u) \cap kind) <= MaxConcurrentJobs
    BY DEF CapAmongEqual
  <2>1. ActiveHolds(u) \cap kind = {}
    BY <1>1
  <2>2. Cardinality({}) = 0 /\ 0 <= MaxConcurrentJobs
    BY FS_EmptySet
  <2> QED
    BY <2>1, <2>2
<1>3. \A c \in Conn : CapHolds(conn[c], ActiveHolds(AccountOf(c)))
  BY DEF Init, CapHolds, Idle
<1> QED
  BY <1>2, <1>3 DEF CInv

\* It goes on in any way but past its own checks, and no hold is added.
LEMMA CapLasts ==
  ASSUME NEW k, NEW m, NEW now \in SUBSET Job, NEW later \in SUBSET now,
         CapHolds(k, now), m.op = k.op, m.seen = k.seen, k.at # "idle",
         m.at = "write" => k.at = "write", k.stale => m.stale
  PROVE  CapHolds(m, later)
<1> SUFFICES ASSUME m.at # "idle", m.op[1] = "reserve" PROVE CapHolds(m, later)
  BY DEF CapHolds
<1>1. Cardinality(later) \in Nat /\ Cardinality(now) \in Nat /\ Cardinality(later) <= Cardinality(now)
  BY HoldsFinite, FewerHolds
<1>2. CASE Serializable(k.op)
  <2>1. /\ ~k.stale \/ k.at = "write" => now \ NewProject \subseteq k.seen
        /\ k.at = "write" => Cardinality(k.seen) < MaxConcurrentJobs
    BY <1>2 DEF CapHolds
  <2>2. ~m.stale \/ m.at = "write" => later \ NewProject \subseteq m.seen
    BY <2>1
  <2> QED
    BY <1>2, <2>1, <2>2 DEF CapHolds
<1>3. CASE ~Serializable(k.op)
  <2>1. k.at = "write" => Cardinality(now) < MaxConcurrentJobs
    BY <1>3 DEF CapHolds
  <2>2. m.at = "write" => Cardinality(later) < MaxConcurrentJobs
    BY <1>1, <2>1
  <2> QED
    BY <1>3, <2>2 DEF CapHolds
<1> QED
  BY <1>2, <1>3

\* The transaction of d ends, or goes on without passing its checks.
Follows(d) ==
  \/ conn'[d].at = "idle"
  \/ /\ conn[d].at # "idle" /\ conn'[d].op = conn[d].op /\ conn'[d].seen = conn[d].seen
     /\ conn'[d].at = "write" => conn[d].at = "write"
     /\ conn[d].stale => conn'[d].stale

\* A transaction's view of the holds goes on being true while no other
\* transaction of the account commits a hold.
LEMMA CapFollows ==
  ASSUME IInv, CInv, NEW d \in Conn, Follows(d),
         \A u \in User : ActiveHolds(u)' \subseteq ActiveHolds(u)
  PROVE  CapHolds(conn[d], ActiveHolds(AccountOf(d)))'
<1>1. CASE conn'[d].at = "idle"
  BY <1>1 DEF CapHolds
<1>2. CASE conn'[d].at # "idle"
  <2> DEFINE u == UserOf(conn[d].op)
             now == ActiveHolds(u)
  <2>1. /\ conn[d].at # "idle" /\ conn'[d].op = conn[d].op /\ conn'[d].seen = conn[d].seen
        /\ conn'[d].at = "write" => conn[d].at = "write"
        /\ conn[d].stale => conn'[d].stale
    BY <1>2 DEF Follows
  <2>2. u \in User
    BY <2>1, InProgress
  <2>3. PICK v \in User : v = u
    BY <2>2
  <2>4. /\ ActiveHolds(v) \in SUBSET Job /\ ActiveHolds(v)' \in SUBSET ActiveHolds(v)
    BY DEF ActiveHolds
  <2>5. CapHolds(conn[d], ActiveHolds(v))
    BY <2>3 DEF CInv, AccountOf
  <2>6. CapHolds(conn'[d], ActiveHolds(v)')
    BY <2>1, <2>4, <2>5, CapLasts
  <2>7. AccountOf(d)' = v
    BY <2>1, <2>3 DEF AccountOf
  <2>8. ActiveHolds(AccountOf(d))' = ActiveHolds(v)'
    BY <2>7 DEF ActiveHolds
  <2> QED
    BY <2>6, <2>8 DEF CapHolds
<1> QED
  BY <1>1, <1>2

\* Steps that add no hold.
LEMMA CapStays ==
  ASSUME IInv, CInv, \A u \in User : ActiveHolds(u)' \subseteq ActiveHolds(u),
         \A d \in Conn : Follows(d) \/ CapHolds(conn[d], ActiveHolds(AccountOf(d)))'
  PROVE  CInv'
<1>1. CapAmongEqual'
  <2> SUFFICES ASSUME NEW u \in User, NEW kind \in {NewProject, Job \ NewProject}
               PROVE  Cardinality(ActiveHolds(u)' \cap kind) <= MaxConcurrentJobs
    BY DEF CapAmongEqual
  <2> DEFINE S == ActiveHolds(u) \cap kind
             T == ActiveHolds(u)' \cap kind
  <2>1. S \in SUBSET Job /\ T \in SUBSET S
    BY DEF ActiveHolds
  <2>2. Cardinality(S) <= MaxConcurrentJobs
    BY DEF CInv, CapAmongEqual
  <2> HIDE DEF S, T
  <2>3. Cardinality(T) \in Nat /\ Cardinality(S) \in Nat /\ Cardinality(T) <= Cardinality(S)
    BY <2>1, HoldsFinite, FewerHolds
  <2>4. Cardinality(T) <= MaxConcurrentJobs
    BY <2>2, <2>3
  <2> QED
    BY <2>4 DEF T
<1>2. \A d \in Conn : CapHolds(conn[d], ActiveHolds(AccountOf(d)))'
  BY CapFollows
<1> QED
  BY <1>1, <1>2 DEF CInv

\* The end of a transaction leaves the others as they were, or makes them stale.
LEMMA CloseFollows ==
  ASSUME IInv, NEW c \in Conn, NEW ok \in BOOLEAN, NEW outdated, Close(c, ok, outdated)
  PROVE  /\ \A d \in Conn : Follows(d)
         /\ \A d \in Conn \ {c} : conn'[d].stale = (conn[d].stale \/ d \in outdated)
<1>1. conn' = [d \in Conn |-> IF d = c THEN Idle
                              ELSE [conn[d] EXCEPT !.stale = @ \/ d \in outdated]]
  BY DEF Close
<1>2. Follows(c)
  BY <1>1 DEF Follows, Idle
<1>3. ASSUME NEW d \in Conn \ {c}
      PROVE  Follows(d) /\ conn'[d].stale = (conn[d].stale \/ d \in outdated)
  <2> DEFINE m == [conn[d] EXCEPT !.stale = conn[d].stale \/ d \in outdated]
  <2>1. conn'[d] = m
    BY <1>1
  <2>2. conn[d] \in ConnRecord
    BY DEF IInv, ConnTyped
  <2>3. /\ m.op = conn[d].op /\ m.seen = conn[d].seen /\ m.at = conn[d].at
        /\ m.stale = (conn[d].stale \/ d \in outdated)
    BY <2>2 DEF ConnRecord
  <2> HIDE DEF m
  <2> QED
    BY <2>1, <2>3 DEF Follows
<1> QED
  BY <1>2, <1>3

\* The holds of an account depend on nothing but the status of the holds.
LEMMA HoldsStay ==
  ASSUME UNCHANGED hold
  PROVE  \A u \in User : ActiveHolds(u)' = ActiveHolds(u)
BY DEF ActiveHolds

\* A transaction that changed nothing adds no hold.
LEMMA CapReturns ==
  ASSUME IInv, CInv, NEW c \in Conn, NEW ok \in BOOLEAN, Return(c, ok), UNCHANGED hold
  PROVE  CInv'
BY HoldsStay, CloseFollows, CapStays DEF Return

\* One transaction goes on, and the others stand still.
LEMMA CapOneStays ==
  ASSUME IInv, CInv, NEW c \in Conn, NEW k, conn' = [conn EXCEPT ![c] = k], UNCHANGED hold,
         \/ /\ conn[c].at # "idle" /\ k.op = conn[c].op /\ k.seen = conn[c].seen
            /\ k.stale = conn[c].stale /\ k.at # "write"
         \/ CapHolds(k, ActiveHolds(UserOf(k.op))) /\ UserOf(k.op) \in User
  PROVE  CInv'
<1>1. conn'[c] = k /\ \A d \in Conn \ {c} : conn'[d] = conn[d]
  BY DEF IInv, ConnTyped
<1>2. \A u \in User : ActiveHolds(u)' = ActiveHolds(u)
  BY HoldsStay
<1>3. ASSUME NEW d \in Conn \ {c} PROVE Follows(d)
  BY <1>1 DEF Follows
<1>4. Follows(c) \/ CapHolds(conn[c], ActiveHolds(AccountOf(c)))'
  <2>1. CASE /\ conn[c].at # "idle" /\ k.op = conn[c].op /\ k.seen = conn[c].seen
             /\ k.stale = conn[c].stale /\ k.at # "write"
    BY <1>1, <2>1 DEF Follows
  <2>2. CASE CapHolds(k, ActiveHolds(UserOf(k.op))) /\ UserOf(k.op) \in User
    <3>1. PICK u \in User : u = UserOf(k.op)
      BY <2>2
    <3>2. CapHolds(k, ActiveHolds(u)') /\ AccountOf(c)' = u
      BY <1>1, <1>2, <2>2, <3>1 DEF AccountOf
    <3>3. ActiveHolds(AccountOf(c))' = ActiveHolds(u)'
      BY <3>2 DEF ActiveHolds
    <3> QED
      BY <1>1, <3>2, <3>3 DEF CapHolds
  <2> QED
    BY <2>1, <2>2
<1> QED
  BY <1>2, <1>3, <1>4, CapStays

\* One that goes on adds none.
LEMMA CapGoes ==
  ASSUME IInv, CInv, NEW c \in Conn, NEW at, at # "write", Goto(c, at),
         conn[c].at # "idle", UNCHANGED hold
  PROVE  CInv'
<1> DEFINE k == [conn[c] EXCEPT !.at = at]
<1>1. k.op = conn[c].op /\ k.seen = conn[c].seen /\ k.stale = conn[c].stale /\ k.at = at
  BY DEF IInv, ConnTyped, ConnRecord
<1>2. conn' = [conn EXCEPT ![c] = k]
  BY DEF Goto
<1> HIDE DEF k
<1> QED
  BY <1>1, <1>2, CapOneStays

\* One that begins sees the holds as they are.
LEMMA CapBegins ==
  ASSUME IInv, CInv, NEW c \in Conn, NEW op \in Op, NEW hook, Begin(c, op, hook), UNCHANGED Started
  PROVE  CInv'
<1> DEFINE s == IF Serializable(op) THEN ActiveHolds(UserOf(op)) ELSE {}
           k == [Idle EXCEPT !.op = op, !.at = FirstStatement(op[1]), !.hook = hook, !.seen = s]
<1>1. conn' = [conn EXCEPT ![c] = k]
  BY DEF Begin
<1>2. k.op = op /\ k.at = FirstStatement(op[1]) /\ k.seen = s
  BY DEF Idle
<1>3. FirstStatement(op[1]) # "write" /\ UNCHANGED hold /\ UserOf(op) \in User
  BY OpShape DEF FirstStatement, Started, database
<1> HIDE DEF k
<1>4. CapHolds(k, ActiveHolds(UserOf(k.op)))
  BY <1>2, <1>3 DEF CapHolds
<1> QED
  BY <1>1, <1>2, <1>3, <1>4, CapOneStays

\* The count is taken under the lock, from a snapshot or from the rows.
LEMMA CapLocks == ASSUME IInv, CInv, NEW c \in Conn, Lock(c) PROVE CInv'
<1> DEFINE op == conn[c].op
           u == AccountOf(c)
           row == IF conn[c].read # None THEN conn[c].read ELSE account[u]
           at == AfterLock(c, row)
           k == [conn[c] EXCEPT !.at = at, !.read = row]
<1>1. /\ conn[c].at = "lock" /\ UNCHANGED hold
      /\ \/ Return(c, FALSE)
         \/ at # "refused" /\ conn' = [conn EXCEPT ![c] = k]
  BY DEF Lock, AccountOf, database
<1>2. /\ conn[c] \in ConnRecord /\ u \in User /\ u = UserOf(op)
  BY <1>1, InProgress
<1>3. CASE Return(c, FALSE)
  BY <1>1, <1>3, CapReturns
<1>4. CASE at # "refused" /\ conn' = [conn EXCEPT ![c] = k]
  <2>1. at = "write" => ~conn[c].stale /\ ~Refused(c, row)
    BY <1>4 DEF AfterLock
  <2> HIDE DEF at, row
  <2>2. k.op = op /\ k.seen = conn[c].seen /\ k.stale = conn[c].stale /\ k.at = at
    BY <1>2 DEF ConnRecord
  <2> HIDE DEF k
  <2>3. CASE at # "write"
    BY <1>1, <1>4, <2>2, <2>3, CapOneStays
  <2>4. CASE at = "write" /\ op[1] # "reserve"
    <3>1. CapHolds(k, ActiveHolds(UserOf(k.op)))
      BY <2>2, <2>4 DEF CapHolds
    <3> QED
      BY <1>1, <1>2, <1>4, <2>2, <3>1, CapOneStays
  <2>5. CASE at = "write" /\ op[1] = "reserve"
    <3>1. ~(Cardinality(Counted(c)) >= MaxConcurrentJobs)
      BY <2>1, <2>5 DEF Refused
    <3>2. /\ CapHolds(conn[c], ActiveHolds(u)) /\ conn[c].seen \in SUBSET Job
          /\ ActiveHolds(u) \in SUBSET Job
      BY <1>2 DEF CInv, ConnRecord, ActiveHolds
    <3>3. Cardinality(conn[c].seen) \in Nat /\ Cardinality(ActiveHolds(u)) \in Nat
      BY <3>2, HoldsFinite
    <3>4. CASE Serializable(op)
      <4>1. ActiveHolds(u) \ NewProject \subseteq conn[c].seen
        BY <1>1, <2>1, <2>5, <3>2, <3>4 DEF CapHolds
      <4>2. Cardinality(conn[c].seen) < MaxConcurrentJobs
        BY <3>1, <3>3, <3>4 DEF Counted
      <4>3. CapHolds(k, ActiveHolds(u))
        BY <2>2, <3>4, <4>1, <4>2 DEF CapHolds
      <4> QED
        BY <1>1, <1>2, <1>4, <2>2, <4>3, CapOneStays
    <3>5. CASE ~Serializable(op)
      <4>1. Cardinality(ActiveHolds(u)) < MaxConcurrentJobs
        BY <1>2, <3>1, <3>3, <3>5 DEF Counted
      <4>2. CapHolds(k, ActiveHolds(u))
        BY <2>2, <3>5, <4>1 DEF CapHolds
      <4> QED
        BY <1>1, <1>2, <1>4, <2>2, <4>2, CapOneStays
    <3> QED
      BY <3>4, <3>5
  <2> QED
    BY <2>3, <2>4, <2>5
<1> QED
  BY <1>1, <1>3, <1>4

\* Every statement keeps what the transactions know of the holds.
LEMMA CapRuns ==
  ASSUME IInv, CInv, NEW c \in Conn,
         LockPromo(c) \/ Ensure(c) \/ ReadGrant(c) \/ InsertGrant(c) \/ Lookup(c) \/ CutOff(c)
  PROVE  CInv'
<1>1. UNCHANGED hold /\ conn[c].at # "idle"
  BY DEF LockPromo, Ensure, ReadGrant, InsertGrant, Lookup, CutOff, database
<1>2. \/ \E ok \in BOOLEAN : Return(c, ok)
      \/ \E at \in Stage \ {"write"} : Goto(c, at)
      \/ conn' = [conn EXCEPT ![c].at = "read", ![c].read = Seed]
      \/ conn' = [conn EXCEPT ![c].grant = TRUE, ![c].at = "lock"]
  <2>1. {"ensure", "read", "insert", "lock"} \subseteq Stage \ {"write"}
    BY DEF Stage
  <2>2. CASE LockPromo(c)
    BY <2>1, <2>2 DEF LockPromo
  <2>3. CASE Ensure(c)
    BY <2>1, <2>3 DEF Ensure
  <2>4. CASE ReadGrant(c)
    BY <2>1, <2>4 DEF ReadGrant
  <2>5. CASE InsertGrant(c)
    <3>1. (conn[c].op[1] = "ensure") \in BOOLEAN
      OBVIOUS
    <3> QED
      BY <2>5, <3>1 DEF InsertGrant
  <2>6. CASE Lookup(c)
    BY <2>1, <2>6 DEF Lookup
  <2>7. CASE CutOff(c)
    BY <2>7 DEF CutOff
  <2> QED
    BY <2>2, <2>3, <2>4, <2>5, <2>6, <2>7
<1>3. conn[c] \in ConnRecord
  BY DEF IInv, ConnTyped
<1>4. CASE conn' = [conn EXCEPT ![c].at = "read", ![c].read = Seed]
  <2> DEFINE k == [conn[c] EXCEPT !.at = "read", !.read = Seed]
  <2>1. /\ k.op = conn[c].op /\ k.seen = conn[c].seen /\ k.stale = conn[c].stale
        /\ k.at = "read"
    BY <1>3 DEF ConnRecord
  <2>2. conn' = [conn EXCEPT ![c] = k]
    BY <1>4
  <2> HIDE DEF k
  <2> QED
    BY <1>1, <2>1, <2>2, CapOneStays
<1>5. CASE conn' = [conn EXCEPT ![c].grant = TRUE, ![c].at = "lock"]
  <2> DEFINE k == [conn[c] EXCEPT !.grant = TRUE, !.at = "lock"]
  <2>1. /\ k.op = conn[c].op /\ k.seen = conn[c].seen /\ k.stale = conn[c].stale
        /\ k.at = "lock"
    BY <1>3 DEF ConnRecord
  <2>2. conn' = [conn EXCEPT ![c] = k]
    BY <1>5
  <2> HIDE DEF k
  <2> QED
    BY <1>1, <2>1, <2>2, CapOneStays
<1> QED
  BY <1>1, <1>2, <1>4, <1>5, CapReturns, CapGoes

\* The status of the holds after a commit.
LEMMA WriteHolds ==
  ASSUME IInv, NEW c \in Conn, conn[c].at \in {"write", "repeat"}, Write(c),
         NEW v \in User
  PROVE  /\ ~(conn[c].at = "write" /\ conn[c].op[1] = "reserve") => ActiveHolds(v)' = ActiveHolds(v)
         /\ conn[c].at = "write" /\ conn[c].op[1] = "reserve" =>
              /\ conn[c].op[2] \in Job /\ Owner[conn[c].op[2]] = AccountOf(c)
              /\ ActiveHolds(v)' = IF v = AccountOf(c) THEN ActiveHolds(v) \cup {conn[c].op[2]}
                                   ELSE ActiveHolds(v)
<1> DEFINE op == conn[c].op
           own == IF conn[c].at = "write" THEN op ELSE <<"none">>
           amount == Amount(own, conn[c].read)
<1>0. HoldTyped /\ CallTyped
  BY DEF IInv
<1>1. hold' = CASE own[1] = "reserve" -> [hold EXCEPT ![op[2]] = [status |-> "ACTIVE", consumed |-> 0]]
                [] own[1] = "meter" /\ call[op[2]].job # None ->
                     [hold EXCEPT ![call[op[2]].job].consumed = @ - amount]
                [] OTHER -> hold
  BY DEF Write
<1>2. /\ AccountOf(c) = UserOf(op)
      /\ op[1] = "reserve" => op[2] \in Job /\ Owner[op[2]] = AccountOf(c)
      /\ op[1] = "meter" => op[2] \in Call
  BY InProgress, OpShape DEF UserOf
<1>3. own[1] # "none" => own = op /\ conn[c].at = "write"
  OBVIOUS
<1>4. <<"none">>[1] = "none"
  OBVIOUS
<1>5. own[1] = "reserve" <=> conn[c].at = "write" /\ op[1] = "reserve"
  BY <1>4
<1> HIDE DEF own, op, amount
<1>6. CASE own[1] = "reserve"
  <2>1. op[2] \in Job /\ Owner[op[2]] = AccountOf(c)
    BY <1>2, <1>5, <1>6
  <2>2. hold' = [hold EXCEPT ![op[2]] = [status |-> "ACTIVE", consumed |-> 0]]
    BY <1>1, <1>6
  <2>3. \A j \in Job : hold'[j].status = IF j = op[2] THEN "ACTIVE" ELSE hold[j].status
    BY <1>0, <2>1, <2>2 DEF HoldTyped
  <2>4. ActiveHolds(v)' = IF v = AccountOf(c) THEN ActiveHolds(v) \cup {op[2]} ELSE ActiveHolds(v)
    BY <2>1, <2>3 DEF ActiveHolds
  <2> QED
    BY <1>5, <1>6, <2>1, <2>4 DEF op
<1>7. CASE own[1] # "reserve"
  <2>1. \A j \in Job : hold'[j].status = hold[j].status
    <3>1. CASE own[1] = "meter" /\ call[op[2]].job # None
      <4>1. hold' = [hold EXCEPT ![call[op[2]].job].consumed = @ - amount]
        BY <1>1, <3>1
      <4> QED
        BY <1>0, <4>1 DEF HoldTyped
    <3>2. CASE ~(own[1] = "meter" /\ call[op[2]].job # None)
      <4>1. hold' = hold
        BY <1>1, <1>7, <3>2
      <4> QED
        BY <4>1
    <3> QED
      BY <3>1, <3>2
  <2>2. ActiveHolds(v)' = ActiveHolds(v)
    BY <2>1 DEF ActiveHolds
  <2> QED
    BY <1>5, <1>7, <2>2 DEF op
<1> QED
  BY <1>6, <1>7

\* A reservation is committed: nobody else is about to write for this account, and
\* every follow-up message that has counted without it is stale.
LEMMA CapCommits ==
  ASSUME IInv, CInv, NEW c \in Conn, NEW ok \in BOOLEAN,
         conn[c].at = "write", conn[c].op[1] = "reserve", Write(c), Close(c, ok, Outdated(c))
  PROVE  CInv'
<1> DEFINE op == conn[c].op
           j == op[2]
<1>0. PICK u \in User : u = AccountOf(c)
  BY InProgress
<1>1. op \in Op /\ u = UserOf(op) /\ locked[u] = c
  BY <1>0, InProgress DEF IInv, Reads, StageOK
<1>2. /\ j \in Job /\ ActiveHolds(u)' = ActiveHolds(u) \cup {j}
      /\ \A v \in User : v # u => ActiveHolds(v)' = ActiveHolds(v)
  BY <1>0, WriteHolds
<1>3. /\ \A d \in Conn : Follows(d)
      /\ \A d \in Conn \ {c} : conn'[d].stale = (conn[d].stale \/ d \in Outdated(c))
      /\ conn'[c] = Idle
  BY CloseFollows, CloseFrees
<1> HIDE DEF j, op
<1>4. ASSUME NEW d \in Conn PROVE CapHolds(conn[d], ActiveHolds(AccountOf(d)))'
  <2>1. CASE conn'[d].at = "idle"
    BY <2>1 DEF CapHolds
  <2>2. CASE conn'[d].at # "idle"
    <3>1. /\ d # c /\ conn[d].at # "idle" /\ conn'[d].op = conn[d].op /\ conn'[d].seen = conn[d].seen
          /\ conn'[d].at = "write" => conn[d].at = "write"
          /\ conn[d].stale => conn'[d].stale
      BY <1>3, <2>2 DEF Follows, Idle
    <3>2. PICK v \in User : v = AccountOf(d)
      BY <3>1, InProgress
    <3>3. AccountOf(d)' = v
      BY <3>1, <3>2 DEF AccountOf
    <3>4. ActiveHolds(AccountOf(d))' = ActiveHolds(v)'
      BY <3>3 DEF ActiveHolds
    <3>5. CapHolds(conn[d], ActiveHolds(v)) /\ ActiveHolds(v) \in SUBSET Job
      BY <3>2 DEF CInv, ActiveHolds
    <3>6. CASE v # u
      <4>1. ActiveHolds(v)' = ActiveHolds(v)
        BY <1>2, <3>6
      <4>2. CapHolds(conn'[d], ActiveHolds(v)')
        BY <3>1, <3>5, <4>1, CapLasts
      <4> QED
        BY <3>4, <4>2 DEF CapHolds
    <3>7. CASE v = u
      <4>1. conn[d].at # "write"
        <5> SUFFICES ASSUME conn[d].at = "write" PROVE FALSE
          OBVIOUS
        <5>1. StageOK(conn[d])
          BY <3>1, InProgress
        <5>2. conn[d].read # None
          BY <5>1 DEF StageOK
        <5>3. locked[v] = d
          BY <3>2, <5>2 DEF IInv, Reads
        <5> QED
          BY <1>1, <3>1, <3>7, <5>3
      <4>2. conn'[d].at # "write"
        BY <3>1, <4>1
      <4>3. ASSUME conn'[d].op[1] = "reserve", Serializable(conn'[d].op), ~conn'[d].stale
            PROVE  ActiveHolds(v)' \ NewProject \subseteq conn'[d].seen
        <5>1. d \notin Outdated(c) /\ ~conn[d].stale
          BY <1>3, <3>1, <4>3
        <5>2. ~Serializable(op)
          BY <1>0, <3>1, <3>2, <3>7, <4>3, <5>1 DEF Outdated, AccountOf, op
        <5>3. j \in NewProject
          BY <5>2 DEF Serializable, op, j
        <5>4. ActiveHolds(v) \ NewProject \subseteq conn[d].seen
          BY <3>1, <3>5, <4>3, <5>1 DEF CapHolds
        <5> QED
          BY <1>2, <3>1, <3>7, <5>3, <5>4
      <4> QED
        BY <3>4, <4>2, <4>3 DEF CapHolds
    <3> QED
      BY <3>6, <3>7
  <2> QED
    BY <2>1, <2>2
<1>5. CapAmongEqual'
  <2> SUFFICES ASSUME NEW v \in User, NEW kind \in {NewProject, Job \ NewProject}
               PROVE  Cardinality(ActiveHolds(v)' \cap kind) <= MaxConcurrentJobs
    BY DEF CapAmongEqual
  <2>1. Cardinality(ActiveHolds(v) \cap kind) <= MaxConcurrentJobs
    BY DEF CInv, CapAmongEqual
  <2>2. CASE v # u \/ j \notin kind
    <3>1. ActiveHolds(v)' \cap kind = ActiveHolds(v) \cap kind
      BY <1>2, <2>2
    <3> QED
      BY <2>1, <3>1
  <2>3. CASE v = u /\ j \in kind
    <3>1. CapHolds(conn[c], ActiveHolds(u)) /\ conn[c].seen \in SUBSET Job /\ ActiveHolds(u) \in SUBSET Job
      BY <1>0 DEF CInv, IInv, ConnTyped, ConnRecord, ActiveHolds
    <3>2. PICK S \in SUBSET Job : /\ Cardinality(S) < MaxConcurrentJobs
                                  /\ ActiveHolds(u) \cap kind \subseteq S
      <4>1. CASE Serializable(op)
        <5>1. /\ ActiveHolds(u) \ NewProject \subseteq conn[c].seen
              /\ Cardinality(conn[c].seen) < MaxConcurrentJobs
          BY <3>1, <4>1 DEF CapHolds, op
        <5>2. kind = Job \ NewProject
          BY <2>3, <4>1 DEF Serializable, j
        <5> QED
          BY <3>1, <5>1, <5>2
      <4>2. CASE ~Serializable(op)
        <5>1. Cardinality(ActiveHolds(u)) < MaxConcurrentJobs
          BY <3>1, <4>2 DEF CapHolds, op
        <5> QED
          BY <3>1, <5>1
      <4> QED
        BY <4>1, <4>2
    <3>3. /\ IsFiniteSet(S) /\ Cardinality(S) \in Nat
          /\ Cardinality(S \cup {j}) <= Cardinality(S) + 1
      <4>1. IsFiniteSet(S) /\ Cardinality(S) \in Nat
        BY HoldsFinite
      <4>2. Cardinality(S \cup {j}) = IF j \in S THEN Cardinality(S) ELSE Cardinality(S) + 1
        BY <4>1, FS_AddElement
      <4> QED
        BY <4>1, <4>2
    <3> DEFINE T == ActiveHolds(v)' \cap kind
               R == S \cup {j}
    <3>4. R \in SUBSET Job /\ T \in SUBSET R
      BY <1>2, <2>3, <3>2
    <3>5. Cardinality(R) <= Cardinality(S) + 1
      BY <3>3
    <3> HIDE DEF R, T
    <3>6. Cardinality(T) <= Cardinality(R) /\ Cardinality(R) \in Nat /\ Cardinality(T) \in Nat
      BY <3>4, HoldsFinite, FewerHolds
    <3>7. Cardinality(T) <= MaxConcurrentJobs
      BY <3>2, <3>3, <3>5, <3>6
    <3> QED
      BY <3>7 DEF T
  <2> QED
    BY <2>2, <2>3
<1> QED
  BY <1>4, <1>5 DEF CInv

\* A hold that is committed was counted, or its transaction is stale and fails.
LEMMA CapCommitKeeps == ASSUME IInv, CInv, NEW c \in Conn, Commit(c) PROVE CInv'
<1>1. /\ conn[c].at \in {"write", "repeat"}
      /\ \/ Return(c, FALSE) /\ UNCHANGED hold
         \/ Write(c) /\ \E ok \in BOOLEAN : Close(c, ok, Outdated(c))
  BY DEF Commit, database
<1>2. CASE Return(c, FALSE) /\ UNCHANGED hold
  BY <1>2, CapReturns
<1>3. CASE Write(c) /\ \E ok \in BOOLEAN : Close(c, ok, Outdated(c))
  <2>1. PICK ok \in BOOLEAN : Close(c, ok, Outdated(c))
    BY <1>3
  <2>2. CASE conn[c].at = "write" /\ conn[c].op[1] = "reserve"
    BY <1>3, <2>1, <2>2, CapCommits
  <2>3. CASE ~(conn[c].at = "write" /\ conn[c].op[1] = "reserve")
    <3>1. \A v \in User : ActiveHolds(v)' = ActiveHolds(v)
      BY <1>1, <1>3, <2>3, WriteHolds
    <3> QED
      BY <2>1, <3>1, CloseFollows, CapStays
  <2> QED
    BY <2>2, <2>3
<1> QED
  BY <1>1, <1>2, <1>3

\* Every step keeps the limit among requests of one kind.
LEMMA CapNext == IInv /\ CInv /\ [Next]_vars => CInv'
<1> SUFFICES ASSUME IInv, CInv, [Next]_vars PROVE CInv'
  OBVIOUS
<1>1. ASSUME NEW c \in Conn, Statement(c) \/ CutOff(c) PROVE CInv'
  BY <1>1, CapRuns, CapLocks, CapCommitKeeps DEF Statement
<1>2. ASSUME NEW c \in Conn,
             \/ \E u \in User : EnsureAccount(c, u) \/ Redeem(c, u)
             \/ \E j \in Job : Reserve(c, j)
             \/ \E k \in Call : Meter(c, k)
             \/ \E f \in Fee : Charge(c, f)
             \/ \E o \in Order : Verify(c, o)
             \/ \E i \in Order \cup Cycle : Deliver(c, i)
      PROVE  CInv'
  <2>1. PICK op \in Op, hook \in BOOLEAN : Begin(c, op, hook) /\ UNCHANGED Started
    BY <1>2, OpMade, HandlingShape
    DEF EnsureAccount, Redeem, Reserve, Meter, Charge, Verify, Deliver
  <2> QED
    BY <2>1, CapBegins
<1>3. ASSUME UNCHANGED conn, \A u \in User : ActiveHolds(u)' \subseteq ActiveHolds(u)
      PROVE  CInv'
  BY <1>3, CapStays DEF Follows
<1>4. ASSUME UNCHANGED <<conn, hold>> PROVE CInv'
  BY <1>3, <1>4, HoldsStay
<1>5. ASSUME NEW j \in Job, Settle(j) PROVE CInv'
  <2>1. UNCHANGED conn /\ \A i \in Job : hold'[i].status = "ACTIVE" => hold[i].status = "ACTIVE"
    BY <1>5 DEF Settle, IInv, HoldTyped
  <2>2. \A u \in User : ActiveHolds(u)' \subseteq ActiveHolds(u)
    BY <2>1 DEF ActiveHolds
  <2> QED
    BY <1>3, <2>1, <2>2
<1>6. ASSUME NEW j \in Job, PublishFrame(j) \/ Retry(j) PROVE CInv'
  BY <1>4, <1>6 DEF PublishFrame, Retry, database
<1>7. ASSUME NEW k \in Call, NEW j \in Job,
             MakeTurn(k, j) \/ MakeSummary(k, j) \/ \E tries \in 1..2 : MakeHarnessCall(k, j, tries)
      PROVE  CInv'
  BY <1>4, <1>7 DEF MakeTurn, MakeSummary, MakeHarnessCall, Made, database
<1>8. ASSUME NEW k \in Call, MakeCompletion(k) PROVE CInv'
  BY <1>4, <1>8 DEF MakeCompletion, database
<1>9. ASSUME NEW i \in Order \cup Cycle, Pay(i) \/ Discard(i) PROVE CInv'
  BY <1>4, <1>9 DEF Pay, Discard, database
<1>10. CASE UNCHANGED vars
  BY <1>4, <1>10 DEF vars, database
<1> QED
  BY <1>1, <1>2, <1>5, <1>6, <1>7, <1>8, <1>9, <1>10 DEF Next

\* Requests of one kind keep to the limit on concurrent jobs: two new projects
\* because each counts under the account's row lock, two follow-up messages
\* because of two snapshots without each other only one may commit.
THEOREM CapAmongEqualKept == Spec => []CapAmongEqual
<1>1. Spec => []CInv
  BY CapInit, CapNext, Invariance, PTL DEF Spec
<1>2. CInv => CapAmongEqual
  BY DEF CInv
<1> QED
  BY <1>1, <1>2, PTL
=============================================================================
