----------------------------- MODULE WalletProofs -----------------------------
(* Credits implements Wallet, for any accounts, connections, jobs, calls, orders,
   cycles and fees, any amounts and any number of faults. *)
EXTENDS CreditsProofs

USE CreditsAssumption

-----------------------------------------------------------------------------
(* What the wallet's steps rest on, beside the invariant of the ledger. *)

\* The calls that were answered: each of them took one sequence of its job.
MadeCalls == {k \in Call : call[k].state # "none"}

\* A call of a job belongs to the job's account, and its sequence is in range.
Placed ==
  \A k \in Call : call[k].job # None =>
    /\ Owner[k] = Owner[call[k].job]
    /\ call[k].n \in -(MaxIndex + Cardinality(Call)) .. Cardinality(Call)

CountsWithin ==
  \A j \in Job : turns[j] <= Cardinality(MadeCalls) /\ summaries[j] <= Cardinality(MadeCalls)

\* No plan bucket holds more than a cycle's allotment.
PlanWithin == \A u \in User : account[u] # None => account[u].plan <= ALLOTMENT

\* A flat price that is about to be written is covered by the row that was read.
Covered ==
  \A c \in Conn : conn[c].at = "write" /\ conn[c].op[1] = "flat" => Gross(conn[c].read) >= PRICE

WInv == Placed /\ CountsWithin /\ PlanWithin /\ Covered

\* Initially there is nothing.
LEMMA WalletInit == Init => WInv
<1> SUFFICES ASSUME Init PROVE WInv
  OBVIOUS
<1>1. Placed /\ PlanWithin /\ Covered
  BY DEF Init, Placed, PlanWithin, Covered, Idle
<1>2. MadeCalls = {} /\ Cardinality({}) = 0
  BY FS_EmptySet DEF Init, MadeCalls
<1>3. CountsWithin
  BY <1>2 DEF Init, CountsWithin
<1> QED
  BY <1>1, <1>3 DEF WInv

-----------------------------------------------------------------------------
(* Calls and their sequences. *)

\* Answered calls are counted by a number no greater than that of all calls, and
\* one more than before once a call is added.
LEMMA MadeCount ==
  ASSUME NEW S \in SUBSET Call
  PROVE  /\ IsFiniteSet(S) /\ Cardinality(S) \in Nat /\ Cardinality(Call) \in Nat
         /\ Cardinality(S) <= Cardinality(Call)
         /\ \A T \in SUBSET S : Cardinality(T) <= Cardinality(S)
         /\ \A k \in Call \ S : Cardinality(S \cup {k}) = Cardinality(S) + 1
<1>1. /\ IsFiniteSet(S) /\ Cardinality(S) \in Nat /\ Cardinality(Call) \in Nat
      /\ Cardinality(S) <= Cardinality(Call)
  BY FS_Subset, FS_CardinalityType
<1>2. ASSUME NEW T \in SUBSET S PROVE Cardinality(T) <= Cardinality(S)
  BY <1>1, FS_Subset
<1>3. \A k \in Call \ S : Cardinality(S \cup {k}) = Cardinality(S) + 1
  BY <1>1, FS_AddElement
<1> QED
  BY <1>1, <1>2, <1>3

\* Calls that keep their job and their sequence stay where they are, while no
\* counter grows.
LEMMA CallsStay ==
  ASSUME WInv, CallTyped, CountTyped, CountTyped',
         \A k \in Call : /\ call'[k].job = call[k].job /\ call'[k].n = call[k].n
                         /\ call[k].state # "none" => call'[k].state # "none",
         \A j \in Job : turns'[j] <= turns[j] /\ summaries'[j] <= summaries[j]
  PROVE  (Placed /\ CountsWithin)'
<1>1. Placed'
  BY DEF WInv, Placed
<1> DEFINE before == MadeCalls
           now == {k \in Call : call'[k].state # "none"}
<1>2. before \in SUBSET now /\ now \in SUBSET Call /\ MadeCalls' = now
  BY DEF MadeCalls
<1>3. \A j \in Job : turns[j] <= Cardinality(before) /\ summaries[j] <= Cardinality(before)
  BY DEF WInv, CountsWithin
<1> HIDE DEF before, now
<1>4. Cardinality(before) <= Cardinality(now) /\ Cardinality(now) \in Nat /\ Cardinality(before) \in Nat
  BY <1>2, MadeCount
<1>5. ASSUME NEW j \in Job
      PROVE  turns'[j] <= Cardinality(now) /\ summaries'[j] <= Cardinality(now)
  BY <1>3, <1>4 DEF CountTyped
<1> QED
  BY <1>1, <1>2, <1>5 DEF CountsWithin

\* A call is answered, under a sequence within the counts so far.
LEMMA CallPlaced ==
  ASSUME WInv, CallTyped, CountTyped, CountTyped', NEW k \in Call, call[k].state = "none",
         NEW m, call' = [call EXCEPT ![k] = m], m.state = "made",
         m.job # None => /\ Owner[k] = Owner[m.job]
                         /\ m.n \in -(MaxIndex + Cardinality(Call)) .. Cardinality(Call),
         \A j \in Job : /\ turns'[j] <= turns[j] + 1
                        /\ summaries'[j] <= summaries[j] + 1
  PROVE  (Placed /\ CountsWithin)'
<1>1. call'[k] = m /\ \A l \in Call \ {k} : call'[l] = call[l]
  BY DEF CallTyped
<1>2. Placed'
  BY <1>1 DEF WInv, Placed
<1> DEFINE before == MadeCalls
<1>3. before \in SUBSET Call /\ k \notin before /\ MadeCalls' = before \cup {k}
  BY <1>1 DEF MadeCalls
<1>4. \A j \in Job : turns[j] <= Cardinality(before) /\ summaries[j] <= Cardinality(before)
  BY DEF WInv, CountsWithin
<1> HIDE DEF before
<1>5. Cardinality(before) \in Nat /\ Cardinality(before \cup {k}) = Cardinality(before) + 1
  BY <1>3, MadeCount
<1>6. ASSUME NEW j \in Job
      PROVE  /\ turns'[j] <= Cardinality(before) + 1
             /\ summaries'[j] <= Cardinality(before) + 1
  BY <1>4, <1>5 DEF CountTyped
<1> QED
  BY <1>2, <1>3, <1>5, <1>6 DEF CountsWithin

\* The callers of a model call.
LEMMA CallersPlace ==
  ASSUME IInv, WInv, CountTyped', NEW k \in Call, NEW j \in Job,
         \/ MakeTurn(k, j) \/ MakeSummary(k, j)
         \/ \E tries \in 1..2 : MakeHarnessCall(k, j, tries)
  PROVE  (Placed /\ CountsWithin)'
<1>0. /\ CallTyped /\ CountTyped /\ MaxIndex \in Nat
      /\ turns[j] <= Cardinality(MadeCalls) /\ summaries[j] <= Cardinality(MadeCalls)
  BY DEF IInv, WInv, CountsWithin
<1> DEFINE size == Cardinality(Call)
           made == Cardinality(MadeCalls)
<1>1. MadeCalls \in SUBSET Call
  BY DEF MadeCalls
<1>2. /\ made \in Nat /\ size \in Nat /\ made <= size
      /\ k \notin MadeCalls => made + 1 <= size
  <2>1. made \in Nat /\ size \in Nat /\ made <= size
    BY <1>1, MadeCount
  <2>2. ASSUME k \notin MadeCalls PROVE made + 1 <= size
    <3>1. MadeCalls \cup {k} \in SUBSET Call /\ k \in Call \ MadeCalls
      BY <1>1, <2>2
    <3>2. Cardinality(MadeCalls \cup {k}) = made + 1
      BY <1>1, <3>1, MadeCount
    <3>3. Cardinality(MadeCalls \cup {k}) <= size
      BY <3>1, MadeCount
    <3> QED
      BY <3>2, <3>3
  <2> QED
    BY <2>1, <2>2
<1>3. ASSUME NEW n, NEW tries, Made(k, j, n, tries), n \in -(MaxIndex + size) .. size,
             \A i \in Job : /\ turns'[i] <= turns[i] + 1
                            /\ summaries'[i] <= summaries[i] + 1
      PROVE  (Placed /\ CountsWithin)'
  <2> DEFINE m == [job |-> j, n |-> n, state |-> "made", tries |-> tries]
  <2>1. /\ call[k].state = "none" /\ Owner[k] = Owner[j] /\ call' = [call EXCEPT ![k] = m]
        /\ m.state = "made" /\ m.job = j /\ m.n = n
    BY <1>3 DEF Made
  <2> HIDE DEF m
  <2> QED
    BY <1>0, <1>3, <2>1, CallPlaced
<1>4. k \notin MadeCalls
  BY DEF MakeTurn, MakeSummary, MakeHarnessCall, Made, MadeCalls
<1> HIDE DEF size, made
<1>5. CASE MakeTurn(k, j)
  <2>1. Made(k, j, turns[j], 2) /\ turns' = [turns EXCEPT ![j] = @ + 1] /\ summaries' = summaries
    BY <1>5 DEF MakeTurn
  <2>2. turns[j] \in -(MaxIndex + size) .. size
    BY <1>0, <1>2 DEF CountTyped, made
  <2>3. \A i \in Job : turns'[i] <= turns[i] + 1 /\ summaries'[i] <= summaries[i] + 1
    BY <1>0, <2>1 DEF CountTyped
  <2> QED
    BY <1>3, <2>1, <2>2, <2>3 DEF size
<1>6. CASE MakeSummary(k, j)
  <2>1. /\ Made(k, j, -(summaries[j] + 1), 2) /\ turns' = turns
        /\ summaries' = [summaries EXCEPT ![j] = @ + 1]
    BY <1>6 DEF MakeSummary
  <2>2. -(summaries[j] + 1) \in -(MaxIndex + size) .. size
    BY <1>0, <1>2, <1>4 DEF CountTyped, made
  <2>3. \A i \in Job : turns'[i] <= turns[i] + 1 /\ summaries'[i] <= summaries[i] + 1
    BY <1>0, <2>1 DEF CountTyped
  <2> QED
    BY <1>3, <2>1, <2>2, <2>3 DEF size
<1>7. ASSUME NEW tries \in 1..2, MakeHarnessCall(k, j, tries)
      PROVE  (Placed /\ CountsWithin)'
  <2>1. Made(k, j, -index[j], tries) /\ index[j] <= MaxIndex /\ turns' = turns /\ summaries' = summaries
    BY <1>7 DEF MakeHarnessCall
  <2>2. -index[j] \in -(MaxIndex + size) .. size
    BY <1>0, <1>2, <2>1 DEF CountTyped
  <2>3. \A i \in Job : turns'[i] <= turns[i] + 1 /\ summaries'[i] <= summaries[i] + 1
    BY <1>0, <2>1 DEF CountTyped
  <2> QED
    BY <1>3, <2>1, <2>2, <2>3 DEF size
<1> QED
  BY <1>5, <1>6, <1>7

\* A completion for an API key has no job and no sequence.
LEMMA CompletionPlaced ==
  ASSUME IInv, WInv, CountTyped', NEW k \in Call, MakeCompletion(k)
  PROVE  (Placed /\ CountsWithin)'
<1> DEFINE m == [job |-> None, n |-> 0, state |-> "made", tries |-> 1]
<1>1. /\ call[k].state = "none" /\ call' = [call EXCEPT ![k] = m] /\ UNCHANGED <<turns, summaries>>
      /\ m.state = "made" /\ m.job = None
  BY DEF MakeCompletion, counters
<1> HIDE DEF m
<1>2. CallTyped /\ CountTyped
  BY DEF IInv
<1>3. \A j \in Job : turns'[j] <= turns[j] + 1 /\ summaries'[j] <= summaries[j] + 1
  BY <1>1, <1>2 DEF CountTyped
<1> QED
  BY <1>1, <1>2, <1>3, CallPlaced

-----------------------------------------------------------------------------
(* Transactions and the row of the account. *)

\* No transaction but c's moves.
OthersStand(c) ==
  \A d \in Conn \ {c} :
    conn'[d].at = conn[d].at /\ conn'[d].op = conn[d].op /\ conn'[d].read = conn[d].read

LEMMA CoveredStays ==
  ASSUME WInv, NEW c \in Conn, OthersStand(c), conn'[c].at # "write"
  PROVE  Covered'
BY DEF WInv, Covered, OthersStand

\* One connection gets another record.
LEMMA OneStands ==
  ASSUME IInv, NEW c \in Conn, NEW k, conn' = [conn EXCEPT ![c] = k]
  PROVE  OthersStand(c) /\ conn'[c] = k
BY DEF IInv, ConnTyped, OthersStand

\* A transaction goes on to a statement other than its writes.
LEMMA GoesCovered ==
  ASSUME IInv, WInv, NEW c \in Conn, NEW at, at # "write", Goto(c, at)
  PROVE  Covered'
<1> DEFINE k == [conn[c] EXCEPT !.at = at]
<1>1. conn' = [conn EXCEPT ![c] = k]
  BY DEF Goto
<1>2. k.at = at
  BY DEF IInv, ConnTyped, ConnRecord
<1> HIDE DEF k
<1> QED
  BY <1>1, <1>2, OneStands, CoveredStays

LEMMA BeginsCovered ==
  ASSUME IInv, WInv, NEW c \in Conn, NEW op, NEW hook, Begin(c, op, hook)
  PROVE  Covered'
<1> DEFINE k == [Idle EXCEPT !.op = op, !.at = FirstStatement(op[1]), !.hook = hook,
                             !.seen = IF Serializable(op) THEN ActiveHolds(UserOf(op)) ELSE {}]
<1>1. conn' = [conn EXCEPT ![c] = k]
  BY DEF Begin
<1>2. k.at = FirstStatement(op[1])
  BY DEF Idle
<1>3. FirstStatement(op[1]) # "write"
  BY DEF FirstStatement
<1> HIDE DEF k
<1> QED
  BY <1>1, <1>2, <1>3, OneStands, CoveredStays

\* The end of a transaction touches nobody else's, and no call's job and sequence.
LEMMA CloseStands ==
  ASSUME IInv, IInv', WInv, NEW c \in Conn, NEW ok \in BOOLEAN, NEW outdated,
         Close(c, ok, outdated), conn[c].at # "idle", UNCHANGED counters
  PROVE  (Placed /\ CountsWithin /\ Covered)'
<1>1. CallTyped /\ CountTyped /\ CountTyped'
  BY DEF IInv
<1>2. OthersStand(c) /\ conn'[c] = Idle
  BY CloseFrees DEF OthersStand
<1>3. Covered'
  BY <1>2, CoveredStays DEF Idle
<1>4. ASSUME NEW k \in Call
      PROVE  /\ call'[k].job = call[k].job /\ call'[k].n = call[k].n
             /\ call[k].state # "none" => call'[k].state # "none"
  <2> DEFINE op == conn[c].op
  <2>1. \/ call' = call
        \/ call' = [call EXCEPT ![op[2]].state = "billed"]
        \/ call' = [call EXCEPT ![op[2]].tries = @ - 1]
    BY DEF Close
  <2> HIDE DEF op
  <2>2. call[k] = [job |-> call[k].job, n |-> call[k].n, state |-> call[k].state, tries |-> call[k].tries]
    BY <1>1 DEF CallTyped
  <2> QED
    BY <1>1, <2>1, <2>2 DEF CallTyped
<1>5. \A j \in Job : turns'[j] <= turns[j] /\ summaries'[j] <= summaries[j]
  BY <1>1 DEF counters, CountTyped
<1>6. (Placed /\ CountsWithin)'
  BY <1>1, <1>4, <1>5, CallsStay
<1> QED
  BY <1>3, <1>6

LEMMA PlanStays ==
  ASSUME WInv, UNCHANGED account
  PROVE  PlanWithin'
BY DEF WInv, PlanWithin

\* A transaction that changed nothing ends.
LEMMA ReturnStands ==
  ASSUME IInv, IInv', WInv, NEW c \in Conn, NEW ok \in BOOLEAN, Return(c, ok),
         conn[c].at # "idle", UNCHANGED <<account, counters>>
  PROVE  WInv'
BY CloseStands, PlanStays DEF Return, WInv

\* Steps that leave the calls and their counters alone.
LEMMA CallsAlone ==
  ASSUME IInv, IInv', WInv, UNCHANGED <<call, counters>>
  PROVE  (Placed /\ CountsWithin)'
<1>1. CallTyped /\ CountTyped /\ CountTyped'
  BY DEF IInv
<1>2. \A j \in Job : turns'[j] <= turns[j] /\ summaries'[j] <= summaries[j]
  BY <1>1 DEF counters, CountTyped
<1> QED
  BY <1>1, <1>2, CallsStay

\* The row a transaction has read is the row, and its plan within the allotment.
LEMMA RowWithin ==
  ASSUME IInv, WInv, NEW u \in User
  PROVE  RowOf(u) \in Buckets /\ RowOf(u).plan <= ALLOTMENT
<1>1. Seed \in Buckets /\ Seed.plan = 0 /\ ALLOTMENT \in Nat
  BY SeedType DEF Seed
<1>2. account[u] \in Buckets \cup {None}
  BY DEF IInv, MoneyTyped
<1> QED
  BY <1>1, <1>2 DEF RowOf, WInv, PlanWithin

\* Spending leaves no more in the plan bucket than there was.
LEMMA AfterPlan ==
  ASSUME NEW op, NEW a \in Buckets, a.plan <= ALLOTMENT
  PROVE  After(op, a).plan <= ALLOTMENT
<1>1. ASSUME NEW amount \in Nat
      PROVE  Spend(a, amount).plan <= ALLOTMENT
  BY DEF Spend, Least, Buckets
<1>2. CASE op[1] \in {"meter", "flat"}
  BY <1>1, <1>2 DEF After
<1>3. CASE op[1] \in {"bonus", "promo"}
  BY <1>3 DEF After, Buckets
<1>4. CASE op[1] = "plan"
  BY <1>4 DEF After, Buckets
<1>5. CASE op[1] \notin {"meter", "flat", "bonus", "promo", "plan"}
  BY <1>5 DEF After
<1> QED
  BY <1>2, <1>3, <1>4, <1>5

\* An account's row, changed within the allotment, and no other row.
LEMMA OneRowWithin ==
  ASSUME IInv, WInv, NEW u \in User, NEW a, account' = [account EXCEPT ![u] = a], a.plan <= ALLOTMENT
  PROVE  PlanWithin'
BY DEF IInv, MoneyTyped, WInv, PlanWithin

\* What a commit makes of the account: its row with the operation's amounts.
LEMMA WriteRow ==
  ASSUME IInv, NEW c \in Conn, conn[c].at \in {"write", "repeat"}, Write(c)
  PROVE  LET op  == conn[c].op
             u   == AccountOf(c)
             own == IF conn[c].at = "write" THEN op ELSE <<"none">>
             silent == own[1] \in {"none", "reserve"}
         IN  /\ op \in Op /\ op[1] # "ensure" /\ u \in User /\ u = UserOf(op)
             /\ conn[c].read = RowOf(u)
             /\ account' = IF silent /\ account[u] # None THEN account
                           ELSE [account EXCEPT ![u] = After(own, RowOf(u))]
             /\ keys' = keys \cup (IF conn[c].grant THEN {GrantKey(u)} ELSE {})
                             \cup (IF silent THEN {} ELSE {Key(own)})
<1>1. /\ conn[c] \in ConnRecord /\ StageOK(conn[c]) /\ AccountOf(c) \in User
      /\ AccountOf(c) = UserOf(conn[c].op) /\ conn[c].op \in Op
  BY InProgress
<1>2. conn[c].read # None /\ conn[c].op[1] # "ensure"
  BY <1>1 DEF StageOK
<1>3. conn[c].read = RowOf(AccountOf(c))
  BY <1>2 DEF IInv, Reads
<1> QED
  BY <1>1, <1>2, <1>3 DEF Write, AccountOf

LEMMA CommitStands ==
  ASSUME IInv, IInv', WInv, NEW c \in Conn, Commit(c)
  PROVE  WInv'
<1>1. /\ conn[c].at \in {"write", "repeat"} /\ UNCHANGED counters
      /\ \/ Return(c, FALSE) /\ UNCHANGED <<database, faults>>
         \/ Write(c) /\ \E ok \in BOOLEAN : Close(c, ok, Outdated(c))
  BY DEF Commit
<1>2. conn[c].at # "idle"
  BY <1>1
<1>3. CASE Return(c, FALSE) /\ UNCHANGED <<database, faults>>
  BY <1>1, <1>2, <1>3, ReturnStands DEF database
<1>4. ASSUME NEW ok \in BOOLEAN, Write(c), Close(c, ok, Outdated(c))
      PROVE  WInv'
  <2>1. (Placed /\ CountsWithin /\ Covered)'
    BY <1>1, <1>2, <1>4, CloseStands
  <2> DEFINE u   == AccountOf(c)
             own == IF conn[c].at = "write" THEN conn[c].op ELSE <<"none">>
             a   == After(own, RowOf(u))
  <2>2. /\ u \in User
        /\ account' = account \/ account' = [account EXCEPT ![u] = a]
    BY <1>1, <1>4, WriteRow
  <2>3. RowOf(u) \in Buckets /\ RowOf(u).plan <= ALLOTMENT
    BY <2>2, RowWithin
  <2>4. a.plan <= ALLOTMENT
    BY <2>3, AfterPlan
  <2> HIDE DEF u, a
  <2>5. PlanWithin'
    BY <2>2, <2>4, OneRowWithin, PlanStays
  <2> QED
    BY <2>1, <2>5 DEF WInv
<1> QED
  BY <1>1, <1>3, <1>4

LEMMA LockStands ==
  ASSUME IInv, IInv', WInv, NEW c \in Conn, Lock(c)
  PROVE  WInv'
<1> DEFINE op  == conn[c].op
           row == IF conn[c].read # None THEN conn[c].read ELSE account[UserOf(op)]
           at  == AfterLock(c, row)
<1>1. /\ conn[c].at = "lock" /\ UNCHANGED <<database, counters, faults>>
      /\ IF at = "refused" THEN Return(c, FALSE)
         ELSE /\ conn' = [conn EXCEPT ![c].at = at, ![c].read = row]
              /\ UNCHANGED <<promoLocked, call, event>>
  BY DEF Lock
<1>2. CASE at = "refused"
  <2>1. Return(c, FALSE) /\ UNCHANGED <<account, counters>> /\ conn[c].at # "idle"
    BY <1>1, <1>2 DEF database
  <2> QED
    BY <2>1, ReturnStands
<1>3. CASE at # "refused"
  <2> DEFINE k == [conn[c] EXCEPT !.at = at, !.read = row]
  <2>1. conn' = [conn EXCEPT ![c] = k]
    BY <1>1, <1>3 DEF IInv, ConnTyped, ConnRecord
  <2>2. k.at = at /\ k.op = op /\ k.read = row
    BY DEF IInv, ConnTyped, ConnRecord
  <2>3. at = "write" => ~Refused(c, row)
    BY DEF AfterLock
  <2> HIDE DEF at, row, k
  <2>4. op[1] = "flat" /\ at = "write" => ~(Gross(row) < PRICE)
    BY <2>3 DEF Refused
  <2>5. at = "write" => Gross(row) \in Int
    <3>1. conn[c].at # "idle"
      BY <1>1
    <3>2. row \in Buckets
      <4>1. /\ conn[c] \in ConnRecord /\ UserOf(op) \in User /\ StageOK(conn[c])
        BY <3>1, InProgress
      <4>2. account[UserOf(op)] \in Buckets \cup {None}
        BY <4>1 DEF IInv, MoneyTyped
      <4>3. account[UserOf(op)] # None \/ conn[c].read # None
        BY <1>1, <4>1 DEF StageOK
      <4>4. conn[c].read \in Buckets \cup {None}
        BY <4>1 DEF ConnRecord
      <4> QED
        BY <4>2, <4>3, <4>4 DEF row
    <3> QED
      BY <3>2, SpendTakes
  <2>6. OthersStand(c) /\ conn'[c] = k
    BY <2>1, OneStands
  <2>7. at = "write" /\ op[1] = "flat" => Gross(row) >= PRICE
    BY <2>4, <2>5
  <2>8. Covered'
    BY <2>2, <2>6, <2>7 DEF WInv, Covered, OthersStand
  <2>9. (Placed /\ CountsWithin)' /\ PlanWithin'
    BY <1>1, <1>3, CallsAlone, PlanStays DEF database
  <2> QED
    BY <2>8, <2>9 DEF WInv
<1> QED
  BY <1>2, <1>3

LEMMA EnsureStands ==
  ASSUME IInv, IInv', WInv, NEW c \in Conn, Ensure(c)
  PROVE  WInv'
<1> DEFINE u == UserOf(conn[c].op)
<1>1. (Placed /\ CountsWithin)'
  BY CallsAlone DEF Ensure
<1>2. u \in User
  <2>1. conn[c].at # "idle"
    BY DEF Ensure
  <2> QED
    BY <2>1, InProgress
<1>3. Seed.plan <= ALLOTMENT
  <2>1. ALLOTMENT \in Nat /\ Seed.plan = 0
    BY DEF Seed
  <2> QED
    BY <2>1
<1>4. account' = account \/ account' = [account EXCEPT ![u] = Seed]
  BY DEF Ensure
<1> HIDE DEF u
<1>5. PlanWithin'
  BY <1>2, <1>3, <1>4, OneRowWithin, PlanStays
<1>6. Covered'
  <2>1. CASE Goto(c, "read")
    BY <2>1, GoesCovered
  <2>2. CASE conn' = [conn EXCEPT ![c].at = "read", ![c].read = Seed]
    <3> DEFINE k == [conn[c] EXCEPT !.at = "read", !.read = Seed]
    <3>1. conn' = [conn EXCEPT ![c] = k] /\ k.at = "read"
      BY <2>2 DEF IInv, ConnTyped, ConnRecord
    <3> HIDE DEF k
    <3> QED
      BY <3>1, OneStands, CoveredStays
  <2> QED
    BY <2>1, <2>2 DEF Ensure
<1> QED
  BY <1>1, <1>5, <1>6 DEF WInv

LEMMA InsertGrantStands ==
  ASSUME IInv, IInv', WInv, NEW c \in Conn, InsertGrant(c)
  PROVE  WInv'
<1> DEFINE k == [conn[c] EXCEPT !.grant = TRUE, !.at = "lock"]
<1>1. UNCHANGED <<account, counters>> /\ conn[c].at # "idle"
  BY DEF InsertGrant
<1>2. \/ \E ok \in BOOLEAN : Return(c, ok)
      \/ conn' = [conn EXCEPT ![c] = k] /\ UNCHANGED call
  BY DEF InsertGrant, IInv, ConnTyped, ConnRecord
<1>3. k.at = "lock"
  BY DEF IInv, ConnTyped, ConnRecord
<1> HIDE DEF k
<1>4. CASE conn' = [conn EXCEPT ![c] = k] /\ UNCHANGED call
  <2>1. Covered'
    BY <1>3, <1>4, OneStands, CoveredStays
  <2> QED
    BY <1>1, <1>4, <2>1, CallsAlone, PlanStays DEF WInv
<1> QED
  BY <1>1, <1>2, <1>4, ReturnStands

\* Statements that read, and the end of a connection.
LEMMA ReadersStand ==
  ASSUME IInv, IInv', WInv, NEW c \in Conn, LockPromo(c) \/ ReadGrant(c) \/ Lookup(c) \/ CutOff(c)
  PROVE  WInv'
<1>1. UNCHANGED <<account, counters>> /\ conn[c].at # "idle"
  BY DEF LockPromo, ReadGrant, Lookup, CutOff, database
<1>2. \/ \E ok \in BOOLEAN : Return(c, ok)
      \/ (Goto(c, "ensure") \/ Goto(c, "insert") \/ Goto(c, "lock")) /\ UNCHANGED call
  BY DEF LockPromo, ReadGrant, Lookup, CutOff
<1>3. ASSUME NEW at \in {"ensure", "insert", "lock"}, Goto(c, at), UNCHANGED call
      PROVE  WInv'
  <2>1. Covered'
    BY <1>3, GoesCovered
  <2> QED
    BY <1>1, <1>3, <2>1, CallsAlone, PlanStays DEF WInv
<1> QED
  BY <1>1, <1>2, <1>3, ReturnStands

\* A transaction begins.
LEMMA BeginsStand ==
  ASSUME IInv, IInv', WInv, NEW c \in Conn, NEW op, NEW hook, Begin(c, op, hook), UNCHANGED Started
  PROVE  WInv'
<1>1. Covered'
  BY BeginsCovered
<1>2. UNCHANGED <<account, call, counters>>
  BY DEF Started, database
<1> QED
  BY <1>1, <1>2, CallsAlone, PlanStays DEF WInv

\* Steps outside of any transaction.
LEMMA ConnAlone ==
  ASSUME WInv, UNCHANGED conn
  PROVE  Covered'
BY DEF WInv, Covered

LEMMA OutsideStand ==
  ASSUME IInv, IInv', WInv, UNCHANGED <<account, conn>>,
         \/ UNCHANGED <<call, counters>>
         \/ \E j \in Job : PublishFrame(j) \/ Retry(j)
         \/ \E k \in Call : MakeCompletion(k)
         \/ \E k \in Call, j \in Job :
              MakeTurn(k, j) \/ MakeSummary(k, j) \/ \E tries \in 1..2 : MakeHarnessCall(k, j, tries)
  PROVE  WInv'
<1>0. CallTyped /\ CountTyped /\ CountTyped'
  BY DEF IInv
<1>1. PlanWithin' /\ Covered'
  BY PlanStays, ConnAlone
<1>2. CASE UNCHANGED <<call, counters>>
  BY <1>1, <1>2, CallsAlone DEF WInv
<1>3. ASSUME NEW j \in Job, PublishFrame(j) \/ Retry(j)
      PROVE  WInv'
  <2>1. UNCHANGED <<call, turns>> /\ (summaries' = summaries \/ summaries' = [summaries EXCEPT ![j] = 0])
    BY <1>3 DEF PublishFrame, Retry
  <2>2. \A i \in Job : turns'[i] <= turns[i] /\ summaries'[i] <= summaries[i]
    BY <1>0, <2>1 DEF CountTyped
  <2> QED
    BY <1>0, <1>1, <2>1, <2>2, CallsStay DEF WInv
<1>4. ASSUME NEW k \in Call, MakeCompletion(k)
      PROVE  WInv'
  BY <1>0, <1>1, <1>4, CompletionPlaced DEF WInv
<1>5. ASSUME NEW k \in Call, NEW j \in Job,
             MakeTurn(k, j) \/ MakeSummary(k, j) \/ \E tries \in 1..2 : MakeHarnessCall(k, j, tries)
      PROVE  WInv'
  BY <1>0, <1>1, <1>5, CallersPlace DEF WInv
<1> QED
  BY <1>2, <1>3, <1>4, <1>5

LEMMA WalletKept == IInv /\ WInv /\ [Next]_vars => WInv'
<1> SUFFICES ASSUME IInv, WInv, [Next]_vars PROVE WInv'
  OBVIOUS
<1>0. IInv'
  BY NextKeeps
<1>1. ASSUME NEW c \in Conn, Statement(c) \/ CutOff(c)
      PROVE  WInv'
  BY <1>0, <1>1, EnsureStands, InsertGrantStands, ReadersStand, LockStands, CommitStands DEF Statement
<1>2. ASSUME NEW c \in Conn,
             \/ \E u \in User : EnsureAccount(c, u) \/ Redeem(c, u)
             \/ \E j \in Job : Reserve(c, j)
             \/ \E k \in Call : Meter(c, k)
             \/ \E f \in Fee : Charge(c, f)
             \/ \E o \in Order : Verify(c, o)
             \/ \E i \in Order \cup Cycle : Deliver(c, i)
      PROVE  WInv'
  <2>1. UNCHANGED Started /\ \E op : \E hook : Begin(c, op, hook)
    BY <1>2 DEF EnsureAccount, Redeem, Reserve, Meter, Charge, Verify, Deliver
  <2> QED
    BY <1>0, <2>1, BeginsStand
<1>3. ASSUME (\E j \in Job : Settle(j)) \/ (\E i \in Order \cup Cycle : Pay(i) \/ Discard(i)) \/ UNCHANGED vars
      PROVE  WInv'
  <2>1. UNCHANGED <<account, conn, call, counters>>
    BY <1>3 DEF Settle, Pay, Discard, vars, database
  <2> QED
    BY <1>0, <2>1, OutsideStand
<1>4. ASSUME \/ \E j \in Job : PublishFrame(j) \/ Retry(j)
             \/ \E k \in Call : MakeCompletion(k)
             \/ \E k \in Call, j \in Job :
                  MakeTurn(k, j) \/ MakeSummary(k, j) \/ \E tries \in 1..2 : MakeHarnessCall(k, j, tries)
      PROVE  WInv'
  <2>1. UNCHANGED <<account, conn>>
    BY <1>4 DEF PublishFrame, Retry, MakeCompletion, MakeTurn, MakeSummary, MakeHarnessCall, Made, database
  <2> QED
    BY <1>0, <1>4, <2>1, OutsideStand
<1> QED
  BY <1>1, <1>2, <1>3, <1>4 DEF Next

-----------------------------------------------------------------------------
(* The steps, as the wallet sees them. *)

WorthOf(rows) == [u \in User |-> IF rows[u] = None THEN 0 ELSE Gross(rows[u])]
Balance == WorthOf(account)
Applied == keys \cap AnyKey
KeyOwner == [k \in AnyKey |-> IF k[1] = "promo" THEN k[2] ELSE Owner[k[2]]]

\* The signup grant is not one of the wallet's keys.
LEMMA GrantIsNoKey ==
  ASSUME NEW u
  PROVE  GrantKey(u) \notin AnyKey
<1>1. \A k \in AnyKey : k[1] # "ensure"
  BY DEF AnyKey
<1> QED
  BY <1>1 DEF GrantKey

\* What a transaction applies is a key of the wallet, of the account it moves.
LEMMA KeyIsKept ==
  ASSUME IInv, WInv, NEW op \in Op, op[1] \notin {"reserve", "ensure"}
  PROVE  /\ Key(op) \in AnyKey /\ KeyOwner[Key(op)] = UserOf(op)
         /\ Key(op)[1] = op[1] \/ (op[1] = "meter" /\ Key(op)[1] = "debit")
<1>1. /\ op = <<op[1], op[2]>> /\ op[1] \in {"meter", "bonus", "plan", "flat", "promo"}
      /\ op[1] = "meter" => op[2] \in Call
      /\ op[1] = "bonus" => op[2] \in Order
      /\ op[1] = "plan" => op[2] \in Cycle
      /\ op[1] = "flat" => op[2] \in Fee
      /\ op[1] = "promo" => op[2] \in User
  BY OpShape
<1>2. CASE op[1] = "meter" /\ call[op[2]].job # None
  <2> DEFINE j == call[op[2]].job
             n == call[op[2]].n
             low == -(MaxIndex + Cardinality(Call))
             high == Cardinality(Call)
  <2>1. j \in Job /\ Owner[op[2]] = Owner[j] /\ n \in low .. high
    BY <1>1, <1>2 DEF IInv, CallTyped, WInv, Placed
  <2>2. Key(op) = <<"debit", j, n>>
    BY <1>2 DEF Key
  <2>3. UserOf(op) = Owner[op[2]]
    BY <1>2 DEF UserOf
  <2>4. AnyKey = ({"debit"} \X Job \X (low .. high))
          \cup ({"meter"} \X Call) \cup ({"bonus"} \X Order) \cup ({"plan"} \X Cycle)
          \cup ({"flat"} \X Fee) \cup ({"promo"} \X User)
    BY DEF AnyKey
  <2> HIDE DEF j, n, low, high
  <2>5. <<"debit", j, n>> \in AnyKey
    BY <2>1, <2>4
  <2>6. KeyOwner[<<"debit", j, n>>] = Owner[j]
    BY <2>5 DEF KeyOwner
  <2> QED
    BY <1>2, <2>1, <2>2, <2>3, <2>5, <2>6
<1>3. CASE ~(op[1] = "meter" /\ call[op[2]].job # None)
  <2>1. Key(op) = op
    BY <1>3 DEF Key
  <2>2. op \in AnyKey
    BY <1>1 DEF AnyKey
  <2>3. KeyOwner[op] = UserOf(op)
    BY <1>1, <2>2 DEF KeyOwner, UserOf
  <2> QED
    BY <2>1, <2>2, <2>3
<1> QED
  BY <1>2, <1>3

\* The operation's new row is one of the changes its key allows.
LEMMA AfterIsChange ==
  ASSUME NEW op, NEW a \in Buckets, a.plan <= ALLOTMENT, NEW kind,
         op[1] \in {"meter", "bonus", "plan", "flat", "promo"},
         kind = op[1] \/ (op[1] = "meter" /\ kind = "debit"),
         op[1] = "flat" => Gross(a) >= PRICE
  PROVE  Gross(After(op, a)) \in W!Change(kind, Gross(a))
<1>0. /\ {COST, PRICE, PACK, PROMO, ALLOTMENT} \subseteq Nat
      /\ Gross(a) \in Nat /\ Gross(After(op, a)) = Gross(a) + Amount(op, a)
  BY SpendTakes, AmountIsChange
<1>1. CASE op[1] = "meter"
  <2>1. Amount(op, a) = -Least(COST, Gross(a)) /\ kind \in {"debit", "meter"}
    BY <1>1 DEF Amount
  <2>2. Gross(a) + (-Least(COST, Gross(a))) = IF Gross(a) < COST THEN 0 ELSE Gross(a) - COST
    BY <1>0 DEF Least
  <2> QED
    BY <1>0, <2>1, <2>2 DEF W!Change
<1>2. CASE op[1] = "flat"
  <2>1. Amount(op, a) = -Least(PRICE, Gross(a)) /\ kind = "flat" /\ Gross(a) >= PRICE
    BY <1>2 DEF Amount
  <2>2. Gross(a) + (-Least(PRICE, Gross(a))) = Gross(a) - PRICE /\ Gross(a) - PRICE >= 0
    BY <1>0, <2>1 DEF Least
  <2> QED
    BY <1>0, <2>1, <2>2 DEF W!Change
<1>3. CASE op[1] = "bonus"
  BY <1>0, <1>3 DEF Amount, W!Change
<1>4. CASE op[1] = "promo"
  BY <1>0, <1>4 DEF Amount, W!Change
<1>5. CASE op[1] = "plan"
  <2>1. Amount(op, a) = ALLOTMENT - a.plan /\ kind = "plan"
    BY <1>5 DEF Amount
  <2>2. a.plan \in Nat
    BY DEF Buckets
  <2>3. Gross(a) + (ALLOTMENT - a.plan) \in Gross(a) .. Gross(a) + ALLOTMENT
    BY <1>0, <2>2
  <2> QED
    BY <1>0, <2>1, <2>3 DEF W!Change
<1> QED
  BY <1>1, <1>2, <1>3, <1>4, <1>5

\* Nothing of it shows.
LEMMA Unseen ==
  ASSUME UNCHANGED account, Applied' = Applied
  PROVE  UNCHANGED <<Opened, Balance, Applied>>
BY DEF Opened, Balance

\* One row moves one balance.
LEMMA WorthMoves ==
  ASSUME NEW rows \in [User -> Buckets \cup {None}], NEW u \in User, NEW a \in Buckets
  PROVE  WorthOf([rows EXCEPT ![u] = a]) = [WorthOf(rows) EXCEPT ![u] = Gross(a)]
BY SeedType DEF WorthOf

LEMMA BalanceMoves ==
  ASSUME IInv, NEW u \in User, NEW a \in Buckets, account' = [account EXCEPT ![u] = a]
  PROVE  Balance' = [Balance EXCEPT ![u] = Gross(a)]
<1> DEFINE now == [account EXCEPT ![u] = a]
<1>1. WorthOf(now) = [WorthOf(account) EXCEPT ![u] = Gross(a)]
  BY WorthMoves DEF IInv, MoneyTyped
<1>2. account' = now
  OBVIOUS
<1> HIDE DEF now
<1>3. WorthOf(account)' = WorthOf(now)
  BY <1>2 DEF WorthOf
<1> QED
  BY <1>1, <1>3 DEF Balance

\* An account is opened with the grant.
LEMMA Opens ==
  ASSUME IInv, NEW u \in User, account[u] = None, account' = [account EXCEPT ![u] = Seed],
         Applied' = Applied
  PROVE  W!Open(u)
<1>1. account'[u] = Seed /\ \A v \in User \ {u} : account'[v] = account[v]
  BY DEF IInv, MoneyTyped
<1>2. u \notin Opened /\ Opened' = Opened \cup {u}
  BY <1>1, SeedType DEF Opened
<1>3. Balance' = [Balance EXCEPT ![u] = GRANT]
  BY SeedType, BalanceMoves
<1> QED
  BY <1>2, <1>3 DEF W!Open, Balance, WorthOf, Applied

\* A key is applied, to the row its account has by then.
LEMMA Applies ==
  ASSUME IInv, NEW k \in AnyKey, k \notin keys, NEW u \in User, u = KeyOwner[k], NEW a \in Buckets,
         account' = [account EXCEPT ![u] = a], Applied' = Applied \cup {k},
         Gross(a) \in W!Change(k[1], Gross(RowOf(u)))
  PROVE  W!Apply(k)
<1>1. account'[u] = a /\ \A v \in User \ {u} : account'[v] = account[v]
  BY DEF IInv, MoneyTyped
<1>2. a # None
  BY SeedType
<1>3. Opened' = Opened \cup {u}
  BY <1>1, <1>2 DEF Opened
<1>4. Balance' = [Balance EXCEPT ![u] = Gross(a)]
  BY BalanceMoves
<1>5. W!Before(u) = Gross(RowOf(u))
  BY SeedType DEF W!Before, Opened, RowOf
<1>6. k \notin Applied
  BY DEF Applied
<1> DEFINE now == Gross(RowOf(u))
           next == Gross(a)
<1>7. next \in W!Change(k[1], now) /\ W!Before(u) = now /\ Balance' = [Balance EXCEPT ![u] = next]
  BY <1>4, <1>5
<1> HIDE DEF now, next
<1> QED
  BY <1>3, <1>6, <1>7 DEF W!Apply, Balance, WorthOf, Applied, KeyOwner

\* A commit is a repetition, which at most opens the account, or applies its key.
LEMMA CommitApplies ==
  ASSUME IInv, WInv, NEW c \in Conn, conn[c].at \in {"write", "repeat"}, Write(c),
         conn[c].at = "write" => ~Taken(conn[c].op)
  PROVE  [W!Next]_<<Opened, Balance, Applied>>
<1> DEFINE op  == conn[c].op
           u   == AccountOf(c)
           own == IF conn[c].at = "write" THEN op ELSE <<"none">>
           silent == own[1] \in {"none", "reserve"}
           a   == After(own, RowOf(u))
           granted == IF conn[c].grant THEN {GrantKey(u)} ELSE {}
<1>1. /\ op \in Op /\ op[1] # "ensure" /\ u \in User /\ u = UserOf(op)
      /\ conn[c].read = RowOf(u)
      /\ account' = IF silent /\ account[u] # None THEN account
                    ELSE [account EXCEPT ![u] = a]
      /\ keys' = keys \cup granted \cup (IF silent THEN {} ELSE {Key(own)})
  BY WriteRow
<1>2. granted \cap AnyKey = {}
  BY GrantIsNoKey
<1>3. RowOf(u) \in Buckets /\ RowOf(u).plan <= ALLOTMENT
  BY <1>1, RowWithin
<1>4. a \in Buckets /\ (silent => a = RowOf(u))
  BY <1>3, AmountIsChange
<1>5. ~silent => /\ own = op /\ conn[c].at = "write"
                 /\ op[1] \in {"meter", "bonus", "plan", "flat", "promo"}
  BY <1>1, OpShape
<1> HIDE DEF op, u, own, silent, a, granted
<1>6. CASE silent
  <2>1. Applied' = Applied
    BY <1>1, <1>2, <1>6 DEF Applied
  <2>2. CASE account[u] # None
    BY <1>1, <1>6, <2>1, <2>2, Unseen
  <2>3. CASE account[u] = None
    <3>1. a = Seed
      BY <1>4, <1>6, <2>3 DEF RowOf
    <3>2. account' = [account EXCEPT ![u] = Seed]
      BY <1>1, <2>3, <3>1
    <3>3. PICK v \in User : v = u
      BY <1>1
    <3>4. W!Open(v)
      BY <2>1, <2>3, <3>2, <3>3, Opens
    <3> QED
      BY <3>4 DEF W!Next
  <2> QED
    BY <2>2, <2>3
<1>7. CASE ~silent
  <2> DEFINE k == Key(op)
  <2>1. /\ k \in AnyKey /\ KeyOwner[k] = u
        /\ k[1] = op[1] \/ (op[1] = "meter" /\ k[1] = "debit")
    BY <1>1, <1>5, <1>7, KeyIsKept
  <2>2. k \notin keys
    BY <1>5, <1>7 DEF Taken, op
  <2>3. Applied' = Applied \cup {k}
    BY <1>1, <1>2, <1>5, <1>7, <2>1 DEF Applied
  <2>4. account' = [account EXCEPT ![u] = a] /\ a = After(op, RowOf(u))
    BY <1>1, <1>5, <1>7 DEF a
  <2>5. op[1] = "flat" => Gross(RowOf(u)) >= PRICE
    BY <1>1, <1>5, <1>7 DEF WInv, Covered, op
  <2> HIDE DEF k
  <2>6. Gross(a) \in W!Change(k[1], Gross(RowOf(u)))
    BY <1>3, <1>5, <1>7, <2>1, <2>4, <2>5, AfterIsChange
  <2>7. PICK v \in User, l \in AnyKey, b \in Buckets : v = u /\ l = k /\ b = a
    BY <1>1, <1>4, <2>1
  <2>8. W!Apply(l)
    BY <2>1, <2>2, <2>3, <2>4, <2>6, <2>7, Applies
  <2> QED
    BY <2>8 DEF W!Next
<1> QED
  BY <1>6, <1>7

\* Every step is one of the wallet's, or does not show.
LEMMA StepMaps ==
  ASSUME IInv, WInv, [Next]_vars
  PROVE  [W!Next]_<<Opened, Balance, Applied>>
<1>1. ASSUME UNCHANGED <<account, keys>>
      PROVE  UNCHANGED <<Opened, Balance, Applied>>
  BY <1>1, Unseen DEF Applied
<1>2. ASSUME NEW c \in Conn, Commit(c)
      PROVE  [W!Next]_<<Opened, Balance, Applied>>
  <2>1. \/ UNCHANGED database
        \/ Write(c) /\ conn[c].at \in {"write", "repeat"} /\ (conn[c].at = "write" => ~Taken(conn[c].op))
    BY <1>2 DEF Commit
  <2> QED
    BY <1>1, <2>1, CommitApplies DEF database
<1>3. ASSUME NEW c \in Conn, Ensure(c)
      PROVE  [W!Next]_<<Opened, Balance, Applied>>
  <2> DEFINE u == UserOf(conn[c].op)
  <2>1. conn[c].at # "idle" /\ UNCHANGED keys
    BY <1>3 DEF Ensure
  <2>2. u \in User
    BY <2>1, InProgress
  <2>3. account' = account \/ (account[u] = None /\ account' = [account EXCEPT ![u] = Seed])
    BY <1>3 DEF Ensure
  <2> HIDE DEF u
  <2>4. Applied' = Applied
    BY <2>1 DEF Applied
  <2>5. CASE account' = account
    BY <1>1, <2>1, <2>5
  <2>6. CASE account[u] = None /\ account' = [account EXCEPT ![u] = Seed]
    <3>1. PICK v \in User : v = u
      BY <2>2
    <3>2. W!Open(v)
      BY <2>4, <2>6, <3>1, Opens
    <3> QED
      BY <3>2 DEF W!Next
  <2> QED
    BY <2>3, <2>5, <2>6
<1>4. ASSUME NEW c \in Conn, InsertGrant(c)
      PROVE  UNCHANGED <<Opened, Balance, Applied>>
  <2>1. UNCHANGED account /\ \E S \in {{}, {GrantKey(UserOf(conn[c].op))}} : keys' = keys \cup S
    BY <1>4 DEF InsertGrant
  <2>2. Applied' = Applied
    BY <2>1, GrantIsNoKey DEF Applied
  <2> QED
    BY <2>1, <2>2, Unseen
<1>5. ASSUME NEW c \in Conn, LockPromo(c) \/ ReadGrant(c) \/ Lookup(c) \/ Lock(c) \/ CutOff(c)
      PROVE  UNCHANGED <<account, keys>>
  BY <1>5 DEF LockPromo, ReadGrant, Lookup, Lock, CutOff, database
<1>6. ASSUME NEW c \in Conn,
             \/ \E u \in User : EnsureAccount(c, u) \/ Redeem(c, u)
             \/ \E j \in Job : Reserve(c, j)
             \/ \E k \in Call : Meter(c, k)
             \/ \E f \in Fee : Charge(c, f)
             \/ \E o \in Order : Verify(c, o)
             \/ \E i \in Order \cup Cycle : Deliver(c, i)
      PROVE  UNCHANGED <<account, keys>>
  BY <1>6 DEF EnsureAccount, Redeem, Reserve, Meter, Charge, Verify, Deliver, Started, database
<1>7. ASSUME \/ \E j \in Job : Settle(j) \/ PublishFrame(j) \/ Retry(j)
             \/ \E k \in Call, j \in Job :
                  MakeTurn(k, j) \/ MakeSummary(k, j) \/ \E tries \in 1..2 : MakeHarnessCall(k, j, tries)
             \/ \E k \in Call : MakeCompletion(k)
             \/ \E i \in Order \cup Cycle : Pay(i) \/ Discard(i)
             \/ UNCHANGED vars
      PROVE  UNCHANGED <<account, keys>>
  BY <1>7 DEF Settle, PublishFrame, Retry, MakeTurn, MakeSummary, MakeHarnessCall, Made, MakeCompletion,
              Pay, Discard, vars, database
<1> QED
  BY <1>1, <1>2, <1>3, <1>4, <1>5, <1>6, <1>7 DEF Next, Statement

\* Seen from outside, the account is a wallet: its balance moves in single steps, each
\* under a key of its own and by the amount that key stands for, whatever
\* interleaves, is repeated or is cut off.
THEOREM AccountImplementsWallet == Spec => WalletImplemented
<1>1. Init => W!Init
  BY DEF Init, W!Init, Opened
<1>2. IInv /\ WInv /\ [Next]_vars => [W!Next]_<<Opened, Balance, Applied>>
  BY StepMaps
<1> QED
  BY <1>1, <1>2, WalletInit, WalletKept, Invariance, PTL
     DEF Spec, WalletImplemented, W!Spec, Balance, WorthOf, Applied
=============================================================================
