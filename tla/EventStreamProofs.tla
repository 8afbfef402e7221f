-------------------------- MODULE EventStreamProofs --------------------------
(***************************************************************************)
(* Theorems about EventStream, for every set of jobs, every size of the    *)
(* ring, every bound on frames, and any mishaps a behaviour may meet.      *)
(***************************************************************************)
EXTENDS EventStream, SequenceTheorems, TLAPS

-----------------------------------------------------------------------------
(* The inductive invariant. *)

\* The books of the bus: the ring is in order, holds what was emitted and, from its
\* oldest frame on, all of it.
Books(j) ==
  /\ \A a, b \in DOMAIN ring[j] : a < b => ring[j][a].index < ring[j][b].index
  /\ \A a \in DOMAIN ring[j] : /\ ring[j][a].index \in emitted[j]
                               /\ ring[j][a].type # "resync"
  /\ \A i \in emitted[j] :
       /\ i < next[j] /\ ring[j] # <<>>
       /\ i >= ring[j][1].index => \E a \in DOMAIN ring[j] : ring[j][a].index = i

\* A job left over from a former process: it can still get one frame, its last.
LeftOver(j) ==
  /\ j \notin running /\ row[j] # "none"
  /\ next[j] <= (IF j \in owed \/ row[j] = "active" THEN 0 ELSE 1)

\* Only a job that is over is owed its terminal frame.
OwedEnded == \A j \in owed : row[j] \in Ended

\* The watermark: below one of this process nothing is unseen, and one of a former
\* process belongs to a job left over.
Cursor(j) ==
  /\ seen[j] \subseteq emitted[j]
  /\ wm[j] \in seen[j] => \A i \in emitted[j] : i <= wm[j] => i \in seen[j]
  /\ wm[j] \notin seen[j] \cup {-1} => LeftOver(j)

\* A job that does not exist is nowhere.
Unborn(j) ==
  row[j] = "none" =>
    /\ wm[j] = -1 /\ next[j] = 0
    /\ j \notin running \cup owed \cup persisted
    /\ cur # j /\ posted # j
    /\ \A g \in gets : g.active # j

\* Requests have read a head that this process emitted.
Heads ==
  \A g \in gets : \/ g.head = -1
                  \/ "active" \in g.read /\ g.active \in Job /\ g.head \in emitted[g.active]

\* The page and its stream agree.
Page ==
  /\ conn # "off" => cur \in Job
  /\ chan # <<>> => conn = "open"
  /\ \A g \in gets : g.kind = "resync" => conn = "resync"
  /\ \A g, h \in gets : g.kind = "resync" /\ h.kind = "resync" => g = h
  /\ conn = "ask" => from = wm[cur]

\* What an open stream carries: a resync marker first, or frames in order which,
\* together with those seen, are all there are.
MarkerFirst == chan # <<>> /\ chan[1].type = "resync"
InOrder ==
  /\ \A a, b \in DOMAIN chan : a < b => chan[a].index < chan[b].index
  /\ \A a \in DOMAIN chan : chan[a].index \in emitted[cur] /\ chan[a].type # "resync"
Complete == wm[cur] \in seen[cur] \cup {-1} => emitted[cur] \subseteq seen[cur] \cup Underway
Carried == conn = "open" => MarkerFirst \/ (InOrder /\ Complete)

IInv ==
  /\ TypeOK
  /\ \A j \in Job : Books(j) /\ Cursor(j) /\ Unborn(j)
  /\ OwedEnded /\ Heads /\ Page /\ Carried

USE StreamAssumption

-----------------------------------------------------------------------------
(* Sequences. *)

\* What a suffix of a sequence is.
LEMMA Suffix ==
  ASSUME NEW S, NEW q \in Seq(S), NEW k \in 0 .. Len(q), NEW r, r = SubSeq(q, k + 1, Len(q))
  PROVE  /\ r \in Seq(S) /\ Len(r) = Len(q) - k /\ DOMAIN r = 1 .. Len(q) - k
         /\ \A i \in 1 .. Len(q) - k : r[i] = q[k + i]
<1>1. Len(q) \in Nat /\ k \in Int /\ k + 1 \in Int /\ Len(q) \in Int
  BY LenProperties
<1>2. \A i \in k + 1 .. Len(q) : q[i] \in S
  BY <1>1, LenProperties
<1>3. /\ SubSeq(q, k + 1, Len(q)) \in Seq(S)
      /\ Len(SubSeq(q, k + 1, Len(q)))
           = IF k + 1 <= Len(q) THEN Len(q) - (k + 1) + 1 ELSE 0
      /\ \A i \in 1 .. Len(q) - (k + 1) + 1 : SubSeq(q, k + 1, Len(q))[i] = q[k + 1 + i - 1]
  BY <1>1, <1>2, SubSeqProperties
<1>4. r \in Seq(S) /\ Len(r) = Len(q) - k
  BY <1>1, <1>3
<1>5. DOMAIN r = 1 .. Len(q) - k
  BY <1>4, LenProperties
<1>6. ASSUME NEW i \in 1 .. Len(q) - k PROVE r[i] = q[k + i]
  <2>1. i \in 1 .. Len(q) - (k + 1) + 1 /\ k + 1 + i - 1 = k + i
    BY <1>1
  <2> QED
    BY <2>1, <1>3
<1> QED
  BY <1>4, <1>5, <1>6

\* The ring after one more frame.
Pushed(q, x) == Capped(Append(q, x))

\* r holds what q held, after the d oldest, and one more.
Moved(q, r, d) == Len(r) = Len(q) + 1 - d /\ \A a \in 1 .. Len(r) - 1 : r[a] = q[a + d]

\* What a ring is after one more frame: that frame is its last, and the others
\* moved up by one place if the ring was full.
LEMMA CappedIs ==
  ASSUME NEW q \in Seq(Frame), NEW x \in Frame, NEW r,
         Len(q) \in 0 .. RingMax, r = Pushed(q, x)
  PROVE  /\ r \in Seq(Frame) /\ Len(r) \in 1 .. RingMax /\ DOMAIN r = 1 .. Len(r)
         /\ r[Len(r)] = x
         /\ \E d \in 0 .. 1 : Moved(q, r, d)
<1> DEFINE p == Append(q, x)
<1>1. /\ Len(q) \in Nat /\ p \in Seq(Frame) /\ Len(p) = Len(q) + 1 /\ p[Len(q) + 1] = x
      /\ \A a \in 1 .. Len(q) : p[a] = q[a]
  BY LenProperties, AppendProperties
<1>2. CASE Len(q) + 1 > RingMax
  <2>1. Len(q) = RingMax /\ r = SubSeq(p, 1 + 1, Len(p)) /\ 1 \in 0 .. Len(p)
    <3>1. RingMax \in Nat /\ Len(q) = RingMax
      BY <1>1, <1>2
    <3>2. Len(p) > RingMax /\ Len(p) - RingMax + 1 = 1 + 1 /\ 1 \in 0 .. Len(p)
      BY <1>1, <3>1
    <3> QED
      BY <3>1, <3>2 DEF Capped, Pushed
  <2>2. /\ r \in Seq(Frame) /\ Len(r) = Len(p) - 1
        /\ \A i \in 1 .. Len(p) - 1 : r[i] = p[1 + i]
    BY <1>1, <2>1, Suffix
  <2>3. Len(r) = Len(q) /\ r[Len(r)] = x /\ \A a \in 1 .. Len(r) - 1 : r[a] = q[a + 1]
    BY <1>1, <2>1, <2>2
  <2> QED
    BY <1>1, <2>1, <2>2, <2>3, LenProperties DEF Moved
<1>3. CASE Len(q) + 1 <= RingMax
  <2>1. r = p
    BY <1>1, <1>3 DEF Capped, Pushed
  <2>2. \A a \in 1 .. Len(r) - 1 : r[a] = q[a + 0]
    BY <1>1, <2>1
  <2> QED
    BY <1>1, <1>3, <2>1, <2>2, LenProperties DEF Moved
<1> QED
  BY <1>1, <1>2, <1>3

-----------------------------------------------------------------------------
(* The bus. *)

BusOK ==
  /\ ring \in [Job -> Seq(Frame)] /\ \A j \in Job : Len(ring[j]) <= RingMax
  /\ next \in [Job -> Index]
  /\ emitted \in [Job -> SUBSET Index]
  /\ \A j \in Job : Books(j)

\* publish keeps the books of the ring.
LEMMA PublishKeepsBus ==
  ASSUME BusOK, NEW j \in Job, NEW type \in {"data"} \cup Ended,
         Publish(j, type)
  PROVE  BusOK'
<1> DEFINE f == [index |-> next[j], type |-> type]
           q == ring[j]
           r == ring'[j]
<1>1. /\ next[j] \in Index /\ next[j] + 1 \in Index /\ f \in Frame
      /\ f.index = next[j] /\ f.type # "resync"
      /\ next' = [next EXCEPT ![j] = @ + 1]
      /\ emitted' = [emitted EXCEPT ![j] = @ \cup {next[j]}]
      /\ r = Capped(Append(q, f))
      /\ \A k \in Job : k # j => ring'[k] = ring[k]
  BY DEF Publish, BusOK, Index, Frame, FrameType, Ended
<1>q. q = ring[j] /\ r = ring'[j]
  OBVIOUS
<1> HIDE DEF f, q, r
<1>2. /\ r \in Seq(Frame) /\ Len(r) \in 1 .. RingMax /\ DOMAIN r = 1 .. Len(r) /\ r[Len(r)] = f
      /\ \E d \in 0 .. 1 : Moved(q, r, d)
  <2>1. q \in Seq(Frame) /\ Len(q) \in 0 .. RingMax
    BY <1>q, LenProperties DEF BusOK
  <2>2. f \in Frame /\ r = Pushed(q, f)
    BY <1>1, <1>q DEF Pushed
  <2> QED
    BY <2>1, <2>2, CappedIs
<1>3. PICK d \in 0 .. 1 : Len(r) = Len(q) + 1 - d /\ \A a \in 1 .. Len(r) - 1 : r[a] = q[a + d]
  BY <1>2 DEF Moved
<1>4. /\ Len(q) \in Nat /\ DOMAIN q = 1 .. Len(q) /\ Books(j)
      /\ \A a \in 1 .. Len(q) : q[a] \in Frame
  BY <1>q, LenProperties DEF BusOK
<1>5. \A i \in emitted[j] : i \in Int /\ i < next[j]
  BY <1>q, <1>4 DEF Books, BusOK, Index
<1>6. Books(j)'
  <2>1. \A a, b \in DOMAIN r : a < b => r[a].index < r[b].index
    <3> SUFFICES ASSUME NEW a \in 1 .. Len(r), NEW b \in 1 .. Len(r), a < b
                 PROVE  r[a].index < r[b].index
      BY <1>2
    <3>1. r[a] = q[a + d] /\ a + d \in DOMAIN q
      BY <1>2, <1>3, <1>4
    <3>2. CASE b = Len(r)
      <4>1. q[a + d].index < next[j] /\ r[b].index = next[j]
        BY <1>q, <3>1, <3>2, <1>1, <1>2, <1>4, <1>5 DEF Books
      <4> QED
        BY <3>1, <4>1
    <3>3. CASE b # Len(r)
      <4>1. r[b] = q[b + d] /\ b + d \in DOMAIN q /\ a + d < b + d
        <5>0. Len(r) \in Int
          BY <1>2
        <5>1. b \in 1 .. Len(r) - 1 /\ a \in Int /\ b \in Int /\ d \in Int
          BY <3>3, <5>0
        <5>2. r[b] = q[b + d]
          BY <5>1, <1>3
        <5>3. b + d \in 1 .. Len(q)
          BY <5>1, <1>3, <1>4
        <5> QED
          BY <5>1, <5>2, <5>3, <1>4
      <4> QED
        BY <1>q, <3>1, <4>1, <1>4 DEF Books
    <3> QED
      BY <3>2, <3>3
  <2>2. \A a \in DOMAIN r : r[a].index \in emitted'[j] /\ r[a].type # "resync"
    <3> SUFFICES ASSUME NEW a \in 1 .. Len(r)
                 PROVE  r[a].index \in emitted'[j] /\ r[a].type # "resync"
      BY <1>2
    <3>1. CASE a = Len(r)
      BY <1>q, <3>1, <1>1, <1>2 DEF BusOK
    <3>2. CASE a # Len(r)
      <4>1. r[a] = q[a + d] /\ a + d \in DOMAIN q
        BY <3>2, <1>2, <1>3, <1>4
      <4> QED
        BY <1>q, <4>1, <1>1, <1>4 DEF Books, BusOK
    <3> QED
      BY <3>1, <3>2
  <2>3. ASSUME NEW i \in emitted'[j]
        PROVE  /\ i < next'[j] /\ r # <<>>
               /\ i >= r[1].index => \E a \in DOMAIN r : r[a].index = i
    <3>1. i < next'[j]
      BY <1>q, <1>1, <1>5 DEF BusOK, Index
    <3>2. r # <<>>
      BY <1>2
    <3>3. CASE i = next[j]
      <4>1. Len(r) \in DOMAIN r /\ r[Len(r)].index = i
        BY <3>3, <1>1, <1>2
      <4> QED
        BY <3>1, <3>2, <4>1
    <3>4. ASSUME i # next[j], i >= r[1].index PROVE \E a \in DOMAIN r : r[a].index = i
      <4>1. i \in emitted[j] /\ i \in Int /\ i < next[j] /\ q # <<>>
        BY <1>q, <3>4, <1>1, <1>4, <1>5 DEF Books, BusOK
      <4>2. Len(r) > 1
        BY <4>1, <3>4, <1>1, <1>2 DEF Index
      <4>3. r[1] = q[1 + d] /\ 1 + d \in DOMAIN q /\ 1 \in DOMAIN q
        BY <4>2, <1>3, <1>4
      <4>4. q[1 + d].index >= q[1].index
        BY <1>q, <4>3, <1>4 DEF Books, Frame, Index
      <4>5. i >= q[1].index
        BY <4>1, <4>3, <4>4, <3>4, <1>4 DEF Frame, Index
      <4>6. PICK a \in DOMAIN q : q[a].index = i
        BY <1>q, <4>1, <4>5, <1>4 DEF Books
      <4>7. a >= 1 + d
        <5> SUFFICES ASSUME a < 1 + d PROVE FALSE
          BY <4>6, <1>4
        <5>1. q[a].index < q[1 + d].index
          BY <1>q, <4>3, <1>4 DEF Books
        <5> QED
          BY <5>1, <4>1, <4>3, <4>6, <3>4, <1>4 DEF Frame, Index
      <4>8. a - d \in 1 .. Len(r) - 1 /\ (a - d) + d = a
        BY <4>6, <4>7, <1>3, <1>4
      <4>9. r[a - d] = q[a] /\ a - d \in DOMAIN r
        <5>1. r[a - d] = q[(a - d) + d]
          BY <4>8, <1>3
        <5>2. a - d \in 1 .. Len(r)
          BY <4>8, <1>2
        <5> QED
          BY <4>8, <5>1, <5>2, <1>2
      <4> QED
        BY <4>6, <4>9
    <3> QED
      BY <3>1, <3>2, <3>3, <3>4
  <2> QED
    BY <1>q, <2>1, <2>2, <2>3 DEF Books
<1>7. /\ ring' \in [Job -> Seq(Frame)] /\ next' \in [Job -> Index]
      /\ emitted' \in [Job -> SUBSET Index]
  <2>1. ring' = [ring EXCEPT ![j] = r] /\ ring' \in [Job -> Seq(Frame)]
    BY <1>q, <1>2 DEF Publish, BusOK
  <2> QED
    BY <1>q, <1>1, <2>1 DEF BusOK
<1>8. ASSUME NEW k \in Job, k # j PROVE Books(k)' /\ Len(ring'[k]) <= RingMax
  BY <1>q, <1>1, <1>8 DEF BusOK, Books
<1>9. ASSUME NEW k \in Job PROVE Books(k)' /\ Len(ring'[k]) <= RingMax
  <2>1. Len(r) <= RingMax
    BY <1>2
  <2> QED
    BY <1>q, <2>1, <1>6, <1>8 DEF Books
<1> QED
  BY <1>q, <1>7, <1>9 DEF BusOK

-----------------------------------------------------------------------------
(* Types. *)

\* A request that is sent is a request, and nothing has been read for it.
LEMMA NewGetType ==
  ASSUME NEW kind \in GetKind
  PROVE  /\ NewGet(kind) \in Get /\ NewGet(kind).kind = kind
         /\ NewGet(kind).head = -1 /\ NewGet(kind).active = NoJob
         /\ NewGet(kind).read = {} /\ NewGet(kind).messages = {}
BY DEF NewGet, Get, Status

\* The active job is one, if there is one.
LEMMA ActiveJobIs ==
  ASSUME TypeOK
  PROVE  /\ ActiveJob \in Job \cup {NoJob}
         /\ ActiveJob # NoJob => row[ActiveJob] = "active"
<1>1. CASE Active = {}
  BY <1>1 DEF ActiveJob
<1>2. CASE Active # {}
  <2>1. ActiveJob \in Active
    BY <1>2 DEF ActiveJob
  <2> QED
    BY <2>1 DEF Active
<1> QED
  BY <1>1, <1>2

\* The head of a ring was emitted.
LEMMA HeadIndexIs ==
  ASSUME TypeOK, NEW j \in Job, Books(j)
  PROVE  HeadIndex(j) \in emitted[j] \cup {-1} /\ HeadIndex(j) \in Index \cup {-1}
<1>1. CASE ring[j] = <<>>
  BY <1>1 DEF HeadIndex
<1>2. CASE ring[j] # <<>>
  <2>1. ring[j] \in Seq(Frame)
    BY DEF TypeOK
  <2>2. Len(ring[j]) \in DOMAIN ring[j]
    BY <1>2, <2>1, EmptySeq, LenProperties
  <2> QED
    BY <1>2, <2>2 DEF HeadIndex, Books, TypeOK
<1> QED
  BY <1>1, <1>2

\* What following a job leaves behind.
LEMMA FollowTypes ==
  ASSUME TypeOK, NEW a \in Job \cup {NoJob}, NEW s \in Status, NEW others \in SUBSET Get,
         NEW w \in [Job -> Index \cup {-1}], Follow(a, s, others, w)
  PROVE  /\ cur' \in Job \cup {NoJob} /\ status' \in Status /\ gets' \subseteq Get
         /\ conn' \in Conn /\ from' \in Index \cup {-1} /\ chan' \in Seq(Frame)
<1>1. NewGet("final") \in Get
  BY NewGetType DEF GetKind
<1>2. <<>> \in Seq(Frame)
  BY EmptySeq
<1>3. gets' \subseteq Get
  BY <1>1 DEF Follow, Surviving
<1>4. conn' \in Conn /\ chan' \in Seq(Frame)
  BY <1>2 DEF Follow, Redirect, TypeOK, Conn, stream
<1>5. from' \in Index \cup {-1}
  BY DEF Follow, Redirect, TypeOK, stream
<1> QED
  BY <1>3, <1>4, <1>5 DEF Follow

\* seedWatermark keeps the types of what it raises.
LEMMA SeedTypes ==
  ASSUME TypeOK, NEW j \in Job, NEW head \in Index \cup {-1}, Seed(j, head)
  PROVE  wm' \in [Job -> Index \cup {-1}] /\ seen' \in [Job -> SUBSET Index]
<1>0. /\ wm \in [Job -> Index \cup {-1}] /\ seen \in [Job -> SUBSET Index]
      /\ emitted \in [Job -> SUBSET Index]
  BY DEF TypeOK
<1>1. wm' \in [Job -> Index \cup {-1}]
  BY <1>0 DEF Seed
<1>2. seen[j] \cup (emitted[j] \cap 0 .. head) \subseteq Index
  BY <1>0
<1>3. seen' \in [Job -> SUBSET Index]
  BY <1>0, <1>2 DEF Seed
<1> QED
  BY <1>1, <1>3

\* Mishaps are counted.
LEMMA UseTypes ==
  ASSUME TypeOK, NEW b \in Mishap, Use(b)
  PROVE  used' \in [Mishap -> Nat]
BY DEF Use, TypeOK

-----------------------------------------------------------------------------
(* Every step, seen from the bus. *)

\* What the page does besides handling answers, and what the network does to it.
PageActs ==
  \/ Send \/ Accepted \/ Refused \/ FailPost \/ Subscribe \/ Receive \/ Drop \/ Reconnect
  \/ PollTick \/ Focus \/ Reload

\* The frames change in three ways.
LEMMA BusShape ==
  ASSUME OwedEnded, Next
  PROVE  \/ UNCHANGED bus
         \/ \E j \in Job : SkipIndex(j)
         \/ \E j \in Job : \E type \in {"data"} \cup Ended : Publish(j, type)
         \/ Restart
<1>1. ASSUME NEW j \in Job, Create(j) \/ Persist(j) \/ EndRun(j) \/ Stop(j) \/ Leave(j) \/ Reap(j)
      PROVE  UNCHANGED bus
  BY <1>1 DEF Create, Persist, EndRun, Stop, Leave, Reap
<1>2. ASSUME NEW j \in Job, Emit(j) \/ EmitTerminal(j)
      PROVE  \/ UNCHANGED bus
             \/ \E type \in {"data"} \cup Ended : Publish(j, type)
  BY <1>2 DEF Emit, EmitTerminal, OwedEnded
<1>3. ASSUME NEW g \in gets, Answer(g) \/ FailGet(g)
      PROVE  UNCHANGED bus
  BY <1>3 DEF Answer, Apply, Query, ReadMessages, ReadActive, ReadLast, ApplyResync, ApplyPoll,
              ApplyPollDetail, ApplyFinal, ApplyLoad, FailGet
<1>4. ASSUME PageActs
      PROVE  UNCHANGED bus
  BY <1>4 DEF PageActs, Send, Accepted, Refused, FailPost, Subscribe, Receive, Drop, Reconnect,
              PollTick, Focus, Reload
<1> QED
  BY <1>1, <1>2, <1>3, <1>4 DEF Next, PageActs

\* Whatever happens, the books are kept.
LEMMA BusStep ==
  ASSUME TypeOK, OwedEnded, \A j \in Job : Books(j), Next
  PROVE  BusOK'
<1>0. BusOK
  BY DEF TypeOK, BusOK
<1>1. CASE UNCHANGED bus
  BY <1>0, <1>1 DEF BusOK, Books, bus
<1>2. ASSUME NEW j \in Job, SkipIndex(j) PROVE BusOK'
  <2>1. next' = [next EXCEPT ![j] = @ + 1] /\ next[j] + 1 \in Index /\ UNCHANGED <<ring, emitted>>
    BY <1>0, <1>2 DEF SkipIndex, BusOK, Index
  <2>2. next' \in [Job -> Index]
    BY <1>0, <2>1 DEF BusOK
  <2>3. ASSUME NEW k \in Job PROVE Books(k)'
    <3>1. /\ Books(k) /\ next[k] \in Int /\ next'[k] \in Int /\ next'[k] >= next[k]
          /\ emitted[k] \subseteq Int
      BY <1>0, <2>1, <2>2 DEF BusOK, Index
    <3> QED
      BY <2>1, <3>1 DEF Books
  <2> QED
    BY <1>0, <2>1, <2>2, <2>3 DEF BusOK
<1>3. CASE \E j \in Job : \E type \in {"data"} \cup Ended : Publish(j, type)
  BY <1>0, <1>3, PublishKeepsBus
<1>4. CASE Restart
  <2>1. <<>> \in Seq(Frame) /\ Len(<<>>) = 0 /\ DOMAIN <<>> = {} /\ 0 \in Index
    BY EmptySeq DEF Index
  <2> QED
    BY <1>4, <2>1 DEF Restart, BusOK, Books
<1> QED
  BY <1>1, <1>2, <1>3, <1>4, BusShape

-----------------------------------------------------------------------------
(* Types are kept. *)

\* What the page and its requests are made of, the transcript and the POST apart.
PageTypes ==
  /\ cur \in Job \cup {NoJob} /\ status \in Status
  /\ wm \in [Job -> Index \cup {-1}] /\ seen \in [Job -> SUBSET Index]
  /\ conn \in Conn /\ from \in Index \cup {-1} /\ chan \in Seq(Frame)
  /\ gets \subseteq Get

JobTypes ==
  /\ row \in [Job -> {"none", "active"} \cup Ended] /\ latest \in Job \cup {NoJob}
  /\ persisted \subseteq Job /\ running \subseteq Job /\ owed \subseteq Job

PostTypes ==
  /\ sending \in BOOLEAN /\ posted \in Job \cup {NoJob}
  /\ stray \in Nat /\ orphans \subseteq Job

UsedTypes == used \in [Mishap -> Nat]

\* A published frame fits into the stream.
LEMMA PublishTypes ==
  ASSUME TypeOK, NEW j \in Job, NEW type \in {"data"} \cup Ended, Publish(j, type)
  PROVE  conn' \in Conn /\ from' \in Index \cup {-1} /\ chan' \in Seq(Frame)
<1>1. [index |-> next[j], type |-> type] \in Frame
  BY DEF TypeOK, Frame, FrameType
<1>2. chan' \in Seq(Frame)
  BY <1>1, AppendProperties DEF Publish, TypeOK
<1> QED
  BY <1>2 DEF Publish, TypeOK

\* The types of the jobs, of the mishaps, of the POST, and of the page, step by step.
LEMMA JobTypesStep == ASSUME TypeOK, Next PROVE JobTypes'
<1> USE DEF TypeOK, JobTypes, rows
<1>1. ASSUME NEW j \in Job, Create(j) \/ Persist(j)
      PROVE  JobTypes'
  BY <1>1 DEF Create, Persist
<1>2. ASSUME NEW j \in Job, EndRun(j) \/ Stop(j) \/ Leave(j) \/ Reap(j)
      PROVE  JobTypes'
  BY <1>2 DEF EndRun, Stop, Leave, Reap, Ended
<1>3. ASSUME NEW j \in Job, Emit(j) \/ EmitTerminal(j) \/ SkipIndex(j)
      PROVE  JobTypes'
  BY <1>3 DEF Emit, EmitTerminal, SkipIndex
<1>4. ASSUME NEW g \in gets, Answer(g) \/ FailGet(g)
      PROVE  JobTypes'
  BY <1>4 DEF Answer, Apply, Query, ReadMessages, ReadActive, ReadLast, ApplyResync, ApplyPoll,
              ApplyPollDetail, ApplyFinal, ApplyLoad, FailGet
<1>5. ASSUME PageActs
      PROVE  JobTypes'
  BY <1>5 DEF PageActs, Send, Accepted, Refused, FailPost, Subscribe, Receive, Drop, Reconnect,
              PollTick, Focus, Reload
<1>6. CASE Restart
  BY <1>6 DEF Restart
<1> QED
  BY <1>1, <1>2, <1>3, <1>4, <1>5, <1>6 DEF Next, PageActs

\* Every step counts a mishap or none.
LEMMA UsedShape ==
  ASSUME Next
  PROVE  UNCHANGED used \/ \E b \in Mishap : Use(b)
<1>1. ASSUME NEW j \in Job,
             \/ Create(j) \/ Emit(j) \/ SkipIndex(j) \/ Persist(j) \/ EndRun(j)
             \/ Stop(j) \/ Leave(j) \/ Reap(j) \/ EmitTerminal(j)
      PROVE  UNCHANGED used \/ Use("stops") \/ Use("settles")
  BY <1>1 DEF Create, Emit, SkipIndex, Persist, EndRun, Stop, Leave, Reap, EmitTerminal
<1>2. ASSUME NEW g \in gets, Answer(g) \/ FailGet(g)
      PROVE  UNCHANGED used \/ Use("errors") \/ Use("loads")
  BY <1>2 DEF Answer, Apply, Query, ReadMessages, ReadActive, ReadLast, ApplyResync, ApplyPoll,
              ApplyPollDetail, ApplyFinal, ApplyLoad, FailGet
<1>3. ASSUME PageActs \/ Restart
      PROVE  UNCHANGED used \/ Use("drops") \/ Use("loads") \/ Use("restarts") \/ Use("errors")
  BY <1>3 DEF PageActs, Send, Accepted, Refused, FailPost, Subscribe, Receive, Drop, Reconnect,
              PollTick, Focus, Reload, Restart
<1>4. {"stops", "settles", "errors", "drops", "loads", "restarts"} \subseteq Mishap
  BY DEF Mishap
<1> QED
  BY <1>1, <1>2, <1>3, <1>4 DEF Next, PageActs

LEMMA UsedTypesStep == ASSUME TypeOK, Next PROVE UsedTypes'
<1>1. CASE UNCHANGED used
  BY <1>1 DEF TypeOK, UsedTypes
<1>2. ASSUME NEW b \in Mishap, Use(b) PROVE UsedTypes'
  BY <1>2, UseTypes DEF UsedTypes
<1> QED
  BY <1>1, <1>2, UsedShape

LEMMA PostTypesStep == ASSUME TypeOK, Next PROVE PostTypes'
<1>0. PostTypes
  BY DEF TypeOK, PostTypes
<1>1. ASSUME NEW j \in Job, Create(j) PROVE PostTypes'
  <2>1. \/ sending' = FALSE /\ posted' = j /\ UNCHANGED <<stray, orphans>>
        \/ /\ stray > 0 /\ stray' = stray - 1 /\ orphans' = orphans \cup {j}
           /\ UNCHANGED <<sending, posted>>
    BY <1>1 DEF Create
  <2>2. stray' \in Nat /\ posted' \in Job \cup {NoJob} /\ orphans' \subseteq Job
    BY <1>0, <2>1 DEF PostTypes
  <2>3. sending' \in BOOLEAN
    BY <1>0, <2>1 DEF PostTypes
  <2> QED
    BY <2>2, <2>3 DEF PostTypes
<1>2. ASSUME NEW j \in Job,
             \/ Emit(j) \/ SkipIndex(j) \/ Persist(j) \/ EndRun(j)
             \/ Stop(j) \/ Leave(j) \/ Reap(j) \/ EmitTerminal(j)
      PROVE  PostTypes'
  BY <1>0, <1>2 DEF PostTypes, Emit, SkipIndex, Persist, EndRun, Stop, Leave, Reap, EmitTerminal, post
<1>3. ASSUME NEW g \in gets, Answer(g) \/ FailGet(g)
      PROVE  PostTypes'
  BY <1>0, <1>3 DEF PostTypes, Answer, Apply, Query, ReadMessages, ReadActive, ReadLast,
                    ApplyResync, ApplyPoll, ApplyPollDetail, ApplyFinal, ApplyLoad, FailGet, post
<1>4. ASSUME Subscribe \/ Receive \/ Drop \/ Reconnect \/ PollTick \/ Focus
      PROVE  PostTypes'
  BY <1>0, <1>4 DEF PostTypes, Subscribe, Receive, Drop, Reconnect, PollTick, Focus, post
<1>5. ASSUME Send \/ Accepted \/ Refused \/ FailPost \/ Reload \/ Restart
      PROVE  PostTypes'
  <2>1. /\ UNCHANGED stray \/ stray' = stray + 1 \/ stray' = 0
        /\ posted' = posted \/ posted' = NoJob
        /\ UNCHANGED orphans
    BY <1>5 DEF Send, Accepted, Refused, FailPost, Reload, Restart
  <2>2. sending' = sending \/ sending' = TRUE \/ sending' = FALSE
    BY <1>5 DEF Send, Accepted, Refused, FailPost, Reload, Restart
  <2>3. stray' \in Nat /\ posted' \in Job \cup {NoJob} /\ orphans' \subseteq Job
    BY <1>0, <2>1 DEF PostTypes
  <2>4. sending' \in BOOLEAN
    BY <1>0, <2>2 DEF PostTypes
  <2> QED
    BY <2>3, <2>4 DEF PostTypes
<1> QED
  BY <1>1, <1>2, <1>3, <1>4, <1>5 DEF Next

\* The transcript is left alone, rebuilt from an answer, or forgotten.
LEMMA PageShape ==
  ASSUME Next
  PROVE  \/ UNCHANGED <<shown, outdated>>
         \/ \E g \in gets : ReadActive(g) \/ Show(g)
         \/ shown' = {} /\ UNCHANGED outdated
<1>1. ASSUME NEW j \in Job,
             \/ Create(j) \/ Emit(j) \/ SkipIndex(j) \/ Persist(j) \/ EndRun(j)
             \/ Stop(j) \/ Leave(j) \/ Reap(j) \/ EmitTerminal(j)
      PROVE  UNCHANGED <<shown, outdated>>
  BY <1>1 DEF Create, Emit, SkipIndex, Persist, EndRun, Stop, Leave, Reap, EmitTerminal, store
<1>2. ASSUME NEW g \in gets, Answer(g) \/ FailGet(g)
      PROVE  UNCHANGED <<shown, outdated>> \/ ReadActive(g) \/ Show(g)
  BY <1>2 DEF Answer, Apply, Query, ReadMessages, ReadLast, ApplyResync, ApplyPoll,
              ApplyPollDetail, ApplyFinal, ApplyLoad, FailGet, Adopt, store
<1>3. ASSUME PageActs \/ Restart
      PROVE  UNCHANGED <<shown, outdated>> \/ (shown' = {} /\ UNCHANGED outdated)
  BY <1>3 DEF PageActs, Send, Accepted, Refused, FailPost, Subscribe, Receive, Drop, Reconnect,
              PollTick, Focus, Reload, Restart, store
<1> QED
  BY <1>1, <1>2, <1>3 DEF Next, PageActs

\* What the server writes into a request.
LEMMA Edited ==
  ASSUME NEW g \in Get, NEW query \in Queries, NEW h \in Get
  PROVE  /\ [h EXCEPT !.read = @ \cup {query}] \in Get
         /\ [h EXCEPT !.read = @ \cup {query}].read = h.read \cup {query}
         /\ [h EXCEPT !.read = @ \cup {query}].kind = h.kind
         /\ [h EXCEPT !.read = @ \cup {query}].messages = h.messages
         /\ [h EXCEPT !.read = @ \cup {query}].active = h.active
         /\ [h EXCEPT !.read = @ \cup {query}].head = h.head
         /\ [h EXCEPT !.read = @ \cup {query}].status = h.status
BY DEF Get

\* The three queries, h being what g becomes.
GotMessages(g, h) ==
  /\ "messages" \notin g.read /\ h.read = g.read \cup {"messages"}
  /\ h.messages = persisted
  /\ h.active = g.active /\ h.head = g.head /\ h.status = g.status
  /\ UNCHANGED outdated

GotActive(g, h) ==
  /\ "active" \notin g.read /\ h.read = g.read \cup {"active"}
  /\ h.active = ActiveJob
  /\ h.messages = g.messages /\ h.head = g.head /\ h.status = g.status
  /\ outdated' = (outdated \/ /\ Active = {} /\ "messages" \in g.read
                              /\ g.messages # persisted)

GotLast(g, h) ==
  /\ g.read = {"messages", "active"} /\ h.read = Queries
  /\ h.messages = g.messages /\ h.active = g.active
  /\ \/ g.active = NoJob /\ h.head = g.head /\ h.status = LatestStatus
     \/ g.active # NoJob /\ h.head = HeadIndex(g.active) /\ h.status = "streaming"
  /\ UNCHANGED outdated

\* A query changes one request, and nothing else.
LEMMA ReadIs ==
  ASSUME TypeOK, \A j \in Job : Books(j), NEW g \in gets,
         ReadMessages(g) \/ ReadActive(g) \/ ReadLast(g)
  PROVE  /\ UNCHANGED <<rows, running, owed, bus, store, stream, post, used>>
         /\ \E h \in Get :
              /\ gets' = (gets \ {g}) \cup {h} /\ h.kind = g.kind
              /\ GotMessages(g, h) \/ GotActive(g, h) \/ GotLast(g, h)
<1>0. g \in Get /\ persisted \in SUBSET Job /\ {"messages", "active", "last"} = Queries
      /\ g.active \in Job \cup {NoJob}
  BY DEF TypeOK, Get, Queries
<1>1. UNCHANGED <<rows, running, owed, bus, store, stream, post, used>>
  BY DEF ReadMessages, ReadActive, ReadLast, Query
<1>2. CASE ReadMessages(g)
  <2> DEFINE m == [g EXCEPT !.messages = persisted]
             h == [m EXCEPT !.read = @ \cup {"messages"}]
  <2>1. /\ m \in Get /\ m.kind = g.kind /\ m.read = g.read /\ m.messages = persisted
        /\ m.active = g.active /\ m.head = g.head /\ m.status = g.status
    BY <1>0 DEF Get
  <2>2. gets' = (gets \ {g}) \cup {h} /\ "messages" \notin g.read /\ UNCHANGED outdated
    BY <1>2 DEF ReadMessages, Query
  <2> HIDE DEF m
  <2>3. /\ h \in Get /\ h.read = m.read \cup {"messages"} /\ h.kind = m.kind
        /\ h.messages = m.messages /\ h.active = m.active /\ h.head = m.head
        /\ h.status = m.status
    BY <1>0, <2>1, Edited
  <2> HIDE DEF h
  <2>4. GotMessages(g, h) /\ h.kind = g.kind
    BY <2>1, <2>2, <2>3 DEF GotMessages
  <2> QED
    BY <1>1, <2>2, <2>3, <2>4
<1>3. CASE ReadActive(g)
  <2> DEFINE m == [g EXCEPT !.active = ActiveJob]
             h == [m EXCEPT !.read = @ \cup {"active"}]
  <2>1. /\ m \in Get /\ m.kind = g.kind /\ m.read = g.read /\ m.active = ActiveJob
        /\ m.messages = g.messages /\ m.head = g.head /\ m.status = g.status
    BY <1>0, ActiveJobIs DEF Get
  <2>2. /\ gets' = (gets \ {g}) \cup {h} /\ "active" \notin g.read
        /\ outdated' = (outdated \/ /\ Active = {} /\ "messages" \in g.read
                                    /\ g.messages # persisted)
    BY <1>3 DEF ReadActive, Query
  <2> HIDE DEF m
  <2>3. /\ h \in Get /\ h.read = m.read \cup {"active"} /\ h.kind = m.kind
        /\ h.messages = m.messages /\ h.active = m.active /\ h.head = m.head
        /\ h.status = m.status
    BY <1>0, <2>1, Edited
  <2> HIDE DEF h
  <2>4. GotActive(g, h) /\ h.kind = g.kind
    BY <2>1, <2>2, <2>3 DEF GotActive
  <2> QED
    BY <1>1, <2>2, <2>3, <2>4
<1>4. CASE ReadLast(g)
  <2> DEFINE m == IF g.active = NoJob THEN [g EXCEPT !.status = LatestStatus]
                  ELSE [g EXCEPT !.status = "streaming", !.head = HeadIndex(g.active)]
             h == [m EXCEPT !.read = @ \cup {"last"}]
  <2>1. /\ m \in Get /\ m.kind = g.kind /\ m.read = g.read /\ m.active = g.active
        /\ m.messages = g.messages
        /\ \/ g.active = NoJob /\ m.head = g.head /\ m.status = LatestStatus
           \/ g.active # NoJob /\ m.head = HeadIndex(g.active) /\ m.status = "streaming"
    <3>1. CASE g.active = NoJob
      <4>1. LatestStatus \in Status
        BY DEF LatestStatus, Status
      <4> QED
        BY <1>0, <3>1, <4>1 DEF Get
    <3>2. CASE g.active # NoJob
      <4>1. HeadIndex(g.active) \in Index \cup {-1} /\ "streaming" \in Status
        BY <1>0, <3>2, HeadIndexIs DEF Status
      <4> QED
        BY <1>0, <3>2, <4>1 DEF Get
    <3> QED
      BY <3>1, <3>2
  <2>2. gets' = (gets \ {g}) \cup {h} /\ g.read = {"messages", "active"} /\ UNCHANGED outdated
    BY <1>4 DEF ReadLast, Query
  <2> HIDE DEF m
  <2>3. /\ h \in Get /\ h.read = m.read \cup {"last"} /\ h.kind = m.kind
        /\ h.messages = m.messages /\ h.active = m.active /\ h.head = m.head
        /\ h.status = m.status
    BY <1>0, <2>1, Edited
  <2> HIDE DEF h
  <2>4. h.read = Queries
    BY <1>0, <2>1, <2>2, <2>3
  <2>5. GotLast(g, h) /\ h.kind = g.kind
    BY <2>1, <2>2, <2>3, <2>4 DEF GotLast
  <2> QED
    BY <1>1, <2>2, <2>3, <2>5
<1> QED
  BY <1>2, <1>3, <1>4

\* What the page and its requests hold keeps its type.
LEMMA PageTypesStep ==
  ASSUME TypeOK, OwedEnded, Page, \A j \in Job : Books(j), Next
  PROVE  PageTypes'
<1>0. /\ PageTypes /\ <<>> \in Seq(Frame) /\ -1 \in Index \cup {-1} /\ {} \in SUBSET Index
      /\ \A kind \in GetKind : NewGet(kind) \in Get
      /\ GetKind = {"resync", "poll", "pollDetail", "final", "load"}
      /\ Conn = {"off", "ask", "open", "dead", "resync", "backoff"}
      /\ posted \in Job \cup {NoJob} /\ {"idle", "streaming", "loading"} \cup Ended \subseteq Status
  BY EmptySeq, NewGetType DEF TypeOK, PageTypes, GetKind, Conn, Status
<1>r. Refetched \subseteq Get
  BY <1>0 DEF Refetched, PageTypes
<1>s. ASSUME chan # <<>>
      PROVE  /\ cur \in Job /\ Head(chan) \in Frame /\ Tail(chan) \in Seq(Frame)
             /\ Head(chan).index \in Index \cup {-1}
             /\ (Head(chan).index > wm[cur] => Head(chan).index \in Index)
  <2>1. chan \in Seq(Frame) /\ cur \in Job
    BY <1>s, <1>0 DEF Page, PageTypes
  <2>2. Head(chan) \in Frame /\ Tail(chan) \in Seq(Frame)
    BY <1>s, <2>1, HeadTailProperties
  <2>3. Head(chan).index \in Index \cup {-1} /\ wm[cur] \in Index \cup {-1}
    BY <1>0, <2>1, <2>2 DEF Frame, PageTypes
  <2>4. Head(chan).index > wm[cur] => Head(chan).index \in Index
    BY <2>3 DEF Index
  <2> QED
    BY <2>1, <2>2, <2>3, <2>4
<1>1. ASSUME NEW j \in Job, Create(j) \/ Persist(j) \/ EndRun(j) \/ Stop(j) \/ Leave(j) \/ Reap(j)
                            \/ SkipIndex(j)
      PROVE  PageTypes'
  <2>1. UNCHANGED <<store, stream, gets>>
    BY <1>1 DEF Create, Persist, EndRun, Stop, Leave, Reap, SkipIndex
  <2> QED
    BY <1>0, <2>1 DEF PageTypes, store, stream
<1>2. ASSUME NEW j \in Job, Emit(j) \/ EmitTerminal(j)
      PROVE  PageTypes'
  <2>1. conn' \in Conn /\ from' \in Index \cup {-1} /\ chan' \in Seq(Frame)
    BY <1>0, <1>2, PublishTypes DEF Emit, EmitTerminal, stream, PageTypes, OwedEnded
  <2> QED
    BY <1>0, <1>2, <2>1 DEF Emit, EmitTerminal, PageTypes, store
<1>3. ASSUME NEW g \in gets, ReadMessages(g) \/ ReadActive(g) \/ ReadLast(g) PROVE PageTypes'
  <2>1. UNCHANGED <<store, stream>> /\ \E h \in Get : gets' = (gets \ {g}) \cup {h}
    BY <1>3, ReadIs
  <2> QED
    BY <1>0, <2>1 DEF PageTypes, store, stream
<1>4. CASE Send \/ Refused \/ FailPost
  BY <1>0, <1>r, <1>4 DEF Send, Refused, FailPost, PageTypes, store, stream
<1>5. ASSUME NEW g \in gets, ApplyPoll(g) \/ FailGet(g) PROVE PageTypes'
  BY <1>0, <1>5 DEF ApplyPoll, FailGet, PageTypes, store, stream
<1>g. ASSUME NEW g \in gets
      PROVE  /\ g \in Get /\ g.active \in Job \cup {NoJob} /\ g.status \in Status
             /\ g.head \in Index \cup {-1} /\ gets \ {g} \in SUBSET Get
  BY <1>0 DEF PageTypes, Get
<1>6. ASSUME NEW g \in gets, ApplyPollDetail(g) \/ ApplyFinal(g) PROVE PageTypes'
  <2>1. CASE Follow(g.active, g.status, gets \ {g}, wm)
    BY <1>0, <1>g, <1>6, <2>1, FollowTypes DEF ApplyPollDetail, ApplyFinal, PageTypes
  <2>2. CASE gets' = gets \ {g} /\ UNCHANGED <<cur, status, stream>>
    BY <1>0, <1>6, <2>2 DEF ApplyPollDetail, ApplyFinal, PageTypes, stream
  <2> QED
    BY <1>6, <2>1, <2>2 DEF ApplyPollDetail, ApplyFinal, Adopt
<1>7. ASSUME NEW g \in gets, ApplyResync(g) PROVE PageTypes'
  <2>1. CASE g.active = cur
    <3>1. cur \in Job
      BY <1>7 DEF ApplyResync, Page
    <3>2. wm' \in [Job -> Index \cup {-1}] /\ seen' \in [Job -> SUBSET Index]
      BY <1>0, <1>g, <1>7, <2>1, <3>1, SeedTypes DEF ApplyResync, PageTypes
    <3> QED
      BY <1>0, <1>7, <2>1, <3>1, <3>2 DEF ApplyResync, PageTypes
  <2>2. CASE g.active # cur
    <3>1. Follow(g.active, g.status, gets \ {g}, wm) /\ UNCHANGED <<wm, seen>>
      BY <1>7, <2>2 DEF ApplyResync, Adopt
    <3>2. /\ cur' \in Job \cup {NoJob} /\ status' \in Status /\ gets' \subseteq Get
          /\ conn' \in Conn /\ from' \in Index \cup {-1} /\ chan' \in Seq(Frame)
      BY <1>0, <1>g, <3>1, FollowTypes DEF PageTypes
    <3> QED
      BY <1>0, <3>1, <3>2 DEF PageTypes
  <2> QED
    BY <2>1, <2>2
<1>8. ASSUME NEW g \in gets, ApplyLoad(g) PROVE PageTypes'
  <2>1. wm' \in [Job -> Index \cup {-1}] /\ seen' \in [Job -> SUBSET Index]
    BY <1>0, <1>g, <1>8, SeedTypes DEF ApplyLoad, PageTypes
  <2>2. CASE Follow(g.active, g.status, gets \ {g}, wm')
    BY <1>0, <1>g, <2>1, <2>2, FollowTypes DEF PageTypes
  <2>3. CASE gets' = gets \ {g} /\ UNCHANGED <<cur, status, stream>>
    BY <1>0, <2>1, <2>3 DEF PageTypes, stream
  <2> QED
    BY <1>8, <2>2, <2>3 DEF ApplyLoad, Adopt
<1>9. CASE Accepted
  <2>1. \E others \in SUBSET Get : Follow(posted, "streaming", others, wm)
    BY <1>0, <1>r, <1>9 DEF Accepted, PageTypes
  <2> QED
    BY <1>0, <1>9, <2>1, FollowTypes DEF Accepted, PageTypes
<1>10. CASE Subscribe
  <2>1. cur \in Job /\ ring[cur] \in Seq(Frame)
    BY <1>10 DEF Subscribe, Page, TypeOK
  <2>2. ASSUME NEW k \in 0 .. Len(ring[cur]), chan' = SubSeq(ring[cur], k + 1, Len(ring[cur]))
        PROVE  chan' \in Seq(Frame)
    BY <2>1, <2>2, Suffix
  <2>3. ASSUME chan' = <<Marker(from)>> PROVE chan' \in Seq(Frame)
    <3>1. Marker(from) \in Frame
      BY <1>0 DEF Marker, Frame, FrameType, PageTypes
    <3> QED
      BY <2>3, <3>1
  <2>4. chan' \in Seq(Frame) /\ conn' = "open" /\ UNCHANGED <<from, store, gets>>
    BY <1>10, <2>2, <2>3 DEF Subscribe
  <2> QED
    BY <1>0, <2>4 DEF PageTypes, store
<1>11. CASE Receive
  <2>1. /\ cur \in Job /\ Head(chan) \in Frame /\ Tail(chan) \in Seq(Frame)
        /\ (Head(chan).index > wm[cur] => Head(chan).index \in Index)
    BY <1>s, <1>11 DEF Receive
  <2>2. CASE Head(chan).type = "resync"
    <3>1. /\ conn' = "resync" /\ chan' = <<>> /\ gets' = gets \cup {NewGet("resync")}
          /\ UNCHANGED <<from, store>>
      BY <1>11, <2>2 DEF Receive
    <3> QED
      BY <1>0, <3>1 DEF PageTypes, store
  <2>3. CASE Head(chan).type # "resync" /\ Head(chan).index <= wm[cur]
    <3>1. chan' = Tail(chan) /\ UNCHANGED <<conn, from, store, gets>>
      BY <1>11, <2>1, <2>3, <1>0 DEF Receive, PageTypes, Index
    <3> QED
      BY <1>0, <2>1, <3>1 DEF PageTypes, store
  <2>4. CASE Head(chan).type # "resync" /\ Head(chan).index > wm[cur]
    <3>1. /\ wm' = [wm EXCEPT ![cur] = Head(chan).index]
          /\ seen' = [seen EXCEPT ![cur] = @ \cup {Head(chan).index}]
          /\ \/ Head(chan).type \in Ended /\ Follow(NoJob, Head(chan).type, gets, wm)
             \/ chan' = Tail(chan) /\ UNCHANGED <<conn, from, cur, status, gets>>
      BY <1>11, <2>1, <2>4, <1>0 DEF Receive, PageTypes, Index
    <3>2. wm' \in [Job -> Index \cup {-1}] /\ seen' \in [Job -> SUBSET Index]
      BY <1>0, <2>1, <2>4, <3>1 DEF PageTypes
    <3>3. CASE Head(chan).type \in Ended /\ Follow(NoJob, Head(chan).type, gets, wm)
      BY <1>0, <3>1, <3>2, <3>3, FollowTypes DEF PageTypes
    <3>4. CASE chan' = Tail(chan) /\ UNCHANGED <<conn, from, cur, status, gets>>
      BY <1>0, <2>1, <3>1, <3>2, <3>4 DEF PageTypes
    <3> QED
      BY <3>1, <3>3, <3>4
  <2> QED
    BY <1>11, <2>2, <2>3, <2>4 DEF Receive
<1>12. CASE Drop \/ Reconnect
  <2>1. conn # "off" => cur \in Job
    BY DEF Page
  <2> QED
    BY <1>0, <1>12, <2>1 DEF Drop, Reconnect, PageTypes, store
<1>13. CASE PollTick \/ Focus
  BY <1>0, <1>13 DEF PollTick, Focus, PageTypes, store, stream
<1>14. CASE Reload
  BY <1>0, <1>14 DEF Reload, PageTypes
<1>15. CASE Restart
  <2>1. gets' \subseteq Get /\ chan' = <<>> /\ conn' \in Conn
    BY <1>0, <1>15 DEF Restart, PageTypes
  <2> QED
    BY <1>0, <1>15, <2>1 DEF Restart, PageTypes
<1> QED
  BY <1>1, <1>2, <1>3, <1>4, <1>5, <1>6, <1>7, <1>8, <1>9, <1>10, <1>11, <1>12, <1>13, <1>14, <1>15
  DEF Next, Answer, Apply

\* The transcript is built of messages that were persisted.
ShownTypes == shown \subseteq Job /\ outdated \in BOOLEAN

LEMMA ShownTypesStep == ASSUME TypeOK, Next PROVE ShownTypes'
<1>1. ShownTypes
  BY DEF TypeOK, ShownTypes
<1>2. ASSUME NEW g \in gets, Show(g) PROVE ShownTypes'
  <2>1. g.messages \subseteq Job
    BY DEF TypeOK, Get
  <2>2. shown' \subseteq Job
    BY <1>2, <2>1 DEF Show
  <2>3. outdated' \in BOOLEAN
    BY <1>1, <1>2 DEF Show, ShownTypes
  <2> QED
    BY <2>2, <2>3 DEF ShownTypes
<1>3. ASSUME NEW g \in gets, ReadActive(g) PROVE ShownTypes'
  BY <1>1, <1>3 DEF ReadActive, Query, ShownTypes, store
<1>4. ASSUME UNCHANGED <<shown, outdated>> \/ (shown' = {} /\ UNCHANGED outdated)
      PROVE  ShownTypes'
  BY <1>1, <1>4 DEF ShownTypes
<1> QED
  BY <1>2, <1>3, <1>4, PageShape

-----------------------------------------------------------------------------
(* The jobs. *)

\* The steps of a request and of the page leave the jobs alone.
LEMMA Bystanders ==
  /\ \A g \in gets : Answer(g) \/ FailGet(g) =>
       UNCHANGED <<rows, running, owed, bus>> /\ UNCHANGED post
  /\ PageActs => UNCHANGED <<rows, running, owed, bus>>
<1>1. ASSUME NEW g \in gets, Answer(g) \/ FailGet(g)
      PROVE  UNCHANGED <<rows, running, owed, bus>> /\ UNCHANGED post
  BY <1>1 DEF Answer, Apply, Query, ReadMessages, ReadActive, ReadLast, ApplyResync, ApplyPoll,
              ApplyPollDetail, ApplyFinal, ApplyLoad, FailGet
<1>2. ASSUME PageActs
      PROVE  UNCHANGED <<rows, running, owed, bus>>
  BY <1>2 DEF PageActs, Send, Accepted, Refused, FailPost, Subscribe, Receive, Drop, Reconnect,
              PollTick, Focus, Reload
<1> QED
  BY <1>1, <1>2

\* No step owes an unfinished job its terminal frame.
LEMMA OwedStep == ASSUME IInv, Next PROVE OwedEnded'
<1>0. row \in [Job -> {"none", "active"} \cup Ended] /\ OwedEnded /\ owed \subseteq Job
  BY DEF IInv, TypeOK
<1>1. ASSUME NEW j \in Job,
             \/ Create(j) \/ Emit(j) \/ SkipIndex(j) \/ Persist(j) \/ EndRun(j)
             \/ Stop(j) \/ Leave(j) \/ Reap(j) \/ EmitTerminal(j)
      PROVE  OwedEnded'
  BY <1>0, <1>1 DEF OwedEnded, rows, Ended, Create, Emit, SkipIndex, Persist, EndRun, Stop, Leave,
                    Reap, EmitTerminal
<1>2. CASE UNCHANGED <<rows, running, owed, bus>>
  BY <1>0, <1>2 DEF OwedEnded, rows
<1>3. CASE Restart
  BY <1>3 DEF Restart, OwedEnded
<1> QED
  BY <1>1, <1>2, <1>3, Bystanders DEF Next, PageActs

\* A job that a former process left behind is not run again.
LEMMA LeftOverStays == ASSUME IInv, Next, NEW j \in Job, LeftOver(j) PROVE LeftOver(j)'
<1>0. /\ next[j] \in Int /\ next \in [Job -> Index]
      /\ row \in [Job -> {"none", "active"} \cup Ended]
      /\ j \notin running /\ row[j] # "none" /\ OwedEnded
      /\ next[j] <= (IF j \in owed \/ row[j] = "active" THEN 0 ELSE 1)
  BY DEF IInv, TypeOK, LeftOver, Index
<1>1. ASSUME NEW k \in Job, Create(k) \/ Persist(k) \/ EndRun(k) \/ Leave(k)
      PROVE  LeftOver(j)'
  BY <1>0, <1>1 DEF Create, Persist, EndRun, Leave, LeftOver, bus, rows
<1>2. ASSUME NEW k \in Job, Stop(k) \/ Reap(k)
      PROVE  LeftOver(j)'
  BY <1>0, <1>2 DEF Stop, Reap, LeftOver, bus, rows
<1>3. ASSUME NEW k \in Job, Emit(k) \/ SkipIndex(k)
      PROVE  LeftOver(j)'
  BY <1>0, <1>3 DEF Emit, SkipIndex, Publish, LeftOver, rows
<1>4. ASSUME NEW k \in Job, EmitTerminal(k) PROVE LeftOver(j)'
  BY <1>0, <1>4 DEF EmitTerminal, Publish, LeftOver, OwedEnded, Ended, bus, rows
<1>5. CASE UNCHANGED <<rows, running, owed, bus>>
  BY <1>0, <1>5 DEF LeftOver, bus, rows
<1>6. CASE Restart
  BY <1>0, <1>6 DEF Restart, LeftOver, rows
<1> QED
  BY <1>1, <1>2, <1>3, <1>4, <1>5, <1>6, Bystanders DEF Next, PageActs

\* Every request after a step was there before, is new, or was just read.
LEMMA GetsShape ==
  ASSUME Next, NEW h \in gets'
  PROVE  \/ h \in gets
         \/ \E kind \in GetKind : h = NewGet(kind)
         \/ \E g \in gets : ReadMessages(g) \/ ReadActive(g) \/ ReadLast(g)
<1>0. {"resync", "poll", "pollDetail", "final", "load"} = GetKind
  BY DEF GetKind
<1>1. ASSUME NEW a, NEW s, NEW others, others \subseteq gets \cup {NewGet("load")}, NEW w,
             Follow(a, s, others, w)
      PROVE  h \in gets \/ \E kind \in GetKind : h = NewGet(kind)
  BY <1>0, <1>1 DEF Follow, Surviving
<1>2. ASSUME NEW j \in Job,
             \/ Create(j) \/ Emit(j) \/ SkipIndex(j) \/ Persist(j) \/ EndRun(j)
             \/ Stop(j) \/ Leave(j) \/ Reap(j) \/ EmitTerminal(j)
      PROVE  h \in gets
  BY <1>2 DEF Create, Emit, SkipIndex, Persist, EndRun, Stop, Leave, Reap, EmitTerminal
<1>3. ASSUME NEW g \in gets, Apply(g) \/ FailGet(g)
      PROVE  h \in gets \/ \E kind \in GetKind : h = NewGet(kind)
  <2>1. \/ gets' \subseteq gets \cup {NewGet("pollDetail")}
        \/ \E a, s, w : Follow(a, s, gets \ {g}, w)
    BY <1>3 DEF Apply, Adopt, ApplyResync, ApplyPoll, ApplyPollDetail, ApplyFinal, ApplyLoad, FailGet
  <2> QED
    BY <1>0, <1>1, <2>1
<1>4. ASSUME PageActs \/ Restart
      PROVE  h \in gets \/ \E kind \in GetKind : h = NewGet(kind)
  <2>1. \/ gets' \subseteq gets \cup {NewGet("load"), NewGet("poll"), NewGet("resync")}
        \/ \E a, s, w : Follow(a, s, gets, w) \/ Follow(a, s, Refetched, w)
    BY <1>4 DEF PageActs, Send, Accepted, Refused, FailPost, Subscribe, Receive, Drop, Reconnect,
                PollTick, Focus, Reload, Restart, Refetched, store
  <2> QED
    BY <1>0, <1>1, <2>1 DEF Refetched
<1> QED
  BY <1>2, <1>3, <1>4 DEF Next, PageActs, Answer

\* A page comes to follow what it followed, what an answer names, what its message
\* has started, or nothing.
LEMMA CurShape ==
  ASSUME Next
  PROVE  cur' \in {cur, NoJob, posted} \/ \E g \in gets : cur' = g.active
<1>1. ASSUME NEW j \in Job,
             \/ Create(j) \/ Emit(j) \/ SkipIndex(j) \/ Persist(j) \/ EndRun(j)
             \/ Stop(j) \/ Leave(j) \/ Reap(j) \/ EmitTerminal(j)
      PROVE  cur' = cur
  BY <1>1 DEF Create, Emit, SkipIndex, Persist, EndRun, Stop, Leave, Reap, EmitTerminal, store
<1>2. ASSUME NEW g \in gets, Answer(g) \/ FailGet(g)
      PROVE  cur' = cur \/ cur' = g.active
  BY <1>2 DEF Answer, Apply, Query, ReadMessages, ReadActive, ReadLast, ApplyResync, ApplyPoll,
              ApplyPollDetail, ApplyFinal, ApplyLoad, FailGet, Adopt, Follow, store
<1>3. ASSUME PageActs \/ Restart
      PROVE  cur' \in {cur, NoJob, posted}
  BY <1>3 DEF PageActs, Send, Accepted, Refused, FailPost, Subscribe, Receive, Drop, Reconnect,
              PollTick, Focus, Reload, Restart, Follow, store
<1> QED
  BY <1>1, <1>2, <1>3 DEF Next, PageActs

\* The page and the requests know only jobs that exist.
LEMMA UnbornStep == ASSUME IInv, Next, NEW j \in Job PROVE Unborn(j)'
<1> SUFFICES ASSUME row'[j] = "none" PROVE Unborn(j)'
  BY DEF Unborn
<1>0. /\ TypeOK /\ row \in [Job -> {"none", "active"} \cup Ended] /\ next \in [Job -> Index]
      /\ Unborn(j) /\ NoJob \notin Job /\ wm \in [Job -> Index \cup {-1}] /\ gets \subseteq Get
      /\ conn # "off" => cur \in Job
      /\ \A k \in Job : Books(k)
  BY DEF IInv, TypeOK, Page
<1>1. row[j] = "none" /\ \A k \in Job : Create(k) \/ EndRun(k) \/ Stop(k) \/ Reap(k) => k # j
  <2>1. ASSUME NEW k \in Job, Create(k) \/ EndRun(k) \/ Stop(k) \/ Reap(k)
        PROVE  row[j] = "none" /\ k # j
    BY <1>0, <2>1 DEF Create, EndRun, Stop, Reap, Ended
  <2>2. ASSUME NEW k \in Job, Emit(k) \/ SkipIndex(k) \/ Persist(k) \/ Leave(k) \/ EmitTerminal(k)
        PROVE  row' = row
    BY <2>2 DEF Emit, SkipIndex, Persist, Leave, EmitTerminal, rows
  <2>3. ASSUME Restart \/ UNCHANGED <<rows, running, owed, bus>>
        PROVE  row' = row
    BY <2>3 DEF Restart, rows
  <2>4. ASSUME row' = row
        PROVE  row[j] = "none" /\ \A k \in Job : Create(k) \/ EndRun(k) \/ Stop(k) \/ Reap(k) => k # j
    BY <2>1, <2>4
  <2> QED
    BY <2>1, <2>2, <2>3, <2>4, Bystanders DEF Next, PageActs
<1>2. /\ wm[j] = -1 /\ next[j] = 0 /\ j \notin running \cup owed \cup persisted
      /\ cur # j /\ posted # j
      /\ \A g \in gets : g.active # j
  BY <1>0, <1>1 DEF Unborn
<1>3. \A h \in gets' : h.active # j
  <2> SUFFICES ASSUME NEW h \in gets' PROVE h.active # j
    OBVIOUS
  <2>1. ASSUME NEW kind \in GetKind, h = NewGet(kind) PROVE h.active # j
    BY <1>0, <2>1, NewGetType
  <2>2. ASSUME NEW g \in gets, ReadMessages(g) \/ ReadActive(g) \/ ReadLast(g) PROVE h.active # j
    <3>1. \E k \in Get : /\ gets' = (gets \ {g}) \cup {k}
                         /\ k.active = g.active \/ k.active = ActiveJob
      BY <1>0, <2>2, ReadIs DEF GotMessages, GotActive, GotLast
    <3>2. ActiveJob # j
      BY <1>0, <1>1, ActiveJobIs
    <3> QED
      BY <1>2, <3>1, <3>2
  <2> QED
    BY <1>2, <2>1, <2>2, GetsShape
<1>4. cur' # j
  BY <1>0, <1>2, CurShape
<1>s. ASSUME NEW k \in Job, k # j, NEW head, Seed(k, head) PROVE wm'[j] = -1
  BY <1>0, <1>2, <1>s DEF Seed
<1>5. wm'[j] = -1
  <2>1. CASE UNCHANGED wm
    BY <1>2, <2>1
  <2>2. ASSUME NEW g \in gets, ApplyResync(g) PROVE wm'[j] = -1
    <3>1. cur \in Job
      BY <2>2 DEF ApplyResync, IInv, Page
    <3> QED
      BY <1>0, <1>2, <1>s, <2>2, <3>1 DEF ApplyResync
  <2>3. ASSUME NEW g \in gets, ApplyLoad(g) PROVE wm'[j] = -1
    <3>1. g.active \in Job \cup {NoJob} /\ g.active # j
      BY <1>0, <1>2 DEF Get
    <3> QED
      BY <1>0, <1>2, <1>s, <2>3, <3>1 DEF ApplyLoad
  <2>4. CASE Receive
    BY <1>0, <1>2, <2>4 DEF Receive, store
  <2>5. CASE Reload
    BY <2>5 DEF Reload
  <2>6. ASSUME NEW k \in Job,
               \/ Create(k) \/ Emit(k) \/ SkipIndex(k) \/ Persist(k) \/ EndRun(k)
               \/ Stop(k) \/ Leave(k) \/ Reap(k) \/ EmitTerminal(k)
        PROVE  UNCHANGED wm
    BY <2>6 DEF Create, Emit, SkipIndex, Persist, EndRun, Stop, Leave, Reap, EmitTerminal, store
  <2>7. ASSUME NEW g \in gets,
               \/ ReadMessages(g) \/ ReadActive(g) \/ ReadLast(g) \/ ApplyPoll(g)
               \/ ApplyPollDetail(g) \/ ApplyFinal(g) \/ FailGet(g)
        PROVE  UNCHANGED wm
    BY <2>7 DEF Query, ReadMessages, ReadActive, ReadLast, ApplyPoll, ApplyPollDetail, ApplyFinal,
                FailGet, store
  <2>8. ASSUME Send \/ Accepted \/ Refused \/ FailPost \/ Subscribe \/ Drop \/ Reconnect \/ PollTick
                 \/ Focus \/ Restart
        PROVE  UNCHANGED wm
    BY <2>8 DEF Send, Accepted, Refused, FailPost, Subscribe, Drop, Reconnect, PollTick, Focus,
                Restart, store
  <2> QED
    BY <2>1, <2>2, <2>3, <2>4, <2>5, <2>6, <2>7, <2>8 DEF Next, Answer, Apply
<1>6. next'[j] = 0 /\ j \notin running' \cup owed' \cup persisted'
  <2>1. ASSUME NEW k \in Job, Create(k) \/ EndRun(k) \/ Stop(k) \/ Reap(k)
        PROVE  next'[j] = 0 /\ j \notin running' \cup owed' \cup persisted'
    BY <1>1, <1>2, <2>1 DEF Create, EndRun, Stop, Reap, bus
  <2>2. ASSUME NEW k \in Job, Emit(k) \/ SkipIndex(k) \/ Persist(k) \/ Leave(k) \/ EmitTerminal(k)
        PROVE  next'[j] = 0 /\ j \notin running' \cup owed' \cup persisted'
    BY <1>0, <1>2, <2>2 DEF Emit, SkipIndex, Persist, Leave, EmitTerminal, Publish, bus, rows
  <2>3. CASE Restart
    BY <1>2, <2>3 DEF Restart, rows
  <2>4. CASE UNCHANGED <<rows, running, owed, bus>>
    BY <1>2, <2>4 DEF rows, bus
  <2> QED
    BY <2>1, <2>2, <2>3, <2>4, Bystanders DEF Next, PageActs
<1>7. posted' # j
  <2>1. ASSUME NEW k \in Job, Create(k) PROVE posted' # j
    BY <1>1, <1>2, <2>1 DEF Create
  <2>2. ASSUME NEW k \in Job,
               \/ Emit(k) \/ SkipIndex(k) \/ Persist(k) \/ EndRun(k)
               \/ Stop(k) \/ Leave(k) \/ Reap(k) \/ EmitTerminal(k)
        PROVE  UNCHANGED posted
    BY <2>2 DEF Emit, SkipIndex, Persist, EndRun, Stop, Leave, Reap, EmitTerminal, post
  <2>3. ASSUME PageActs \/ Restart PROVE posted' \in {posted, NoJob}
    BY <2>3 DEF PageActs, Send, Accepted, Refused, FailPost, Subscribe, Receive, Drop, Reconnect,
                PollTick, Focus, Reload, Restart, post
  <2> QED
    BY <1>0, <1>2, <2>1, <2>2, <2>3, Bystanders DEF Next, PageActs, post
<1> QED
  BY <1>3, <1>4, <1>5, <1>6, <1>7 DEF Unborn

-----------------------------------------------------------------------------
(* The requests. *)

\* What a process has emitted it goes on having emitted.
LEMMA EmittedGrows ==
  ASSUME IInv, Next
  PROVE  Restart \/ \A j \in Job : emitted[j] \subseteq emitted'[j]
<1>1. emitted \in [Job -> SUBSET Index] /\ OwedEnded
  BY DEF IInv, TypeOK
<1> QED
  BY <1>1, BusShape DEF SkipIndex, Publish, bus

\* Requests go on holding heads that were emitted.
LEMMA HeadsStep == ASSUME IInv, Next PROVE Heads'
<1> SUFFICES ASSUME NEW h \in gets', h.head # -1
             PROVE  "active" \in h.read /\ h.active \in Job /\ h.head \in emitted'[h.active]
  BY DEF Heads
<1>0. gets \subseteq Get /\ Heads /\ TypeOK /\ \A j \in Job : Books(j)
  BY DEF IInv, TypeOK
<1>1. CASE Restart
  BY <1>1, NewGetType DEF Restart, GetKind
<1>2. CASE ~Restart
  <2>1. \A j \in Job : emitted[j] \subseteq emitted'[j]
    BY <1>2, EmittedGrows
  <2>2. CASE h \in gets
    BY <1>0, <2>1, <2>2 DEF Heads
  <2>3. CASE \E kind \in GetKind : h = NewGet(kind)
    BY <2>3, NewGetType
  <2>4. ASSUME NEW g \in gets, ReadMessages(g) \/ ReadActive(g) \/ ReadLast(g), h \notin gets
        PROVE  "active" \in h.read /\ h.active \in Job /\ h.head \in emitted'[h.active]
    <3>1. h \in Get /\ (GotMessages(g, h) \/ GotActive(g, h) \/ GotLast(g, h))
      BY <1>0, <2>4, ReadIs
    <3>2. /\ g \in Get
          /\ \/ g.head = -1
             \/ "active" \in g.read /\ g.active \in Job /\ g.head \in emitted[g.active]
      <4>1. g \in Get
        BY <1>0
      <4> QED
        BY <1>0, <4>1 DEF Heads
    <3>3. CASE GotMessages(g, h)
      BY <2>1, <3>2, <3>3 DEF GotMessages
    <3>4. CASE GotActive(g, h)
      BY <3>2, <3>4 DEF GotActive
    <3>5. CASE GotLast(g, h)
      <4>1. "active" \in h.read /\ h.active = g.active
        BY <3>5 DEF GotLast, Queries
      <4>2. CASE h.head = g.head
        BY <2>1, <3>2, <4>1, <4>2
      <4>3. CASE g.active # NoJob /\ h.head = HeadIndex(g.active)
        <5>1. g.active \in Job
          BY <3>2, <4>3 DEF Get
        <5>2. h.head \in emitted[g.active]
          BY <1>0, <4>3, <5>1, HeadIndexIs
        <5> QED
          BY <2>1, <4>1, <5>1, <5>2
      <4> QED
        BY <3>5, <4>2, <4>3 DEF GotLast
    <3> QED
      BY <3>1, <3>3, <3>4, <3>5
  <2> QED
    BY <2>2, <2>3, <2>4, GetsShape
<1> QED
  BY <1>1, <1>2

-----------------------------------------------------------------------------
(* The page and its stream. *)

\* What following a job does to them.
LEMMA FollowPage ==
  ASSUME NEW a, NEW s, NEW others, NEW w, Follow(a, s, others, w)
  PROVE  /\ cur' = a /\ status' = s
         /\ \A g \in gets' : g \in others \/ g = NewGet("final")
         /\ \/ a = cur /\ UNCHANGED <<cur, stream>>
            \/ /\ a # cur /\ chan' = <<>>
               /\ conn' = IF a = NoJob THEN "off" ELSE "ask"
               /\ a # NoJob => from' = w[a]
               /\ \A g \in gets' : g.kind # "resync"
<1>1. NewGet("final").kind = "final"
  BY NewGetType DEF GetKind
<1> QED
  BY <1>1 DEF Follow, Redirect, Surviving

\* Every step leaves the page and its stream in agreement.
LEMMA PageStep == ASSUME IInv, Next PROVE Page'
<1>0. /\ Page /\ PageTypes /\ NoJob \notin Job
      /\ \A kind \in GetKind : NewGet(kind).kind = kind
      /\ GetKind = {"resync", "poll", "pollDetail", "final", "load"}
  BY NewGetType DEF IInv, TypeOK, PageTypes, GetKind
<1>t. /\ cur \in Job \cup {NoJob} /\ posted \in Job \cup {NoJob} /\ gets \subseteq Get
      /\ wm \in [Job -> Index \cup {-1}]
  BY DEF IInv, TypeOK
<1>f. ASSUME NEW a \in Job \cup {NoJob}, NEW s, NEW others,
             others \subseteq gets \cup {NewGet("load")}, Follow(a, s, others, wm'),
             a = cur => wm' = wm \/ cur = NoJob
      PROVE  Page'
  <2>1. /\ cur' = a /\ \A g \in gets' : g \in gets \/ g.kind \in {"load", "final"}
        /\ \/ a = cur /\ UNCHANGED <<cur, stream>>
           \/ /\ a # cur /\ chan' = <<>>
              /\ conn' = IF a = NoJob THEN "off" ELSE "ask"
              /\ a # NoJob => from' = wm'[a]
              /\ \A g \in gets' : g.kind # "resync"
    BY <1>0, <1>f, FollowPage
  <2> QED
    BY <1>0, <1>f, <2>1 DEF Page, stream
<1>1. ASSUME NEW j \in Job,
             Create(j) \/ SkipIndex(j) \/ Persist(j) \/ EndRun(j) \/ Stop(j) \/ Leave(j) \/ Reap(j)
      PROVE  Page'
  <2>1. UNCHANGED <<store, stream, gets>>
    BY <1>1 DEF Create, SkipIndex, Persist, EndRun, Stop, Leave, Reap
  <2> QED
    BY <1>0, <2>1 DEF Page, store, stream
<1>2. ASSUME NEW j \in Job, Emit(j) \/ EmitTerminal(j)
      PROVE  Page'
  <2>1. UNCHANGED <<store, gets, conn, from>> /\ (chan' # <<>> => chan # <<>> \/ conn = "open")
    BY <1>2 DEF Emit, EmitTerminal, Publish, stream
  <2> QED
    BY <1>0, <2>1 DEF Page, store
<1>3. ASSUME NEW g \in gets, ReadMessages(g) \/ ReadActive(g) \/ ReadLast(g) PROVE Page'
  <2>1. TypeOK /\ \A j \in Job : Books(j)
    BY DEF IInv
  <2>2. /\ UNCHANGED <<store, stream>>
        /\ \E h : gets' = (gets \ {g}) \cup {h} /\ h.kind = g.kind
    BY <1>3, <2>1, ReadIs
  <2> QED
    BY <1>0, <2>2 DEF Page, store, stream
<1>4. ASSUME NEW g \in gets, ApplyPoll(g) PROVE Page'
  BY <1>0, <1>4 DEF ApplyPoll, Page, store, stream
<1>5. ASSUME NEW g \in gets, FailGet(g) PROVE Page'
  BY <1>0, <1>5 DEF FailGet, Page, store
<1>6. ASSUME NEW g \in gets, ApplyPollDetail(g) \/ ApplyFinal(g) PROVE Page'
  <2>1. g.active \in Job \cup {NoJob} /\ wm' = wm
    BY <1>6, <1>t DEF Get, ApplyPollDetail, ApplyFinal
  <2>2. CASE Follow(g.active, g.status, gets \ {g}, wm)
    BY <1>f, <2>1, <2>2
  <2>3. CASE gets' = gets \ {g} /\ UNCHANGED <<cur, stream>>
    BY <1>0, <2>1, <2>3 DEF Page, stream
  <2> QED
    BY <1>6, <2>2, <2>3 DEF ApplyPollDetail, ApplyFinal, Adopt
<1>7. ASSUME NEW g \in gets, ApplyResync(g) PROVE Page'
  <2>1. /\ g.active \in Job \cup {NoJob} /\ g.kind = "resync"
        /\ \A h \in gets \ {g} : h.kind # "resync"
        /\ cur \in Job
    BY <1>0, <1>7, <1>t DEF Get, ApplyResync, Page
  <2>2. CASE g.active = cur
    BY <1>7, <2>1, <2>2 DEF ApplyResync, Page
  <2>3. CASE g.active # cur
    <3>1. Follow(g.active, g.status, gets \ {g}, wm) /\ wm' = wm
      BY <1>7, <2>3 DEF ApplyResync, Adopt
    <3> QED
      BY <1>f, <2>1, <3>1
  <2> QED
    BY <2>2, <2>3
<1>8. ASSUME NEW g \in gets, ApplyLoad(g) PROVE Page'
  <2>1. g.active \in Job \cup {NoJob}
    BY <1>t DEF Get
  <2>2. CASE cur = NoJob
    <3>1. Follow(g.active, g.status, gets \ {g}, wm')
      BY <1>8, <2>2 DEF ApplyLoad, Adopt
    <3> QED
      BY <1>f, <2>1, <2>2, <3>1
  <2>3. CASE cur # NoJob
    <3>1. gets' = gets \ {g} /\ UNCHANGED <<cur, stream>>
      BY <1>8, <2>3 DEF ApplyLoad
    <3>2. wm'[cur] = wm[cur]
      BY <1>8, <1>t, <2>1, <2>3 DEF ApplyLoad, Seed
    <3> QED
      BY <1>0, <3>1, <3>2 DEF Page, stream
  <2> QED
    BY <2>2, <2>3
<1>9. CASE Accepted
  <2>1. wm' = wm /\ (Follow(posted, "streaming", gets, wm) \/ Follow(posted, "streaming", Refetched, wm))
    BY <1>9 DEF Accepted
  <2>2. Refetched \subseteq gets \cup {NewGet("load")}
    BY DEF Refetched
  <2> QED
    BY <1>f, <1>t, <2>1, <2>2
<1>10. CASE Subscribe
  BY <1>0, <1>10 DEF Subscribe, Page, store
<1>11. CASE Receive
  <2>1. chan # <<>> /\ conn = "open" /\ cur \in Job /\ \A g \in gets : g.kind # "resync"
    BY <1>0, <1>11 DEF Receive, Page
  <2>2. \/ conn' = "resync" /\ chan' = <<>> /\ gets' = gets \cup {NewGet("resync")} /\ cur' = cur
        \/ conn' = conn /\ gets' = gets /\ cur' = cur
        \/ Follow(NoJob, Head(chan).type, gets, wm)
    BY <1>11 DEF Receive, store
  <2>3. CASE Follow(NoJob, Head(chan).type, gets, wm)
    BY <1>0, <2>1, <2>3, FollowPage DEF Page
  <2>4. CASE conn' = "resync" /\ chan' = <<>> /\ gets' = gets \cup {NewGet("resync")} /\ cur' = cur
    BY <1>0, <2>1, <2>4 DEF Page
  <2>5. CASE conn' = conn /\ gets' = gets /\ cur' = cur
    BY <1>0, <2>1, <2>5 DEF Page
  <2> QED
    BY <2>2, <2>3, <2>4, <2>5
<1>12. CASE Drop \/ Reconnect
  BY <1>0, <1>12 DEF Drop, Reconnect, Page, store
<1>13. CASE PollTick \/ Focus \/ Send \/ Refused \/ FailPost
  <2>1. \A g \in gets' : g \in gets \/ g.kind # "resync"
    BY <1>0, <1>13 DEF PollTick, Focus, Send, Refused, FailPost, Refetched
  <2>2. UNCHANGED <<store, stream>>
    BY <1>13 DEF PollTick, Focus, Send, Refused, FailPost
  <2> QED
    BY <1>0, <2>1, <2>2 DEF Page, store, stream
<1>14. CASE Reload
  BY <1>0, <1>14 DEF Reload, Page
<1>15. CASE Restart
  <2>1. \A g \in gets' : g.kind = "load"
    BY <1>0, <1>15 DEF Restart
  <2> QED
    BY <1>0, <1>15, <2>1 DEF Restart, Page
<1> QED
  BY <1>1, <1>2, <1>3, <1>4, <1>5, <1>6, <1>7, <1>8, <1>9, <1>10, <1>11, <1>12, <1>13, <1>14, <1>15
  DEF Next, Answer, Apply

-----------------------------------------------------------------------------
(* The watermark. *)

\* Going behind a head the process has emitted keeps the watermark's promise.
LEMMA SeedCursor ==
  ASSUME TypeOK, NEW k \in Job, NEW head, head = -1 \/ head \in emitted[k], Seed(k, head),
         NEW j \in Job, Cursor(j), UNCHANGED <<bus, rows, running, owed>>
  PROVE  Cursor(j)'
<1>0. /\ emitted[k] \subseteq Index /\ emitted[j] \subseteq Index /\ wm[k] \in Index \cup {-1}
      /\ wm \in [Job -> Index \cup {-1}] /\ seen \in [Job -> SUBSET Index]
      /\ emitted' = emitted
  BY DEF TypeOK, bus
<1>1. CASE UNCHANGED <<wm, seen>>
  BY <1>1 DEF Cursor, LeftOver, bus, rows
<1>2. CASE head > wm[k] /\ j = k
  <2>1. /\ head \in emitted[j] /\ head \in Nat
        /\ wm'[j] = head /\ seen'[j] = seen[j] \cup (emitted[j] \cap 0 .. head)
    BY <1>0, <1>2 DEF Seed, Index
  <2>2. head \in seen'[j] /\ seen'[j] \subseteq emitted'[j]
    BY <1>0, <2>1 DEF Cursor
  <2>3. \A i \in emitted'[j] : i <= wm'[j] => i \in seen'[j]
    BY <1>0, <2>1 DEF Index
  <2> QED
    BY <2>1, <2>2, <2>3 DEF Cursor
<1>3. CASE head > wm[k] /\ j # k
  <2>1. wm'[j] = wm[j] /\ seen'[j] = seen[j]
    BY <1>0, <1>3 DEF Seed
  <2> QED
    BY <2>1 DEF Cursor, LeftOver, bus, rows
<1> QED
  BY <1>1, <1>2, <1>3 DEF Seed

\* The head of the stream is the next frame, and no other is between it and the
\* watermark.
LEMMA HeadOfChan ==
  ASSUME IInv, chan # <<>>
  PROVE  /\ conn = "open" /\ cur \in Job /\ chan \in Seq(Frame)
         /\ Len(chan) \in Nat /\ Len(chan) >= 1 /\ DOMAIN chan = 1 .. Len(chan)
         /\ Head(chan) = chan[1] /\ 1 \in DOMAIN chan
         /\ Head(chan).type # "resync" => InOrder /\ Complete
<1>1. chan \in Seq(Frame) /\ conn = "open" /\ cur \in Job
  BY DEF IInv, TypeOK, Page
<1>2. Len(chan) \in Nat /\ Len(chan) >= 1 /\ DOMAIN chan = 1 .. Len(chan) /\ Head(chan) = chan[1]
  BY <1>1, EmptySeq, LenProperties, HeadTailProperties
<1> QED
  BY <1>1, <1>2 DEF IInv, Carried, MarkerFirst

\* A watermark of a former process leaves one frame to come, of index 0.
LEMMA StaleCursor ==
  ASSUME IInv, NEW j \in Job, wm[j] \notin seen[j] \cup {-1}
  PROVE  emitted[j] \subseteq {0}
<1>1. LeftOver(j) /\ Books(j) /\ next[j] \in Nat /\ emitted[j] \subseteq Nat
  BY DEF IInv, Cursor, TypeOK, Index
<1>2. next[j] <= 1
  BY <1>1 DEF LeftOver
<1>3. \A i \in emitted[j] : i < next[j]
  BY <1>1 DEF Books
<1> QED
  BY <1>1, <1>2, <1>3

\* When a frame is applied, no unseen frame of a smaller index is left behind it.
LEMMA ReceiveCursor ==
  ASSUME IInv, chan # <<>>, Head(chan).type # "resync", Head(chan).index > wm[cur]
  PROVE  /\ Head(chan).index \in emitted[cur]
         /\ \A i \in emitted[cur] : i <= Head(chan).index =>
              i \in seen[cur] \cup {Head(chan).index}
<1> DEFINE x == Head(chan).index
<1>1. /\ cur \in Job /\ x \in emitted[cur] /\ emitted[cur] \subseteq Nat
      /\ \A a \in DOMAIN chan : chan[a].index >= x
      /\ Complete
  <2>1. /\ cur \in Job /\ InOrder /\ Complete /\ x = chan[1].index /\ 1 \in DOMAIN chan
        /\ DOMAIN chan = 1 .. Len(chan) /\ Len(chan) \in Nat
    BY HeadOfChan
  <2>2. x \in emitted[cur] /\ emitted[cur] \subseteq Nat
    <3>1. x \in emitted[cur]
      BY <2>1 DEF InOrder
    <3>2. emitted[cur] \subseteq Nat
      BY <2>1 DEF IInv, TypeOK, Index
    <3> QED
      BY <3>1, <3>2
  <2>3. ASSUME NEW a \in DOMAIN chan PROVE chan[a].index >= x
    <3>1. CASE a = 1
      BY <2>1, <2>2, <3>1
    <3>2. CASE a # 1
      <4>1. 1 < a
        BY <2>1, <3>2
      <4>2. x < chan[a].index /\ chan[a].index \in Nat
        BY <2>1, <2>2, <4>1 DEF InOrder
      <4> QED
        BY <2>2, <4>2
    <3> QED
      BY <3>1, <3>2
  <2> QED
    BY <2>1, <2>2, <2>3
<1> HIDE DEF x
<1>2. SUFFICES ASSUME NEW i \in emitted[cur], i <= x PROVE i \in seen[cur] \cup {x}
  BY <1>1 DEF x
<1>3. CASE wm[cur] \in seen[cur] \cup {-1}
  <2>1. i \in seen[cur] \/ \E a \in DOMAIN chan : chan[a].index = i
    BY <1>1, <1>3 DEF Complete, Underway
  <2> QED
    BY <1>1, <1>2, <2>1
<1>4. CASE wm[cur] \notin seen[cur] \cup {-1}
  BY <1>1, <1>4, StaleCursor
<1> QED
  BY <1>3, <1>4

\* The watermark keeps its promise in every step.
LEMMA CursorStep == ASSUME IInv, Next, NEW j \in Job PROVE Cursor(j)'
<1>0. /\ TypeOK /\ Cursor(j) /\ Books(j) /\ Unborn(j) /\ (LeftOver(j) => LeftOver(j)')
      /\ emitted \in [Job -> SUBSET Index] /\ seen \in [Job -> SUBSET Index]
      /\ wm \in [Job -> Index \cup {-1}] /\ -1 \notin Index
  <2>1. TypeOK /\ Cursor(j) /\ Books(j) /\ Unborn(j)
    BY DEF IInv
  <2>2. LeftOver(j) => LeftOver(j)'
    BY LeftOverStays
  <2>3. /\ emitted \in [Job -> SUBSET Index] /\ seen \in [Job -> SUBSET Index]
        /\ wm \in [Job -> Index \cup {-1}]
    BY <2>1 DEF TypeOK
  <2> QED
    BY <2>1, <2>2, <2>3 DEF Index
<1>q. ASSUME UNCHANGED <<wm, seen>>, UNCHANGED bus PROVE Cursor(j)'
  BY <1>0, <1>q DEF Cursor, bus
<1>1. ASSUME NEW k \in Job,
             Create(k) \/ Persist(k) \/ EndRun(k) \/ Stop(k) \/ Leave(k) \/ Reap(k)
      PROVE  Cursor(j)'
  BY <1>q, <1>1 DEF Create, Persist, EndRun, Stop, Leave, Reap, store
<1>2. ASSUME NEW k \in Job, SkipIndex(k) PROVE Cursor(j)'
  BY <1>0, <1>2 DEF SkipIndex, Cursor, store
<1>3. ASSUME NEW k \in Job, Emit(k) \/ EmitTerminal(k) PROVE Cursor(j)'
  <2>1. /\ UNCHANGED <<wm, seen>>
        /\ UNCHANGED bus \/ \E type \in {"data"} \cup Ended : Publish(k, type)
    BY <1>3 DEF Emit, EmitTerminal, store, IInv, OwedEnded
  <2>2. CASE \E type \in {"data"} \cup Ended : Publish(k, type)
    <3>1. emitted'[j] = emitted[j] \/ emitted'[j] = emitted[j] \cup {next[j]}
      BY <1>0, <2>2 DEF Publish
    <3>2. \A i \in seen[j] : i < next[j] /\ i \in Int
      BY <1>0 DEF Cursor, Books, Index
    <3>3. next[j] \in Int
      BY <1>0 DEF TypeOK, Index
    <3>4. ASSUME wm[j] \in seen[j], NEW i \in emitted'[j], i <= wm[j] PROVE i \in seen[j]
      BY <1>0, <3>1, <3>2, <3>3, <3>4 DEF Cursor
    <3> QED
      BY <1>0, <2>1, <3>1, <3>4 DEF Cursor
  <2> QED
    BY <1>q, <2>1, <2>2
<1>4. ASSUME NEW g \in gets,
             \/ ReadMessages(g) \/ ReadActive(g) \/ ReadLast(g) \/ ApplyPoll(g)
             \/ ApplyPollDetail(g) \/ ApplyFinal(g) \/ FailGet(g)
      PROVE  Cursor(j)'
  BY <1>q, <1>4 DEF Query, ReadMessages, ReadActive, ReadLast, ApplyPoll, FailGet, ApplyPollDetail,
                    ApplyFinal, store
<1>h. ASSUME NEW g \in gets, g.active \in Job
      PROVE  g.head = -1 \/ g.head \in emitted[g.active]
  BY DEF IInv, Heads
<1>5. ASSUME NEW g \in gets, ApplyLoad(g) PROVE Cursor(j)'
  <2>1. UNCHANGED <<bus, rows, running, owed>>
    BY <1>5 DEF ApplyLoad
  <2>2. g.active \in Job \cup {NoJob}
    BY DEF IInv, TypeOK, Get
  <2> QED
    BY <1>0, <1>q, <1>h, <1>5, <2>1, <2>2, SeedCursor DEF ApplyLoad
<1>6. ASSUME NEW g \in gets, ApplyResync(g) PROVE Cursor(j)'
  <2>1. UNCHANGED <<bus, rows, running, owed>> /\ cur \in Job
    BY <1>6 DEF ApplyResync, IInv, Page
  <2>2. CASE g.active # cur
    BY <1>q, <1>6, <2>1, <2>2 DEF ApplyResync
  <2>3. CASE g.active = cur /\ g.head >= 0
    BY <1>0, <1>h, <1>6, <2>1, <2>3, SeedCursor DEF ApplyResync
  <2>4. CASE g.active = cur /\ ~(g.head >= 0)
    <3>1. wm' = [wm EXCEPT ![cur] = -1] /\ UNCHANGED seen
      BY <1>6, <2>4 DEF ApplyResync
    <3>2. CASE j = cur
      BY <1>0, <2>1, <3>1, <3>2 DEF Cursor, bus
    <3>3. CASE j # cur
      BY <1>0, <2>1, <3>1, <3>3 DEF Cursor, bus
    <3> QED
      BY <3>2, <3>3
  <2> QED
    BY <2>2, <2>3, <2>4
<1>7. CASE Send \/ Accepted \/ Refused \/ FailPost \/ Subscribe \/ Drop \/ Reconnect \/ PollTick \/ Focus
  BY <1>q, <1>7 DEF Send, Accepted, Refused, FailPost, Subscribe, Drop, Reconnect, PollTick, Focus,
                    store
<1>8. CASE Receive
  <2>0. UNCHANGED bus /\ chan # <<>> /\ cur \in Job
    BY <1>8, HeadOfChan DEF Receive
  <2>1. CASE UNCHANGED <<wm, seen>>
    BY <1>q, <2>0, <2>1
  <2>2. CASE ~UNCHANGED <<wm, seen>>
    <3>1. /\ Head(chan).type # "resync" /\ Head(chan).index > wm[cur]
          /\ wm' = [wm EXCEPT ![cur] = Head(chan).index]
          /\ seen' = [seen EXCEPT ![cur] = @ \cup {Head(chan).index}]
      BY <1>8, <2>2 DEF Receive, store
    <3>2. CASE j = cur
      BY <1>0, <2>0, <3>1, <3>2, ReceiveCursor DEF Cursor, bus
    <3>3. CASE j # cur
      BY <1>0, <2>0, <3>1, <3>3 DEF Cursor, bus
    <3> QED
      BY <3>2, <3>3
  <2> QED
    BY <2>1, <2>2
<1>9. CASE Reload
  BY <1>0, <1>9 DEF Reload, Cursor, bus
<1>10. CASE Restart
  <2>1. seen'[j] = {} /\ emitted'[j] = {} /\ wm'[j] = wm[j]
    BY <1>10 DEF Restart
  <2>2. ASSUME wm[j] # -1 PROVE LeftOver(j)'
    BY <1>0, <1>10, <2>2 DEF Restart, LeftOver, Unborn, rows
  <2> QED
    BY <2>1, <2>2 DEF Cursor
<1> QED
  BY <1>1, <1>2, <1>3, <1>4, <1>5, <1>6, <1>7, <1>8, <1>9, <1>10 DEF Next, Answer, Apply

-----------------------------------------------------------------------------
(* What an open stream carries. *)

\* A new frame goes to the end of the open stream of its job.
LEMMA PublishCarried ==
  ASSUME IInv, NEW j \in Job, NEW type \in {"data"} \cup Ended, Publish(j, type),
         UNCHANGED store, conn' = "open"
  PROVE  MarkerFirst' \/ (InOrder /\ Complete)'
<1> DEFINE f == [index |-> next[j], type |-> type]
<1>0. /\ conn = "open" /\ cur \in Job /\ chan \in Seq(Frame) /\ Books(j)
      /\ MarkerFirst \/ (InOrder /\ Complete)
      /\ emitted \in [Job -> SUBSET Index] /\ next[j] \in Int
      /\ UNCHANGED <<cur, wm, seen>>
      /\ emitted' = [emitted EXCEPT ![j] = @ \cup {next[j]}]
  BY DEF Publish, IInv, TypeOK, Page, Carried, store, Index
<1>1. CASE cur # j
  <2>1. chan' = chan /\ emitted'[cur] = emitted[cur]
    BY <1>0, <1>1 DEF Publish
  <2> QED
    BY <1>0, <2>1 DEF MarkerFirst, InOrder, Complete, Underway
<1>2. CASE cur = j
  <2>1. /\ chan' = Append(chan, f) /\ f \in Frame /\ f.index = next[j] /\ f.type # "resync"
        /\ emitted'[cur] = emitted[cur] \cup {next[j]}
    <3>1. next[j] \in Index
      BY DEF IInv, TypeOK
    <3>2. f \in Frame /\ f.index = next[j] /\ f.type # "resync"
      BY <3>1 DEF Frame, FrameType, Ended
    <3> QED
      BY <1>0, <1>2, <3>2 DEF Publish
  <2> HIDE DEF f
  <2>2. /\ chan' \in Seq(Frame) /\ Len(chan') = Len(chan) + 1 /\ Len(chan) \in Nat
        /\ chan'[Len(chan) + 1] = f
        /\ \A a \in 1 .. Len(chan) : chan'[a] = chan[a]
    BY <1>0, <2>1, AppendProperties, LenProperties
  <2>3. DOMAIN chan = 1 .. Len(chan) /\ DOMAIN chan' = 1 .. Len(chan) + 1
    BY <1>0, <2>2, LenProperties
  <2>4. CASE MarkerFirst
    <3>1. 1 \in 1 .. Len(chan)
      BY <1>0, <2>2, <2>3, <2>4, EmptySeq DEF MarkerFirst
    <3>2. chan' # <<>> /\ chan'[1] = chan[1]
      BY <2>1, <2>2, <3>1, EmptySeq
    <3> QED
      BY <2>4, <3>2 DEF MarkerFirst
  <2>5. CASE InOrder /\ Complete
    <3>1. \A i \in emitted[cur] : i \in Int /\ i < next[j]
      BY <1>0, <1>2 DEF Books, Index
    <3>2. ASSUME NEW a \in DOMAIN chan', NEW b \in DOMAIN chan', a < b
          PROVE  chan'[a].index < chan'[b].index
      <4>1. a \in 1 .. Len(chan) /\ chan'[a] = chan[a]
        BY <2>2, <2>3, <3>2
      <4>2. CASE b = Len(chan) + 1
        BY <2>1, <2>2, <2>3, <2>5, <3>1, <4>1, <4>2 DEF InOrder
      <4>3. CASE b # Len(chan) + 1
        <5>1. b \in 1 .. Len(chan) /\ chan'[b] = chan[b]
          BY <2>2, <2>3, <4>3
        <5> QED
          BY <2>3, <2>5, <3>2, <4>1, <5>1 DEF InOrder
      <4> QED
        BY <4>2, <4>3
    <3>3. ASSUME NEW a \in DOMAIN chan'
          PROVE  chan'[a].index \in emitted'[cur] /\ chan'[a].type # "resync"
      <4>1. CASE a = Len(chan) + 1
        BY <2>1, <2>2, <4>1
      <4>2. CASE a # Len(chan) + 1
        <5>1. a \in 1 .. Len(chan) /\ chan'[a] = chan[a]
          BY <2>2, <2>3, <4>2
        <5> QED
          BY <2>1, <2>3, <2>5, <5>1 DEF InOrder
      <4> QED
        BY <4>1, <4>2
    <3>4. Underway \cup {next[j]} \subseteq Underway'
      <4>1. \A a \in DOMAIN chan : a \in DOMAIN chan' /\ chan'[a] = chan[a]
        BY <2>2, <2>3
      <4>2. Len(chan) + 1 \in DOMAIN chan' /\ chan'[Len(chan) + 1].index = next[j]
        BY <2>1, <2>2, <2>3
      <4> QED
        BY <4>1, <4>2 DEF Underway
    <3>5. Complete'
      BY <1>0, <2>1, <2>5, <3>4 DEF Complete
    <3>6. InOrder'
      BY <1>0, <3>2, <3>3 DEF InOrder
    <3> QED
      BY <3>5, <3>6
  <2> QED
    BY <1>0, <2>4, <2>5
<1> QED
  BY <1>1, <1>2

\* What bus.subscribe replays continues what its reader has seen.
LEMMA SubscribeCarried ==
  ASSUME IInv, Subscribe
  PROVE  MarkerFirst' \/ (InOrder /\ Complete)'
<1> DEFINE q == ring[cur]
<1>0. /\ cur \in Job /\ q \in Seq(Frame) /\ Books(cur) /\ Cursor(cur) /\ from = wm[cur]
      /\ emitted[cur] \subseteq Nat /\ from \in Int
      /\ UNCHANGED <<cur, wm, seen, emitted>>
      /\ Len(q) \in Nat /\ DOMAIN q = 1 .. Len(q)
      /\ \A a \in DOMAIN q : q[a] \in Frame
  BY LenProperties DEF Subscribe, IInv, TypeOK, Page, Index, store, bus
<1>1. CASE chan' = <<Marker(from)>>
  BY <1>1 DEF MarkerFirst, Marker
<1>2. ASSUME ~NeedsResync(q, from), NEW k \in 0 .. Len(q),
             \A n \in DOMAIN q : q[n].index > from <=> n > k,
             chan' = SubSeq(q, k + 1, Len(q))
      PROVE  (InOrder /\ Complete)'
  <2>1. DOMAIN chan' = 1 .. Len(q) - k /\ \A i \in 1 .. Len(q) - k : chan'[i] = q[k + i]
    <3>1. q \in Seq(Frame) /\ chan' = SubSeq(q, k + 1, Len(q))
      BY <1>0, <1>2
    <3> HIDE DEF q
    <3> QED
      BY <3>1, Suffix
  <2>2. \A i \in DOMAIN chan' : k + i \in DOMAIN q /\ chan'[i] = q[k + i] /\ i \in Int
    BY <1>0, <2>1
  <2>3. k \in Int
    OBVIOUS
  <2>4. InOrder'
    <3>1. ASSUME NEW a \in DOMAIN chan', NEW b \in DOMAIN chan', a < b
          PROVE  chan'[a].index < chan'[b].index
      <4>1. k + a < k + b
        BY <2>2, <2>3, <3>1
      <4> QED
        BY <1>0, <2>2, <4>1 DEF Books
    <3>2. \A a \in DOMAIN chan' : chan'[a].index \in emitted'[cur] /\ chan'[a].type # "resync"
      BY <1>0, <2>2 DEF Books
    <3> QED
      BY <1>0, <3>1, <3>2 DEF InOrder
  <2>5. ASSUME wm[cur] \in seen[cur] \cup {-1}, NEW i \in emitted[cur], i \notin seen[cur]
        PROVE  \E n \in DOMAIN chan' : chan'[n].index = i
    <3>1. i > from /\ i \in Nat
      BY <1>0, <2>5 DEF Cursor
    <3>2. q # <<>> /\ q[1].index <= from + 1
      <4>1. q # <<>>
        BY <1>0, <2>5 DEF Books
      <4>2. ~(q[1].index > from + 1) /\ 1 \in DOMAIN q
        BY <1>0, <1>2, <4>1, EmptySeq DEF NeedsResync
      <4>3. q[1].index \in Int
        BY <1>0, <4>2 DEF Frame, Index
      <4> QED
        BY <1>0, <4>1, <4>2, <4>3
    <3>3. 1 \in DOMAIN q /\ q[1].index \in Int
      <4>1. 1 \in DOMAIN q
        BY <1>0, <3>2, EmptySeq
      <4> QED
        BY <1>0, <4>1 DEF Frame, Index
    <3>4. i >= q[1].index
      BY <1>0, <3>1, <3>2, <3>3
    <3>5. PICK n \in DOMAIN q : q[n].index = i
      BY <1>0, <2>5, <3>4 DEF Books
    <3>6. n > k
      BY <1>2, <3>1, <3>5
    <3>7. n - k \in 1 .. Len(q) - k /\ k + (n - k) = n
      BY <1>0, <3>6
    <3> QED
      BY <2>1, <3>5, <3>7
  <2>6. Complete'
    BY <1>0, <2>5 DEF Complete, Underway
  <2> QED
    BY <2>4, <2>6
<1> QED
  BY <1>1, <1>2 DEF Subscribe

\* The rest of the stream goes on where the message handled leaves off.
LEMMA ReceiveCarried ==
  ASSUME IInv, Receive, conn' = "open"
  PROVE  (InOrder /\ Complete)'
<1> DEFINE x == Head(chan).index
<1>0. /\ chan # <<>> /\ conn = "open" /\ cur \in Job /\ chan \in Seq(Frame) /\ Len(chan) \in Nat
      /\ DOMAIN chan = 1 .. Len(chan) /\ Head(chan) = chan[1] /\ 1 \in DOMAIN chan
      /\ wm \in [Job -> Index \cup {-1}] /\ seen \in [Job -> SUBSET Index]
      /\ emitted[cur] \subseteq Nat /\ Cursor(cur)
      /\ emitted' = emitted
  <2>1. chan # <<>> /\ emitted' = emitted
    BY DEF Receive, bus
  <2> QED
    BY <2>1, HeadOfChan DEF IInv, TypeOK, Index
<1>1. Head(chan).type # "resync" /\ chan' = Tail(chan) /\ cur' = cur
  <2>1. Follow(NoJob, Head(chan).type, gets, wm) => conn' # "open"
    BY <1>0, StreamAssumption, FollowPage
  <2> QED
    BY <2>1 DEF Receive, store
<1>2. InOrder /\ Complete
  BY <1>0, <1>1, HeadOfChan
<1>3. /\ chan' \in Seq(Frame) /\ Len(chan') = Len(chan) - 1 /\ DOMAIN chan' = 1 .. Len(chan) - 1
      /\ \A a \in 1 .. Len(chan) - 1 : chan'[a] = chan[a + 1]
  <2>1. chan' \in Seq(Frame) /\ Len(chan') = Len(chan) - 1
        /\ \A a \in 1 .. Len(chan) - 1 : chan'[a] = chan[a + 1]
    BY <1>0, <1>1, HeadTailProperties
  <2> QED
    BY <2>1, LenProperties
<1>4. \A a \in DOMAIN chan' : a \in Int /\ a + 1 \in DOMAIN chan /\ chan'[a] = chan[a + 1]
  BY <1>0, <1>3
<1>5. InOrder'
  <2>1. ASSUME NEW a \in DOMAIN chan', NEW b \in DOMAIN chan', a < b
        PROVE  chan'[a].index < chan'[b].index
    <3>1. a + 1 < b + 1
      BY <1>4, <2>1
    <3> QED
      BY <1>2, <1>4, <3>1 DEF InOrder
  <2>2. \A a \in DOMAIN chan' : chan'[a].index \in emitted'[cur] /\ chan'[a].type # "resync"
    BY <1>0, <1>2, <1>4 DEF InOrder
  <2> QED
    BY <1>1, <2>1, <2>2 DEF InOrder
<1>6. Underway \subseteq Underway' \cup {x}
  <2> SUFFICES ASSUME NEW a \in DOMAIN chan, a # 1 PROVE chan[a].index \in Underway'
    BY <1>0 DEF Underway
  <2>1. a - 1 \in DOMAIN chan' /\ chan'[a - 1] = chan[a]
    BY <1>0, <1>3
  <2> QED
    BY <2>1 DEF Underway
<1>7. x \in emitted[cur] /\ x \in Nat
  BY <1>0, <1>2 DEF InOrder
<1> HIDE DEF x
<1>8. CASE x <= wm[cur]
  <2>1. UNCHANGED <<wm, seen>>
    <3>1. wm[cur] \in Int
      BY <1>0 DEF Index
    <3> QED
      BY <1>1, <1>7, <1>8, <3>1 DEF Receive, store, x
  <2>2. ASSUME wm[cur] \in seen[cur] \cup {-1} PROVE x \in seen[cur]
    BY <1>0, <1>7, <1>8, <2>2 DEF Cursor
  <2> QED
    BY <1>0, <1>1, <1>2, <1>5, <1>6, <2>1, <2>2 DEF Complete
<1>9. CASE ~(x <= wm[cur])
  <2>1. /\ wm' = [wm EXCEPT ![cur] = x] /\ seen' = [seen EXCEPT ![cur] = @ \cup {x}]
    BY <1>1, <1>9 DEF Receive, x
  <2>2. wm'[cur] = x /\ seen'[cur] = seen[cur] \cup {x}
    BY <1>0, <2>1
  <2>3. emitted[cur] \subseteq seen'[cur] \cup Underway'
    <3>1. CASE wm[cur] \in seen[cur] \cup {-1}
      BY <1>2, <1>6, <2>2, <3>1 DEF Complete
    <3>2. CASE wm[cur] \notin seen[cur] \cup {-1}
      BY <1>0, <1>7, <2>2, <3>2, StaleCursor
    <3> QED
      BY <3>1, <3>2
  <2> QED
    BY <1>0, <1>1, <1>5, <2>2, <2>3 DEF Complete
<1> QED
  BY <1>8, <1>9

\* Every step leaves a stream that is open complete.
LEMMA CarriedStep == ASSUME IInv, Next PROVE Carried'
<1> SUFFICES ASSUME conn' = "open" PROVE MarkerFirst' \/ (InOrder /\ Complete)'
  BY DEF Carried
<1>0. /\ Page /\ Carried /\ PageTypes /\ NoJob \notin Job
  BY DEF IInv, TypeOK, PageTypes
<1>q. ASSUME UNCHANGED <<cur, conn, chan, emitted>>, wm'[cur] = wm[cur], seen'[cur] = seen[cur]
      PROVE  MarkerFirst' \/ (InOrder /\ Complete)'
  BY <1>0, <1>q DEF Carried, MarkerFirst, InOrder, Complete, Underway
<1>f. ASSUME NEW a, NEW s, NEW others, NEW w, Follow(a, s, others, w)
      PROVE  a = cur /\ UNCHANGED <<cur, stream>>
  BY <1>f, FollowPage
<1>1. ASSUME NEW j \in Job,
             Create(j) \/ SkipIndex(j) \/ Persist(j) \/ EndRun(j) \/ Stop(j) \/ Leave(j) \/ Reap(j)
      PROVE  MarkerFirst' \/ (InOrder /\ Complete)'
  BY <1>q, <1>1 DEF Create, SkipIndex, Persist, EndRun, Stop, Leave, Reap, bus, store, stream
<1>2. ASSUME NEW j \in Job, Emit(j) \/ EmitTerminal(j)
      PROVE  MarkerFirst' \/ (InOrder /\ Complete)'
  <2>1. /\ UNCHANGED store
        /\ (UNCHANGED <<bus, stream>>) \/ \E type \in {"data"} \cup Ended : Publish(j, type)
    BY <1>2 DEF Emit, EmitTerminal, IInv, OwedEnded
  <2>2. CASE UNCHANGED <<bus, stream>>
    BY <1>q, <2>1, <2>2 DEF bus, store, stream
  <2>3. CASE \E type \in {"data"} \cup Ended : Publish(j, type)
    BY <2>1, <2>3, PublishCarried
  <2> QED
    BY <2>1, <2>2, <2>3
<1>3. ASSUME NEW g \in gets, ReadMessages(g) \/ ReadActive(g) \/ ReadLast(g) \/ ApplyPoll(g)
      PROVE  MarkerFirst' \/ (InOrder /\ Complete)'
  BY <1>q, <1>3 DEF Query, ReadMessages, ReadActive, ReadLast, ApplyPoll, bus, store, stream
<1>4. ASSUME NEW g \in gets, FailGet(g)
      PROVE  MarkerFirst' \/ (InOrder /\ Complete)'
  BY <1>q, <1>4 DEF FailGet, bus, store
<1>5. ASSUME NEW g \in gets, ApplyPollDetail(g) \/ ApplyFinal(g)
      PROVE  MarkerFirst' \/ (InOrder /\ Complete)'
  BY <1>q, <1>f, <1>5 DEF ApplyPollDetail, ApplyFinal, Adopt, bus, stream
<1>6. ASSUME NEW g \in gets, ApplyResync(g) PROVE FALSE
  BY <1>f, <1>6 DEF ApplyResync, Adopt, Page, IInv
<1>7. ASSUME NEW g \in gets, ApplyLoad(g)
      PROVE  MarkerFirst' \/ (InOrder /\ Complete)'
  <2>1. UNCHANGED <<cur, stream, bus>>
    BY <1>f, <1>7 DEF ApplyLoad, Adopt
  <2>2. cur \in Job
    BY <1>0, <2>1 DEF Page, stream
  <2>3. wm'[cur] = wm[cur] /\ seen'[cur] = seen[cur]
    BY <1>0, <1>7, <2>2 DEF ApplyLoad, Seed, PageTypes
  <2> QED
    BY <1>q, <2>1, <2>3 DEF stream, bus
<1>8. CASE Accepted
  BY <1>q, <1>f, <1>8 DEF Accepted, bus, stream
<1>9. CASE Subscribe
  BY <1>9, SubscribeCarried
<1>10. CASE Receive
  BY <1>10, ReceiveCarried
<1>11. CASE PollTick \/ Focus \/ Send \/ Refused \/ FailPost
  BY <1>q, <1>11 DEF PollTick, Focus, Send, Refused, FailPost, bus, store, stream
<1>12. ASSUME Drop \/ Reconnect \/ Reload \/ Restart PROVE FALSE
  BY <1>12 DEF Drop, Reconnect, Reload, Restart
<1> QED
  BY <1>1, <1>2, <1>3, <1>4, <1>5, <1>6, <1>7, <1>8, <1>9, <1>10, <1>11, <1>12
  DEF Next, Answer, Apply

-----------------------------------------------------------------------------
(* The theorems. *)

\* The invariant holds at first ...
LEMMA InitIInv == Init => IInv
<1> SUFFICES ASSUME Init PROVE IInv
  OBVIOUS
<1>1. /\ <<>> \in Seq(Frame) /\ Len(<<>>) = 0 /\ DOMAIN <<>> = {} /\ 0 \in Index
      /\ NewGet("load") \in Get /\ NewGet("load").active = NoJob /\ NewGet("load").head = -1
      /\ NewGet("load").kind = "load"
  BY EmptySeq, NewGetType DEF Index, GetKind
<1>2. TypeOK
  <2>1. used \in [Mishap -> Nat]
    BY DEF Init
  <2>2. shown \subseteq Job /\ outdated \in BOOLEAN /\ sending \in BOOLEAN
    BY DEF Init
  <2> QED
    BY <1>1, <2>1, <2>2 DEF Init, TypeOK, Conn, Status
<1>3. \A j \in Job : Books(j) /\ Cursor(j) /\ Unborn(j)
  BY <1>1 DEF Init, Books, Cursor, Unborn
<1>4. OwedEnded /\ Heads /\ Page /\ Carried
  BY <1>1 DEF Init, OwedEnded, Heads, Page, Carried
<1> QED
  BY <1>2, <1>3, <1>4 DEF IInv

\* ... is kept by every step ...
LEMMA StepIInv == IInv /\ [Next]_vars => IInv'
<1> SUFFICES ASSUME IInv, [Next]_vars PROVE IInv'
  OBVIOUS
<1>1. CASE Next
  <2>1. TypeOK /\ OwedEnded /\ Page /\ \A j \in Job : Books(j)
    BY DEF IInv
  <2>2. BusOK' /\ JobTypes' /\ UsedTypes' /\ PostTypes' /\ PageTypes' /\ ShownTypes'
    BY <1>1, <2>1, BusStep, JobTypesStep, UsedTypesStep, PostTypesStep, PageTypesStep, ShownTypesStep
  <2>3. TypeOK'
    BY <2>2 DEF TypeOK, BusOK, JobTypes, UsedTypes, PostTypes, PageTypes, ShownTypes
  <2>4. ASSUME NEW j \in Job PROVE (Books(j) /\ Cursor(j) /\ Unborn(j))'
    BY <1>1, <2>2, CursorStep, UnbornStep DEF BusOK
  <2>5. OwedEnded' /\ Heads' /\ Page' /\ Carried'
    BY <1>1, OwedStep, HeadsStep, PageStep, CarriedStep
  <2> QED
    BY <2>3, <2>4, <2>5 DEF IInv
<1>2. CASE UNCHANGED vars
  BY <1>2 DEF vars, rows, bus, post, store, stream, IInv, TypeOK, Books, Cursor, LeftOver, Unborn,
              OwedEnded, Heads, Page, Carried, MarkerFirst, InOrder, Complete, Underway
<1> QED
  BY <1>1, <1>2

\* ... and says that nothing is skipped.
LEMMA IInvSkipsNothing == IInv => NoSilentSkip
<1> SUFFICES ASSUME IInv, NEW j \in Job, cur = j, conn = "open", wm[j] \in seen[j] \cup {-1}
             PROVE  Followed(j)
  BY DEF NoSilentSkip
<1>1. CASE MarkerFirst
  <2>1. 1 \in DOMAIN chan
    BY <1>1, HeadOfChan DEF MarkerFirst
  <2> QED
    BY <1>1, <2>1 DEF Followed, ResyncUnderway, MarkerFirst
<1>2. CASE Complete
  BY <1>2 DEF Complete, Followed
<1> QED
  BY <1>1, <1>2 DEF IInv, Carried

\* The watermark, the ring and the stream belong together in every reachable state.
THEOREM StreamInvariant == Spec => []IInv
<1> QED
  BY InitIInv, StepIInv, PTL DEF Spec

\* Every variable has its type.
THEOREM StreamTypeCorrect == Spec => []TypeOK
<1>1. IInv => TypeOK
  BY DEF IInv
<1> QED
  BY <1>1, StreamInvariant, PTL

\* bus.subscribe and the page's watermark: whatever the ring dropped, a page that
\* follows a job misses none of its frames without being told.
THEOREM NothingSkipped == Spec => []NoSilentSkip
<1> QED
  BY IInvSkipsNothing, StreamInvariant, PTL

-----------------------------------------------------------------------------
(* The page at rest. *)

\* No request failed or was cut off; nobody ended a run, no answer was outdated, and
\* no message was sent by a page that is gone.
Calm    == used["errors"] = 0 /\ used["restarts"] = 0
Settled == used["stops"] = 0 /\ ~outdated /\ orphans = {}

\* A refetch is under way that will not leave the page as it is, or that brings
\* all there is.
Fetches(g) == g.kind \in {"final", "load"}
Looks(g)   == Fetches(g) /\ ("active" \notin g.read \/ g.active # NoJob)
Brings(g)  == Fetches(g) /\ ("messages" \notin g.read \/ g.messages = persisted)
Looking    == \E g \in gets : Looks(g)
Knows      == \E g \in gets : Brings(g)

RunsActive == Calm /\ used["stops"] = 0 => \A j \in running : row[j] = "active"

\* What requests have read.
Reads ==
  \A g \in gets :
    /\ g.messages \subseteq persisted
    /\ g.active # NoJob => "active" \in g.read
    /\ "last" \in g.read =>
         /\ g.read = Queries /\ g.status # "loading"
         /\ g.status = "streaming" <=> g.active # NoJob

\* The page streams exactly while it follows a job, and polls only then.
Streaming ==
  /\ cur # NoJob <=> status = "streaming"
  /\ \A g \in gets : g.kind \in {"poll", "pollDetail"} => status = "streaming"

First == latest = NoJob => \A j \in Job : row[j] = "none"

\* A page that follows nothing, and is not misled, has a refetch under way or is right.
Home   == Looking \/ (Active \subseteq orphans /\ (Settled => shown = persisted \/ Knows))
Homing == Calm /\ cur = NoJob /\ posted = NoJob /\ ~Misled => Home

HInv == IInv /\ RunsActive /\ Reads /\ Streaming /\ First /\ Homing

\* What happened has happened.
LEMMA HistoryGrows ==
  ASSUME TypeOK, Next
  PROVE  /\ Calm' => Calm
         /\ Settled' => Settled
         /\ used'["stops"] = 0 => used["stops"] = 0
<1>1. ASSUME NEW b \in Mishap, Use(b)
      PROVE  \A c \in Mishap : used'[c] = 0 => used[c] = 0
  BY <1>1 DEF Use, TypeOK
<1>2. \A c \in {"errors", "restarts", "stops"} : used'[c] = 0 => used[c] = 0
  BY <1>1, UsedShape DEF Mishap
<1>3. outdated => outdated'
  BY PageShape DEF Show, ReadActive
<1>4. orphans \subseteq orphans'
  <2>1. ASSUME NEW j \in Job,
               \/ Create(j) \/ Emit(j) \/ SkipIndex(j) \/ Persist(j) \/ EndRun(j)
               \/ Stop(j) \/ Leave(j) \/ Reap(j) \/ EmitTerminal(j)
        PROVE  orphans \subseteq orphans'
    BY <2>1 DEF Create, Emit, SkipIndex, Persist, EndRun, Stop, Leave, Reap, EmitTerminal, post
  <2>2. ASSUME PageActs \/ Restart
        PROVE  orphans \subseteq orphans'
    BY <2>2 DEF PageActs, Send, Accepted, Refused, FailPost, Subscribe, Receive, Drop, Reconnect,
                PollTick, Focus, Reload, Restart, post
  <2> QED
    BY <2>1, <2>2, Bystanders DEF Next, PageActs, post
<1> QED
  BY <1>2, <1>3, <1>4 DEF Calm, Settled

\* A failure or a restart is the end of the calm.
LEMMA CalmEnds ==
  ASSUME TypeOK, NEW b \in {"errors", "restarts", "stops"}, Use(b)
  PROVE  used'[b] # 0
BY DEF Use, TypeOK, Mishap

LEMMA RunsActiveStep ==
  ASSUME TypeOK, RunsActive, Next
  PROVE  RunsActive'
<1> SUFFICES ASSUME Calm', used'["stops"] = 0, NEW i \in running' PROVE row'[i] = "active"
  BY DEF RunsActive
<1>0. \A j \in running : row[j] = "active"
  BY HistoryGrows DEF RunsActive
<1>1. ASSUME NEW j \in Job, Create(j)
      PROVE  row'[i] = "active"
  <2>1. /\ row' = [row EXCEPT ![j] = "active"] /\ running' = running \cup {j}
        /\ DOMAIN row = Job /\ running \subseteq Job
    BY <1>1 DEF Create, TypeOK
  <2> QED
    BY <1>0, <2>1
<1>2. ASSUME NEW j \in Job, Persist(j) \/ Leave(j) \/ SkipIndex(j) \/ Emit(j) \/ EmitTerminal(j)
      PROVE  row'[i] = "active"
  <2>1. UNCHANGED row /\ running' \subseteq running
    BY <1>2 DEF Persist, Leave, SkipIndex, Emit, EmitTerminal, rows
  <2> QED
    BY <1>0, <2>1
<1>3. ASSUME NEW j \in Job, EndRun(j) \/ Reap(j)
      PROVE  row'[i] = "active"
  BY <1>0, <1>3 DEF TypeOK, EndRun, Reap
<1>4. ASSUME NEW j \in Job, Stop(j)
      PROVE  FALSE
  BY <1>4, CalmEnds DEF Stop
<1>5. CASE Restart
  BY <1>5 DEF Restart
<1>6. ASSUME UNCHANGED <<rows, running>>
      PROVE  row'[i] = "active"
  BY <1>0, <1>6 DEF rows
<1> QED
  BY <1>1, <1>2, <1>3, <1>4, <1>5, <1>6, Bystanders DEF Next, PageActs

\* What was persisted stays.
LEMMA PersistedGrows ==
  ASSUME Next
  PROVE  persisted \subseteq persisted'
<1>1. ASSUME NEW j \in Job,
             \/ Create(j) \/ Emit(j) \/ SkipIndex(j) \/ Persist(j) \/ EndRun(j)
             \/ Stop(j) \/ Leave(j) \/ Reap(j) \/ EmitTerminal(j)
      PROVE  persisted \subseteq persisted'
  BY <1>1 DEF Create, Emit, SkipIndex, Persist, EndRun, Stop, Leave, Reap, EmitTerminal, rows
<1>2. Restart => UNCHANGED persisted
  BY DEF Restart, rows
<1> QED
  BY <1>1, <1>2, Bystanders DEF Next, PageActs, rows

\* The requests after a step: those before it, those that are new, and one of
\* which the server has read more.
LEMMA ReadsStep ==
  ASSUME IInv, Reads, Next
  PROVE  Reads'
<1> SUFFICES ASSUME NEW h \in gets'
             PROVE  /\ h.messages \subseteq persisted'
                    /\ h.active # NoJob => "active" \in h.read
                    /\ "last" \in h.read =>
                         /\ h.read = Queries /\ h.status # "loading"
                         /\ h.status = "streaming" <=> h.active # NoJob
  BY DEF Reads
<1>0. TypeOK /\ \A j \in Job : Books(j)
  BY DEF IInv
<1>1. CASE h \in gets
  BY <1>1, PersistedGrows DEF Reads
<1>2. ASSUME NEW kind \in GetKind, h = NewGet(kind)
      PROVE  h.messages = {} /\ h.active = NoJob /\ h.read = {}
  BY <1>2, NewGetType
<1>3. ASSUME NEW g \in gets, ReadMessages(g) \/ ReadActive(g) \/ ReadLast(g), h \notin gets
      PROVE  /\ h.messages \subseteq persisted'
             /\ h.active # NoJob => "active" \in h.read
             /\ "last" \in h.read =>
                  /\ h.read = Queries /\ h.status # "loading"
                  /\ h.status = "streaming" <=> h.active # NoJob
  <2>1. /\ UNCHANGED persisted
        /\ GotMessages(g, h) \/ GotActive(g, h) \/ GotLast(g, h)
    BY <1>0, <1>3, ReadIs DEF rows
  <2>2. /\ g.messages \subseteq persisted
        /\ g.active # NoJob => "active" \in g.read
        /\ "last" \in g.read => g.read = Queries
    BY DEF Reads
  <2>3. CASE GotMessages(g, h)
    BY <2>1, <2>2, <2>3 DEF GotMessages, Queries
  <2>4. CASE GotActive(g, h)
    BY <2>1, <2>2, <2>4 DEF GotActive, Queries
  <2>5. CASE GotLast(g, h)
    <3>1. LatestStatus \in Ended \cup {"idle"}
      BY DEF LatestStatus
    <3>2. h.messages = g.messages /\ h.active = g.active /\ h.read = Queries
      BY <2>5 DEF GotLast
    <3>3. \/ g.active = NoJob /\ h.status \in Ended \cup {"idle"}
          \/ g.active # NoJob /\ h.status = "streaming"
      BY <2>5, <3>1 DEF GotLast
    <3> QED
      BY <2>1, <2>2, <3>2, <3>3 DEF Queries, Ended
  <2> QED
    BY <2>1, <2>3, <2>4, <2>5
<1> QED
  BY <1>1, <1>2, <1>3, GetsShape

\* Streaming and following a job begin and end together.
LEMMA StreamingStep ==
  ASSUME IInv, Reads, Streaming, Next
  PROVE  Streaming'
<1>0. /\ TypeOK /\ Page /\ NoJob \notin Job /\ gets \subseteq Get
      /\ cur # NoJob <=> status = "streaming"
      /\ \A g \in gets : g.kind \in {"poll", "pollDetail"} => status = "streaming"
      /\ \A kind \in GetKind : NewGet(kind).kind = kind
      /\ GetKind = {"resync", "poll", "pollDetail", "final", "load"}
      /\ "streaming" \notin Ended /\ "resync" \notin Ended
  BY NewGetType DEF IInv, TypeOK, Streaming, GetKind, Ended
<1>q. ASSUME UNCHANGED <<cur, status>>,
             \A g \in gets' : g \in gets \/ g.kind \notin {"poll", "pollDetail"}
      PROVE  Streaming'
  BY <1>0, <1>q DEF Streaming
<1>f. ASSUME NEW a, NEW s, NEW others, NEW w, Follow(a, s, others, w),
             a # NoJob <=> s = "streaming"
      PROVE  Streaming'
  BY <1>0, <1>f DEF Follow, Surviving, Streaming
<1>1. ASSUME NEW j \in Job,
             \/ Create(j) \/ Emit(j) \/ SkipIndex(j) \/ Persist(j) \/ EndRun(j)
             \/ Stop(j) \/ Leave(j) \/ Reap(j) \/ EmitTerminal(j)
      PROVE  Streaming'
  <2>1. UNCHANGED <<cur, status, gets>>
    BY <1>1 DEF Create, Emit, SkipIndex, Persist, EndRun, Stop, Leave, Reap, EmitTerminal, store
  <2> QED
    BY <1>q, <2>1
<1>2. ASSUME NEW g \in gets, ReadMessages(g) \/ ReadActive(g) \/ ReadLast(g)
      PROVE  Streaming'
  <2>1. \A j \in Job : Books(j)
    BY DEF IInv
  <2>2. UNCHANGED store /\ \E h \in Get : gets' = (gets \ {g}) \cup {h} /\ h.kind = g.kind
    BY <1>0, <1>2, <2>1, ReadIs
  <2> QED
    BY <1>0, <2>2 DEF store, Streaming
<1>3. ASSUME NEW g \in gets, g.kind # "poll", Answered(g), NEW w, Adopt(g, w)
      PROVE  Streaming'
  <2>1. g.active # NoJob <=> g.status = "streaming"
    BY <1>3 DEF Reads, Answered, Queries
  <2> QED
    BY <1>3, <1>f, <2>1 DEF Adopt
<1>4. ASSUME NEW g \in gets, ApplyPoll(g)
      PROVE  Streaming'
  BY <1>0, <1>4 DEF ApplyPoll, store, Streaming
<1>5. ASSUME NEW g \in gets,
             ApplyResync(g) \/ ApplyPollDetail(g) \/ ApplyFinal(g) \/ ApplyLoad(g)
      PROVE  Streaming'
  <2>1. \/ gets' \subseteq gets /\ UNCHANGED <<cur, status>>
        \/ g.kind # "poll" /\ Answered(g) /\ \E w : Adopt(g, w)
    BY <1>5 DEF ApplyResync, ApplyPollDetail, ApplyFinal, ApplyLoad
  <2> QED
    BY <1>3, <1>q, <2>1
<1>6. ASSUME NEW g \in gets, FailGet(g)
      PROVE  Streaming'
  BY <1>q, <1>6 DEF FailGet, store
<1>7. CASE Accepted
  <2>1. posted # NoJob /\ \E others : Follow(posted, "streaming", others, wm)
    BY <1>7 DEF Accepted
  <2> QED
    BY <1>f, <2>1
<1>8. CASE Receive
  <2>1. \/ UNCHANGED <<cur, status>> /\ gets' \subseteq gets \cup {NewGet("resync")}
        \/ Head(chan).type \in Ended /\ Follow(NoJob, Head(chan).type, gets, wm)
    BY <1>8 DEF Receive, store
  <2>2. CASE UNCHANGED <<cur, status>> /\ gets' \subseteq gets \cup {NewGet("resync")}
    BY <1>0, <1>q, <2>2
  <2>3. CASE Head(chan).type \in Ended /\ Follow(NoJob, Head(chan).type, gets, wm)
    BY <1>0, <1>f, <2>3
  <2> QED
    BY <2>1, <2>2, <2>3
<1>9. CASE PollTick
  BY <1>0, <1>9 DEF PollTick, store, Streaming
<1>10. CASE Send \/ Refused \/ FailPost \/ Subscribe \/ Drop \/ Reconnect \/ Focus
  <2>1. gets' \subseteq gets \cup {NewGet("load")} /\ UNCHANGED <<cur, status>>
    BY <1>10 DEF Send, Refused, FailPost, Subscribe, Drop, Reconnect, Focus, Refetched, store
  <2> QED
    BY <1>0, <1>q, <2>1
<1>11. CASE Reload
  BY <1>0, <1>11 DEF Reload, Streaming
<1>12. CASE Restart
  <2>1. gets' \subseteq {NewGet("load")} /\ UNCHANGED <<cur, status>>
    BY <1>12 DEF Restart
  <2> QED
    BY <1>0, <1>q, <2>1
<1> QED
  BY <1>1, <1>2, <1>4, <1>5, <1>6, <1>7, <1>8, <1>9, <1>10, <1>11, <1>12 DEF Next, Answer, Apply

\* Before the first job is queued there is none.
LEMMA FirstStep ==
  ASSUME TypeOK, First, Next
  PROVE  First'
<1> SUFFICES ASSUME latest' = NoJob PROVE \A j \in Job : row'[j] = "none"
  BY DEF First
<1>1. ASSUME NEW j \in Job, Create(j)
      PROVE  FALSE
  BY <1>1 DEF Create
<1>2. ASSUME NEW j \in Job, EndRun(j) \/ Stop(j) \/ Reap(j)
      PROVE  latest' = latest /\ row[j] = "active"
  BY <1>2 DEF EndRun, Stop, Reap
<1>3. ASSUME NEW j \in Job, Emit(j) \/ SkipIndex(j) \/ Persist(j) \/ Leave(j) \/ EmitTerminal(j)
      PROVE  UNCHANGED <<row, latest>>
  BY <1>3 DEF Emit, SkipIndex, Persist, Leave, EmitTerminal, rows
<1>4. ASSUME Restart \/ UNCHANGED <<rows, running, owed, bus>>
      PROVE  UNCHANGED <<row, latest>>
  BY <1>4 DEF Restart, rows
<1> QED
  BY <1>1, <1>2, <1>3, <1>4, Bystanders DEF Next, PageActs, First

-----------------------------------------------------------------------------
(* The way home. *)

\* What looked, still looks, and what is known stays known, if the jobs and the
\* transcript are left alone and no refetch is lost.
LEMMA HomingStays ==
  ASSUME TypeOK, Homing, Next, UNCHANGED <<row, latest, persisted, cur, status, shown, posted, orphans>>,
         \A g \in gets : Fetches(g) => g \in gets'
  PROVE  Homing'
<1> SUFFICES ASSUME Calm', cur = NoJob, posted = NoJob, ~Misled PROVE Home'
  BY DEF Homing, Misled
<1>1. Looking \/ (Active \subseteq orphans /\ (Settled => shown = persisted \/ Knows))
  BY HistoryGrows DEF Homing, Home
<1>2. Looking => Looking'
  BY DEF Looking, Looks
<1>3. Knows => Knows'
  BY DEF Knows, Brings
<1>4. Active' = Active
  BY DEF Active
<1>5. Settled' => Settled
  BY HistoryGrows
<1> QED
  BY <1>1, <1>2, <1>3, <1>4, <1>5 DEF Home

\* A page on which a job has ended asks for the transcript.
LEMMA FollowLooks ==
  ASSUME NEW a, NEW s \in Ended, s # status, NEW others, NEW w, Follow(a, s, others, w)
  PROVE  Looking'
<1>1. NewGet("final") \in gets'
  BY DEF Follow
<1>2. NewGet("final").read = {} /\ NewGet("final").kind = "final"
  BY NewGetType DEF GetKind
<1> QED
  BY <1>1, <1>2 DEF Looking, Looks, Fetches

\* So does one that is loaded, or whose POST was answered.
LEMMA LoadLooks ==
  ASSUME NewGet("load") \in gets'
  PROVE  Looking'
<1>1. NewGet("load").read = {} /\ NewGet("load").kind = "load"
  BY NewGetType DEF GetKind
<1> QED
  BY <1>1 DEF Looking, Looks, Fetches

\* An answer is taken over: it names a job, it sets off another fetch, it misleads
\* the page, or it leaves it as right as it was.
LEMMA AdoptHomes ==
  ASSUME HInv, Next, UNCHANGED <<row, latest, persisted, posted, orphans>>,
         NEW g \in gets, g.read = Queries, NEW w, Adopt(g, w)
  PROVE  Homing'
<1> SUFFICES ASSUME Calm', cur' = NoJob, posted = NoJob, ~Misled' PROVE Home'
  BY DEF Homing
<1>0. /\ TypeOK /\ Homing /\ Reads /\ Streaming /\ First /\ NoJob \notin Job
      /\ g \in Get /\ g.messages \subseteq persisted
      /\ Show(g) /\ Follow(g.active, g.status, gets \ {g}, w)
      /\ cur' = g.active /\ status' = g.status
  BY DEF HInv, IInv, TypeOK, Reads, Adopt, Follow
<1>1. g.status \in Ended \cup {"idle"}
  BY <1>0 DEF Reads, Queries, Get, Status
<1>2. CASE g.status \in Ended /\ g.status # status
  <2>1. Looking'
    BY <1>0, <1>2, FollowLooks
  <2> QED
    BY <2>1 DEF Home
<1>3. CASE g.status \in Ended /\ g.status = status
  <2>1. cur = NoJob /\ ~Misled /\ Calm
    BY <1>0, <1>3, HistoryGrows DEF Streaming, Ended, Misled
  <2>2. Looking \/ (Active \subseteq orphans /\ (Settled => shown = persisted \/ Knows))
    BY <1>0, <2>1 DEF Homing, Home
  <2>3. \A h \in gets : Fetches(h) /\ h # g => h \in gets'
    BY <1>0 DEF Follow, Surviving, Fetches
  <2>4. ~Looks(g)
    BY <1>0 DEF Looks, Queries
  <2>5. Looking => Looking'
    BY <2>3, <2>4 DEF Looking, Looks
  <2>6. Active' = Active
    BY DEF Active
  <2>7. /\ shown' = g.messages
        /\ Settled' => Settled /\ shown \subseteq g.messages
    BY <1>0, HistoryGrows DEF Show, Settled
  <2>8. Settled' /\ shown = persisted => shown' = persisted
    BY <1>0, <2>7
  <2>9. Knows => Knows' \/ shown' = persisted
    BY <2>3, <2>7 DEF Knows, Brings, Queries
  <2> QED
    BY <2>2, <2>5, <2>6, <2>7, <2>8, <2>9 DEF Home
<1>4. CASE g.status = "idle"
  <2>1. latest = NoJob
    BY <1>0, <1>4 DEF Misled
  <2>2. \A j \in Job : row[j] = "none"
    BY <1>0, <2>1 DEF First
  <2>3. persisted = {}
    BY <2>2 DEF HInv, IInv, TypeOK, Unborn
  <2>4. Active' = {} /\ shown' = persisted
    BY <1>0, <2>2, <2>3 DEF Active, Show
  <2> QED
    BY <2>4 DEF Home
<1> QED
  BY <1>1, <1>2, <1>3, <1>4

LEMMA HomingStep == ASSUME HInv, Next PROVE Homing'
<1>0. /\ TypeOK /\ Homing /\ Reads /\ RunsActive /\ Streaming /\ Page /\ NoJob \notin Job
      /\ cur \in Job \cup {NoJob} /\ posted \in Job \cup {NoJob}
      /\ \A j \in Job : Books(j)
  BY DEF HInv, IInv, TypeOK
<1>h. (Calm' => Calm) /\ (Settled' => Settled)
  BY <1>0, HistoryGrows
<1>n. ASSUME cur' # NoJob \/ posted' # NoJob \/ ~Calm' \/ Looking'
      PROVE  Homing'
  BY <1>n DEF Homing, Home
<1>1. ASSUME NEW j \in Job, Create(j) PROVE Homing'
  <2>1. CASE posted' = j
    BY <1>0, <1>n, <2>1
  <2>2. CASE orphans' = orphans \cup {j}
    <3>1. Active = {} /\ row' = [row EXCEPT ![j] = "active"] /\ DOMAIN row = Job
      BY <1>0, <1>1 DEF Create, TypeOK
    <3>2. Active' \subseteq {j}
      BY <3>1 DEF Active
    <3>3. Active' \subseteq orphans' /\ ~Settled'
      BY <2>2, <3>2 DEF Settled
    <3> QED
      BY <3>3 DEF Homing, Home
  <2> QED
    BY <1>1, <2>1, <2>2 DEF Create
<1>2. ASSUME NEW j \in Job, Emit(j) \/ SkipIndex(j) \/ Leave(j) \/ EmitTerminal(j) PROVE Homing'
  <2>1. UNCHANGED <<row, latest, persisted, cur, status, shown, posted, orphans, gets>>
    BY <1>2 DEF Emit, SkipIndex, Leave, EmitTerminal, rows, store, post
  <2> QED
    BY <1>0, <2>1, HomingStays
<1>3. ASSUME NEW j \in Job, Persist(j) PROVE Homing'
  <2>1. j \in running /\ UNCHANGED <<row, latest, cur, status, posted, orphans, gets, used, outdated>>
    BY <1>3 DEF Persist, store, post
  <2>2. /\ Looking' = Looking /\ Active' = Active /\ Settled' = Settled /\ Calm' = Calm
        /\ Misled' = Misled
    BY <2>1 DEF Looking, Looks, Fetches, Active, Settled, Calm, Misled
  <2>3. Calm /\ Settled => Active # {} /\ orphans = {}
    <3>1. j \in Job
      BY <2>1 DEF HInv, IInv, TypeOK
    <3> QED
      BY <1>0, <2>1, <3>1 DEF RunsActive, Settled, Active
  <2> QED
    BY <1>0, <2>1, <2>2, <2>3 DEF Homing, Home
<1>4. ASSUME NEW j \in Job, EndRun(j) \/ Stop(j) \/ Reap(j) PROVE Homing'
  <2>1. /\ row[j] = "active" /\ UNCHANGED <<latest, cur, status, posted, orphans, gets>>
        /\ \A k \in Job : k # j => row'[k] = row[k]
    BY <1>0, <1>4 DEF EndRun, Stop, Reap, TypeOK, store, post
  <2>2. j \in Active /\ Active' \subseteq Active /\ Looking' = Looking /\ Misled' = Misled
    BY <2>1 DEF Active, Looking, Looks, Fetches, Misled
  <2>3. Active \subseteq orphans => ~Settled'
    BY <2>1, <2>2 DEF Settled
  <2> QED
    BY <1>0, <1>h, <2>1, <2>2, <2>3 DEF Homing, Home
<1>5. ASSUME NEW g \in gets, ReadMessages(g) \/ ReadActive(g) \/ ReadLast(g) PROVE Homing'
  <2>1. PICK h \in Get : /\ gets' = (gets \ {g}) \cup {h} /\ h.kind = g.kind
                         /\ GotMessages(g, h) \/ GotActive(g, h) \/ GotLast(g, h)
    BY <1>0, <1>5, ReadIs
  <2>2. UNCHANGED <<row, latest, persisted, cur, status, shown, posted, orphans>>
    BY <1>0, <1>5, ReadIs DEF rows, store, post
  <2>3. CASE ~Fetches(g)
    BY <1>0, <2>1, <2>2, <2>3, HomingStays
  <2>4. Active' = Active /\ Misled' = Misled
    BY <2>2 DEF Active, Misled
  <2>5. ASSUME Fetches(g), Looks(g) => Looks(h), Brings(g) => Brings(h) PROVE Homing'
    <3>1. Looking => Looking'
      BY <2>1, <2>5 DEF Looking, Looks, Fetches
    <3>2. Knows => Knows'
      BY <2>1, <2>2, <2>5 DEF Knows, Brings, Fetches
    <3> QED
      BY <1>0, <1>h, <2>2, <2>4, <3>1, <3>2 DEF Homing, Home
  <2>6. CASE Fetches(g) /\ GotMessages(g, h)
    <3>1. Fetches(h) /\ (Looks(g) => Looks(h)) /\ Brings(h)
      BY <2>1, <2>6 DEF GotMessages, Looks, Brings, Fetches
    <3> QED
      BY <2>5, <2>6, <3>1
  <2>7. CASE Fetches(g) /\ GotActive(g, h)
    <3>1. h \in gets' /\ Fetches(h) /\ h.active = ActiveJob /\ h.messages = g.messages
      BY <2>1, <2>7 DEF GotActive, Fetches
    <3>2. CASE Active # {}
      <4>1. ActiveJob \in Active
        BY <3>2 DEF ActiveJob
      <4>2. Looks(h)
        BY <1>0, <3>1, <4>1 DEF Looks, Active
      <4> QED
        BY <1>n, <3>1, <4>2 DEF Looking, Looks
    <3>3. CASE Active = {}
      <4>1. Settled' => "messages" \notin g.read \/ g.messages = persisted
        BY <2>7, <3>3 DEF GotActive, Settled
      <4>2. Settled' => Brings(h)'
        BY <2>2, <2>7, <3>1, <4>1 DEF Brings, GotActive, Fetches
      <4>3. Settled' => Knows'
        BY <3>1, <4>2 DEF Knows
      <4> QED
        BY <2>4, <3>3, <4>3 DEF Homing, Home
    <3> QED
      BY <3>2, <3>3
  <2>8. CASE Fetches(g) /\ GotLast(g, h)
    <3>1. (Looks(g) => Looks(h)) /\ (Brings(g) => Brings(h))
      BY <2>1, <2>8 DEF GotLast, Looks, Brings, Fetches, Queries
    <3> QED
      BY <2>5, <2>8, <3>1
  <2> QED
    BY <2>1, <2>3, <2>6, <2>7, <2>8
<1>6. ASSUME NEW g \in gets, ApplyPoll(g) PROVE Homing'
  <2>1. /\ UNCHANGED <<row, latest, persisted, cur, status, shown, posted, orphans>>
        /\ \A h \in gets : Fetches(h) => h \in gets'
    BY <1>6 DEF ApplyPoll, rows, store, post, Fetches
  <2> QED
    BY <1>0, <2>1, HomingStays
<1>7. ASSUME NEW g \in gets, g.kind # "poll", Answered(g), NEW w, Adopt(g, w), UNCHANGED <<rows, post>>
      PROVE  Homing'
  <2>1. g.read = Queries /\ UNCHANGED <<row, latest, persisted, posted, orphans>>
    BY <1>7 DEF Answered, rows, post
  <2> QED
    BY <1>7, <2>1, AdoptHomes
<1>8. ASSUME NEW g \in gets, ApplyPollDetail(g) \/ ApplyFinal(g) PROVE Homing'
  <2>1. CASE Adopt(g, wm)
    BY <1>7, <1>8, <2>1 DEF ApplyPollDetail, ApplyFinal
  <2>2. CASE g.kind = "pollDetail" /\ gets' = gets \ {g} /\ UNCHANGED <<cur, status, shown>>
    <3>1. /\ UNCHANGED <<row, latest, persisted, posted, orphans>>
          /\ \A h \in gets : Fetches(h) => h \in gets'
      BY <1>8, <2>2 DEF ApplyPollDetail, ApplyFinal, rows, post, Fetches
    <3> QED
      BY <1>0, <2>2, <3>1, HomingStays
  <2> QED
    BY <1>8, <2>1, <2>2 DEF ApplyPollDetail, ApplyFinal
<1>9. ASSUME NEW g \in gets, ApplyResync(g) PROVE Homing'
  <2>1. cur # NoJob
    BY <1>0, <1>9 DEF ApplyResync, Page
  <2>2. CASE g.active = cur
    BY <1>n, <1>9, <2>1, <2>2 DEF ApplyResync
  <2>3. CASE g.active # cur
    BY <1>7, <1>9, <2>3 DEF ApplyResync
  <2> QED
    BY <2>2, <2>3
<1>10. ASSUME NEW g \in gets, ApplyLoad(g) PROVE Homing'
  <2>1. CASE cur = NoJob
    BY <1>7, <1>10, <2>1 DEF ApplyLoad
  <2>2. CASE cur # NoJob
    BY <1>n, <1>10, <2>2 DEF ApplyLoad
  <2> QED
    BY <2>1, <2>2
<1>11. ASSUME (\E g \in gets : FailGet(g)) \/ FailPost \/ Restart PROVE Homing'
  <2>1. Use("errors") \/ Use("restarts")
    BY <1>11 DEF FailGet, FailPost, Restart
  <2>2. ~Calm'
    BY <1>0, <2>1, CalmEnds DEF Calm
  <2> QED
    BY <1>n, <2>2
<1>12. CASE Accepted
  BY <1>n, <1>12 DEF Accepted, Follow
<1>13. CASE Receive
  <2>1. cur # NoJob
    BY <1>0, <1>13 DEF Receive, Page
  <2>2. cur' = cur \/ (Head(chan).type \in Ended /\ Follow(NoJob, Head(chan).type, gets, wm))
    BY <1>13 DEF Receive, store
  <2>3. Head(chan).type \in Ended => Head(chan).type # status
    BY <1>0, <2>1 DEF Streaming, Ended
  <2> QED
    BY <1>n, <2>1, <2>2, <2>3, FollowLooks
<1>14. CASE Send \/ Subscribe \/ Drop \/ Reconnect \/ PollTick \/ Focus
  <2>1. UNCHANGED <<row, latest, persisted, cur, status, shown, posted, orphans>> /\ gets \subseteq gets'
    BY <1>14 DEF Send, Subscribe, Drop, Reconnect, PollTick, Focus, rows, store, post
  <2> QED
    BY <1>0, <2>1, HomingStays
<1>15. CASE Refused
  <2>1. CASE gets' = Refetched
    BY <1>n, <2>1, LoadLooks DEF Refetched
  <2>2. CASE gets' = gets
    <3>1. UNCHANGED <<row, latest, persisted, cur, status, shown, posted, orphans>>
      BY <1>15 DEF Refused, rows, store
    <3> QED
      BY <1>0, <2>2, <3>1, HomingStays
  <2> QED
    BY <1>15, <2>1, <2>2 DEF Refused
<1>16. CASE Reload
  BY <1>n, <1>16, LoadLooks DEF Reload
<1> QED
  BY <1>1, <1>2, <1>3, <1>4, <1>5, <1>6, <1>8, <1>9, <1>10, <1>11, <1>12, <1>13, <1>14, <1>15, <1>16
  DEF Next, Answer, Apply

LEMMA InitHInv == Init => HInv
<1> SUFFICES ASSUME Init PROVE HInv
  OBVIOUS
<1>1. /\ NewGet("load").read = {} /\ NewGet("load").kind = "load"
      /\ NewGet("load").active = NoJob /\ NewGet("load").messages = {}
  BY NewGetType DEF GetKind
<1>2. RunsActive /\ Reads /\ Streaming /\ First
  BY <1>1 DEF Init, RunsActive, Reads, Streaming, First
<1>3. Active = {} /\ shown = persisted
  BY DEF Init, Active
<1> QED
  BY <1>2, <1>3, InitIInv DEF HInv, Homing, Home

LEMMA StepHInv == HInv /\ [Next]_vars => HInv'
<1> SUFFICES ASSUME HInv, [Next]_vars PROVE HInv'
  OBVIOUS
<1>1. IInv' /\ IInv /\ TypeOK
  BY StepIInv DEF HInv, IInv
<1>2. CASE Next
  BY <1>1, <1>2, RunsActiveStep, ReadsStep, StreamingStep, FirstStep, HomingStep DEF HInv
<1>3. CASE UNCHANGED vars
  <2>1. UNCHANGED <<row, latest, persisted, running, shown, outdated, cur, status, gets, posted, orphans, used>>
    BY <1>3 DEF vars, rows, store, post
  <2>2. Active' = Active /\ Calm' = Calm /\ Settled' = Settled /\ Misled' = Misled
    BY <2>1 DEF Active, Calm, Settled, Misled
  <2>3. Looking' = Looking /\ Knows' = Knows
    BY <2>1 DEF Looking, Looks, Knows, Brings, Fetches
  <2>4. RunsActive' /\ Reads' /\ Streaming' /\ First'
    BY <2>1, <2>2 DEF HInv, RunsActive, Reads, Streaming, First
  <2>5. Homing'
    BY <2>1, <2>2, <2>3 DEF HInv, Homing, Home
  <2> QED
    BY <1>1, <2>4, <2>5 DEF HInv
<1> QED
  BY <1>2, <1>3

\* A page that follows no job and waits for no answer, and was not misled, has not
\* lost sight of one, and shows what was persisted, whatever the stream, the polls and
\* the refetches brought in whatever order: the failures and the outdated answers
\* named in RestingPageIsRight apart.
THEOREM PageRestsRight == Spec => []RestingPageIsRight
<1>1. ASSUME HInv PROVE RestingPageIsRight
  <2> SUFFICES ASSUME AtRest, ~Misled, used["errors"] + used["restarts"] = 0
               PROVE  /\ Active \subseteq orphans
                      /\ used["stops"] = 0 /\ orphans = {} /\ ~outdated => shown = persisted
    BY DEF RestingPageIsRight
  <2>1. used["errors"] \in Nat /\ used["restarts"] \in Nat
    BY <1>1 DEF HInv, IInv, TypeOK, Mishap
  <2>2. Calm /\ ~Looking /\ ~Knows
    BY <2>1 DEF Calm, AtRest, Looking, Knows
  <2> QED
    BY <1>1, <2>2 DEF HInv, Homing, Home, AtRest, Settled
<1> QED
  BY <1>1, InitHInv, StepHInv, PTL DEF Spec
=============================================================================
