----------------------------- MODULE EventStream -----------------------------
(***************************************************************************)
(* How a browser follows the jobs of the project it shows: the numbered    *)
(* frames and the replay ring of the in-process bus, the event-stream      *)
(* route, and the page's three ways back to the truth when frames were     *)
(* lost: resync, the refetch after an ending, and the six-second poll.     *)
(*                                                                         *)
(* The server runs one query of a request, and the page handles one        *)
(* message or response, at a time.  `gets` holds the requests under way,   *)
(* `chan` what the open stream carries.  Frames have no contents; the      *)
(* transcript is the set of jobs whose last message has been persisted.    *)
(***************************************************************************)
EXTENDS Integers, Sequences, FiniteSets

CONSTANTS
  Job,          \* the jobs the page's messages start, one active at a time
  NoJob,        \* null
  RingMax,      \* RING_MAX
  MaxFrames,    \* bound: indices handed out per job and process
  Budgets       \* bound: which mishaps a behaviour may meet, and how many of each

\* What a budget counts: server processes replaced, connections lost, requests failed,
\* settles failed before a terminal frame, running jobs ended from outside, and fetches nobody's answer asked for (a reload, a
\* refetch on focus or after a POST, a poll that finds a detail changed) or waited for.
Mishap == {"restarts", "drops", "errors", "settles", "stops", "loads"}

ASSUME StreamAssumption ==
  /\ IsFiniteSet(Job) /\ NoJob \notin Job
  /\ RingMax \in Nat \ {0} /\ MaxFrames \in Nat
  /\ Budgets \subseteq [Mishap -> Nat]

VARIABLES
  row,        \* Job.status: "none", "active" (QUEUED, RUNNING) or how it ended
  latest,     \* the job queued last
  persisted,  \* jobs whose last message is in the database
  running,    \* jobs this process executes
  owed,       \* ended jobs whose terminal frame is still to be emitted
  ring,       \* JobBuffer.events
  next,       \* JobBuffer.nextIndex
  cur,        \* currentJobId in the store; NoJob unless the page is streaming
  status,     \* the store's status; "loading": idle, and not hydrated yet
  shown,      \* the persisted messages in the transcript last rebuilt
  outdated,   \* a transcript was read before what it should contain (history)
  wm,         \* watermarks, -1 when there is none
  conn,       \* the stream of the current job, see below
  from,       \* lastEventIndex of the stream's request
  chan,       \* messages the stream carries
  gets,       \* requests under way
  sending,    \* the page's POST is on its way to the database
  posted,     \* the job it has created, until the page hears of it
  stray,      \* POSTs on their way whose page no longer waits for them
  orphans,    \* the jobs those have created (history)
  emitted,    \* indices this process has emitted, per job (history)
  seen,       \* those the page applied, or counted into a snapshot (history)
  used        \* how many mishaps of each kind there were

rows   == <<row, latest, persisted>>
bus    == <<ring, next, emitted>>
store  == <<cur, status, shown, wm, seen>>
stream == <<conn, from, chan>>
post   == <<sending, posted, stray, orphans>>
vars   == <<rows, running, owed, bus, store, outdated, stream, gets, post, used>>

Ended  == {"done", "cancelled", "error"}
Status == {"loading", "idle", "streaming"} \cup Ended

\* "off": no job to follow; "ask": requested, not subscribed yet; "open":
\* subscribed; "dead": lost without the page having noticed; "resync": closed
\* while a snapshot is fetched; "backoff": waiting for the reconnect timer.
Conn == {"off", "ask", "open", "dead", "resync", "backoff"}

\* A terminal frame has the type of the ending.
FrameType == {"data", "resync"} \cup Ended
Index     == 0 .. MaxFrames
Frame     == [index : Index \cup {-1}, type : FrameType]

\* What a request is for, what the server has read for it so far, and what it found:
\* the messages, the active job, and at last that job's head or how the latest ended.
GetKind == {"resync", "poll", "pollDetail", "final", "load"}
Queries == {"messages", "active", "last"}
Get == [kind : GetKind, read : SUBSET Queries, messages : SUBSET Job,
        active : Job \cup {NoJob}, head : Index \cup {-1}, status : Status]

Answered(g) == g.read = IF g.kind = "poll" THEN {"active"} ELSE Queries

Use(b) ==
  /\ used' = [used EXCEPT ![b] = @ + 1]
  /\ \E budget \in Budgets : \A c \in Mishap : used'[c] <= budget[c]

NewGet(kind) == [kind |-> kind, read |-> {}, messages |-> {}, active |-> NoJob,
                 head |-> -1, status |-> "idle"]

Init ==
  /\ row = [j \in Job |-> "none"] /\ latest = NoJob /\ persisted = {}
  /\ running = {} /\ owed = {}
  /\ ring = [j \in Job |-> <<>>] /\ next = [j \in Job |-> 0]
  /\ emitted = [j \in Job |-> {}]
  /\ cur = NoJob /\ status = "loading" /\ shown = {} /\ outdated = FALSE
  /\ wm = [j \in Job |-> -1] /\ seen = [j \in Job |-> {}]
  /\ conn = "off" /\ from = -1 /\ chan = <<>>
  /\ gets = {NewGet("load")}
  /\ sending = FALSE /\ posted = NoJob /\ stray = 0 /\ orphans = {}
  /\ used = [b \in Mishap |-> 0]

Active == {j \in Job : row[j] = "active"}
ActiveJob == IF Active = {} THEN NoJob ELSE CHOOSE j \in Active : TRUE

-----------------------------------------------------------------------------
(* The server: jobs and their frames. *)

\* addMessage's transaction, for the page's message or for one whose page is gone;
\* the run is dispatched.  Its name is new, so which one it is makes no difference.
Create(j) ==
  /\ row[j] = "none" /\ Active = {}
  /\ j = CHOOSE k \in Job : row[k] = "none"
  /\ \/ /\ sending /\ sending' = FALSE /\ posted' = j
        /\ UNCHANGED <<stray, orphans>>
     \/ /\ stray > 0 /\ stray' = stray - 1 /\ orphans' = orphans \cup {j}
        /\ UNCHANGED <<sending, posted>>
  /\ row' = [row EXCEPT ![j] = "active"] /\ latest' = j
  /\ running' = running \cup {j}
  /\ UNCHANGED <<persisted, owed, bus, store, outdated, stream, gets, used>>

\* Mutant of Capped: the cap is checked before the frame is added.
CappedLate(q) == IF Len(q) > RingMax + 1 THEN SubSeq(q, Len(q) - RingMax, Len(q)) ELSE q

\* emit keeps the last RING_MAX frames.
Capped(q) == IF Len(q) > RingMax THEN SubSeq(q, Len(q) - RingMax + 1, Len(q)) ELSE q

\* publish: an index is allocated and the frame emitted, with no await in between.
Publish(j, type) ==
  LET f == [index |-> next[j], type |-> type]
  IN /\ next[j] < MaxFrames
     /\ next' = [next EXCEPT ![j] = @ + 1]
     /\ ring' = [ring EXCEPT ![j] = Capped(Append(@, f))]
     /\ emitted' = [emitted EXCEPT ![j] = @ \cup {next[j]}]
     /\ chan' = IF conn = "open" /\ cur = j THEN Append(chan, f) ELSE chan
     /\ UNCHANGED <<conn, from>>

\* A run reports what it does.  It keeps the last index free, for the ending.
Emit(j) ==
  /\ j \in running /\ next[j] < MaxFrames - 1
  /\ Publish(j, "data")
  /\ UNCHANGED <<rows, running, owed, store, outdated, gets, post, used>>

\* A sub-agent takes an index for its metering and emits nothing under it.
SkipIndex(j) ==
  /\ j \in running /\ next[j] < MaxFrames - 1
  /\ next' = [next EXCEPT ![j] = @ + 1]
  /\ UNCHANGED <<rows, running, owed, ring, emitted, store, outdated, stream, gets, post, used>>

\* The last assistant message is written.
Persist(j) ==
  /\ j \in running
  /\ persisted' = persisted \cup {j}
  /\ UNCHANGED <<row, latest, running, owed, bus, store, outdated, stream, gets, post, used>>

\* The run ends its row, well or badly.
EndRun(j) ==
  /\ j \in running /\ row[j] = "active"
  /\ \E ending \in {"done", "error"} : row' = [row EXCEPT ![j] = ending]
  /\ running' = running \ {j} /\ owed' = owed \cup {j}
  /\ UNCHANGED <<latest, persisted, bus, store, outdated, stream, gets, post, used>>

\* The stop button's cancel listener ends the row; the run goes on until the end
\* of its turn, and still publishes and persists.
Stop(j) ==
  /\ j \in running /\ row[j] = "active" /\ Use("stops")
  /\ row' = [row EXCEPT ![j] = "cancelled"]
  /\ owed' = owed \cup {j}
  /\ UNCHANGED <<latest, persisted, running, bus, store, outdated, stream, gets, post>>

Leave(j) ==
  /\ j \in running /\ row[j] \in Ended
  /\ running' = running \ {j}
  /\ UNCHANGED <<rows, owed, bus, store, outdated, stream, gets, post, used>>

\* The reaper ends a row that a former process left behind.
Reap(j) ==
  /\ row[j] = "active" /\ j \notin running
  /\ row' = [row EXCEPT ![j] = "error"]
  /\ owed' = owed \cup {j}
  /\ UNCHANGED <<latest, persisted, running, bus, store, outdated, stream, gets, post, used>>

\* The terminal frame follows, unless settle failed before it.
EmitTerminal(j) ==
  /\ j \in owed
  /\ owed' = owed \ {j}
  /\ \/ Publish(j, row[j]) /\ UNCHANGED used
     \/ Use("settles") /\ UNCHANGED <<bus, stream>>
  /\ UNCHANGED <<rows, running, store, outdated, gets, post>>
-----------------------------------------------------------------------------
(* The server: subscriptions and snapshots. *)

HeadIndex(j) == IF ring[j] = <<>> THEN -1 ELSE ring[j][Len(ring[j])].index

\* Mutant of NeedsResync: only an expired buffer asks for a snapshot.
NeedsResyncIfEmpty(q, i) == q = <<>> /\ i >= 0

\* subscribe: the ring cannot continue the reader who has seen everything up to i.
NeedsResync(q, i) ==
  IF q = <<>> THEN i >= 0 ELSE q[1].index > i + 1 \/ i > q[Len(q)].index

Marker(i) == [index |-> i, type |-> "resync"]

\* The stream route: a resync marker, or the frames newer than the reader's index
\* (the last ones of the ring, whose indices increase), and the listener is attached.
Subscribe ==
  LET q == ring[cur]
  IN /\ conn = "ask"
     /\ conn' = "open"
     /\ \/ NeedsResync(q, from) /\ chan' = <<Marker(from)>>
        \/ /\ ~NeedsResync(q, from)
           /\ \E k \in 0 .. Len(q) :
                /\ \A n \in DOMAIN q : q[n].index > from <=> n > k
                /\ chan' = SubSeq(q, k + 1, Len(q))
     /\ UNCHANGED <<rows, running, owed, bus, store, outdated, from, gets, post, used>>

\* The queries of getProject, the first two side by side; getProjectJobStatus has
\* only the second.
Query(g, query, h) ==
  /\ g \in gets /\ query \notin g.read
  /\ gets' = (gets \ {g}) \cup {[h EXCEPT !.read = @ \cup {query}]}
  /\ UNCHANGED <<rows, running, owed, bus, store, stream, post, used>>

ReadMessages(g) ==
  /\ g.kind # "poll"
  /\ Query(g, "messages", [g EXCEPT !.messages = persisted])
  /\ UNCHANGED outdated

\* The history notes an answer that knows of the end and not of the last message.
ReadActive(g) ==
  /\ Query(g, "active", [g EXCEPT !.active = ActiveJob])
  /\ outdated' = (outdated \/ /\ Active = {} /\ "messages" \in g.read
                              /\ g.messages # persisted)

\* What lifecycleFromDetail makes of the job queued last, if none was active.
LatestStatus == IF latest # NoJob /\ row[latest] \in Ended THEN row[latest] ELSE "idle"

\* When both are there: the latest job, or the head of the active one's ring.
ReadLast(g) ==
  /\ g.read = {"messages", "active"}
  /\ Query(g, "last",
       IF g.active = NoJob THEN [g EXCEPT !.status = LatestStatus]
       ELSE [g EXCEPT !.status = "streaming", !.head = HeadIndex(g.active)])
  /\ UNCHANGED outdated

-----------------------------------------------------------------------------
(* The page: what a change of the current job sets off. *)

\* The stream of the old job is closed and that of the new one requested from w.
Redirect(a, w) ==
  IF a = cur THEN UNCHANGED stream
  ELSE /\ chan' = <<>>
       /\ conn' = IF a = NoJob THEN "off" ELSE "ask"
       /\ from' = IF a = NoJob THEN -1 ELSE w[a]

\* The requests that survive: a poll dies with the streaming status, a resync with
\* its stream.
Surviving(others, a, s) ==
  {g \in others : /\ g.kind \in {"poll", "pollDetail"} => s = "streaming"
                  /\ g.kind = "resync" => a = cur}

\* Mutant of Follow: the refetch after an ending is missing.
FollowWithoutRefetch(a, s, others, w) ==
  /\ cur' = a /\ status' = s /\ Redirect(a, w)
  /\ gets' = Surviving(others, a, s)

\* The effects that depend on currentJobId and status run when these change.  A
\* status that becomes one of the endings sets off a refetch; idle does not.
Follow(a, s, others, w) ==
  /\ cur' = a /\ status' = s /\ Redirect(a, w)
  /\ gets' = Surviving(others, a, s)
             \cup IF s \in Ended /\ s # status THEN {NewGet("final")} ELSE {}

\* seedWatermark only raises the watermark.  What it skips counts as seen.
Seed(j, head) ==
  IF head > wm[j]
  THEN /\ wm' = [wm EXCEPT ![j] = head]
       /\ seen' = [seen EXCEPT ![j] = @ \cup (emitted[j] \cap 0 .. head)]
  ELSE UNCHANGED <<wm, seen>>

\* The transcript is rebuilt from a snapshot's messages.
Show(g) ==
  /\ shown' = g.messages
  /\ outdated' = (outdated \/ ~(shown \subseteq g.messages))

\* hydrate and resyncFromDetail take job, status and transcript from an answer.
Adopt(g, w) == Show(g) /\ Follow(g.active, g.status, gets \ {g}, w)

\* The POST is over, well or not: the project is fetched again, and the fetch that
\* was under way does not count any more.
Refetched == {g \in gets : g.kind # "load"} \cup {NewGet("load")}

\* The user sends a message.  Bound: no more than there are jobs for, and within the
\* budget if the page is not loaded yet.
Send ==
  /\ status # "streaming" /\ ~sending /\ posted = NoJob
  /\ \E j \in Job : row[j] = "none"
  /\ sending' = TRUE
  /\ IF status = "loading" THEN Use("loads") ELSE UNCHANGED used
  /\ UNCHANGED <<rows, running, owed, bus, store, outdated, stream, gets>>
  /\ UNCHANGED <<posted, stray, orphans>>

\* Its answer: startJob.  Bound: beyond the budget, the refetch is left out.
Accepted ==
  /\ posted # NoJob /\ posted' = NoJob
  /\ \/ Use("loads") /\ Follow(posted, "streaming", Refetched, wm)
     \/ UNCHANGED used /\ Follow(posted, "streaming", gets, wm)
  /\ UNCHANGED <<rows, running, owed, bus, shown, outdated, wm, seen, sending, stray, orphans>>

\* Or a refusal: a job is active, no credits are left, one job too many.
Refused ==
  /\ sending /\ sending' = FALSE
  /\ \/ Use("loads") /\ gets' = Refetched
     \/ UNCHANGED <<used, gets>>
  /\ UNCHANGED <<rows, running, owed, bus, store, outdated, stream, posted, stray, orphans>>

\* Or none: the connection is lost, the message may yet arrive, and the refetch may
\* fail as well.
FailPost ==
  /\ sending \/ posted # NoJob
  /\ Use("errors")
  /\ sending' = FALSE /\ posted' = NoJob
  /\ stray' = IF sending THEN stray + 1 ELSE stray
  /\ gets' \in {gets, Refetched}
  /\ UNCHANGED <<rows, running, owed, bus, store, outdated, stream, orphans>>

\* The first message of the stream.
Receive ==
  /\ chan # <<>>
  /\ LET f == Head(chan)
         j == cur
     IN \/ /\ f.type = "resync"
           /\ conn' = "resync" /\ chan' = <<>>
           /\ gets' = gets \cup {NewGet("resync")}
           /\ UNCHANGED <<from, store>>
        \/ /\ f.type # "resync" /\ f.index <= wm[j]
           /\ chan' = Tail(chan)
           /\ UNCHANGED <<conn, from, store, gets>>
        \/ /\ f.type # "resync" /\ f.index > wm[j]
           /\ wm' = [wm EXCEPT ![j] = f.index]
           /\ seen' = [seen EXCEPT ![j] = @ \cup {f.index}]
           /\ IF f.type \in Ended
              THEN Follow(NoJob, f.type, gets, wm)
              ELSE chan' = Tail(chan) /\ UNCHANGED <<conn, from, cur, status, gets>>
           /\ UNCHANGED shown
  /\ UNCHANGED <<rows, running, owed, bus, outdated, post, used>>

\* The stream breaks, and the page notices now or not at all.
Drop ==
  /\ conn \in {"ask", "open"} /\ Use("drops")
  /\ conn' \in {"backoff", "dead"} /\ chan' = <<>>
  /\ UNCHANGED <<rows, running, owed, bus, store, outdated, from, gets, post>>

\* The reconnect timer.
Reconnect ==
  /\ conn = "backoff"
  /\ conn' = "ask" /\ from' = wm[cur]
  /\ UNCHANGED <<rows, running, owed, bus, store, outdated, chan, gets, post, used>>

-----------------------------------------------------------------------------
(* The page: responses. *)

\* The resync's snapshot: rebuild, and go on behind it if the job is still active.
ApplyResync(g) ==
  /\ g \in gets /\ g.kind = "resync" /\ Answered(g)
  /\ IF g.active = cur
     THEN /\ Show(g)
          /\ IF g.head >= 0 THEN Seed(cur, g.head)
             ELSE wm' = [wm EXCEPT ![cur] = -1] /\ UNCHANGED seen
          /\ conn' = "ask" /\ from' = wm'[cur] /\ chan' = <<>>
          /\ gets' = gets \ {g} /\ UNCHANGED <<cur, status>>
     ELSE Adopt(g, wm) /\ UNCHANGED <<wm, seen>>
  /\ UNCHANGED <<rows, running, owed, bus, post, used>>

\* Mutant of PollTick: no poll while the stream is believed to be up.
PollWhileDown ==
  /\ cur # NoJob /\ conn \in {"ask", "backoff"}
  /\ \A g \in gets : g.kind \notin {"poll", "pollDetail"}
  /\ gets' = gets \cup {NewGet("poll")}
  /\ UNCHANGED <<rows, running, owed, bus, store, outdated, stream, post, used>>

\* The six-second timer, while the page is streaming and no poll is under way.
PollTick ==
  /\ cur # NoJob /\ \A g \in gets : g.kind \notin {"poll", "pollDetail"}
  /\ gets' = gets \cup {NewGet("poll")}
  /\ UNCHANGED <<rows, running, owed, bus, store, outdated, stream, post, used>>

\* The poll's status disagrees with the page about the job, or about a detail of it
\* that is not modelled (within the budget): then the whole snapshot is fetched.
ApplyPoll(g) ==
  /\ g \in gets /\ g.kind = "poll" /\ Answered(g)
  /\ LET detailed == (gets \ {g}) \cup {NewGet("pollDetail")}
     IN \/ g.active # cur /\ gets' = detailed /\ UNCHANGED used
        \/ g.active = cur /\ gets' = detailed /\ Use("loads")
        \/ g.active = cur /\ gets' = gets \ {g} /\ UNCHANGED used
  /\ UNCHANGED <<rows, running, owed, bus, store, outdated, stream, post>>

\* ... and applied if it still disagrees.
ApplyPollDetail(g) ==
  /\ g \in gets /\ g.kind = "pollDetail" /\ Answered(g)
  /\ \/ Adopt(g, wm)
     \/ /\ g.active = cur /\ gets' = gets \ {g}
        /\ UNCHANGED <<cur, status, shown, outdated, stream>>
  /\ UNCHANGED <<rows, running, owed, bus, wm, seen, post, used>>

\* Mutant of ApplyFinal: an ending that the refetch itself brings is not followed up.
ApplyFinalQuietly(g) ==
  /\ g \in gets /\ g.kind = "final" /\ Answered(g)
  /\ Show(g) /\ FollowWithoutRefetch(g.active, g.status, gets \ {g}, wm)
  /\ UNCHANGED <<rows, running, owed, bus, wm, seen, post, used>>

\* The refetch after an ending is applied whatever the page shows by now.
ApplyFinal(g) ==
  /\ g \in gets /\ g.kind = "final" /\ Answered(g)
  /\ Adopt(g, wm)
  /\ UNCHANGED <<rows, running, owed, bus, wm, seen, post, used>>

\* A load or a refetch on focus hydrates the page unless it is streaming, and
\* seeds the watermark unless it was following that job already.
ApplyLoad(g) ==
  /\ g \in gets /\ g.kind = "load" /\ Answered(g)
  /\ IF g.active # NoJob /\ g.active # cur THEN Seed(g.active, g.head)
     ELSE UNCHANGED <<wm, seen>>
  /\ IF cur = NoJob THEN Adopt(g, wm')
     ELSE gets' = gets \ {g} /\ UNCHANGED <<cur, status, shown, outdated, stream>>
  /\ UNCHANGED <<rows, running, owed, bus, post, used>>

\* A request fails.  Only the resync's is tried again; the poll's timer goes on.
FailGet(g) ==
  /\ g \in gets /\ Use("errors")
  /\ gets' = gets \ {g}
  /\ conn' = IF g.kind = "resync" THEN "backoff" ELSE conn
  /\ UNCHANGED <<rows, running, owed, bus, store, outdated, from, chan, post>>

\* The window gets the focus back; a fetch under way is joined.
Focus ==
  /\ \A g \in gets : g.kind # "load"
  /\ Use("loads")
  /\ gets' = gets \cup {NewGet("load")}
  /\ UNCHANGED <<rows, running, owed, bus, store, outdated, stream, post>>

\* The page is loaded anew: its memory is empty, and a message it sent goes astray.
Reload ==
  /\ Use("loads")
  /\ cur' = NoJob /\ status' = "loading" /\ shown' = {} /\ wm' = [j \in Job |-> -1]
  /\ seen' = [j \in Job |-> {}]
  /\ conn' = "off" /\ from' = -1 /\ chan' = <<>>
  /\ gets' = {NewGet("load")}
  /\ sending' = FALSE /\ posted' = NoJob
  /\ stray' = IF sending THEN stray + 1 ELSE stray
  /\ UNCHANGED <<rows, running, owed, bus, outdated, orphans>>

\* The server process is replaced: runs, rings, streams and requests are gone.  A
\* page that waits for its POST hears of the error and fetches the project.
Restart ==
  /\ Use("restarts")
  /\ running' = {} /\ owed' = {}
  /\ ring' = [j \in Job |-> <<>>] /\ next' = [j \in Job |-> 0]
  /\ emitted' = [j \in Job |-> {}] /\ seen' = [j \in Job |-> {}]
  /\ conn' = IF conn \in {"ask", "open", "resync"} THEN "backoff" ELSE conn
  /\ chan' = <<>>
  /\ gets' = IF sending \/ posted # NoJob THEN {NewGet("load")} ELSE {}
  /\ sending' = FALSE /\ posted' = NoJob /\ stray' = 0
  /\ UNCHANGED <<rows, cur, status, shown, outdated, wm, from, orphans>>

Apply(g) ==
  \/ ApplyResync(g) \/ ApplyPoll(g) \/ ApplyPollDetail(g) \/ ApplyFinal(g) \/ ApplyLoad(g)
Answer(g) == ReadMessages(g) \/ ReadActive(g) \/ ReadLast(g) \/ Apply(g)

Next ==
  \/ \E j \in Job :
       \/ Create(j) \/ Emit(j) \/ SkipIndex(j) \/ Persist(j) \/ EndRun(j)
       \/ Stop(j) \/ Leave(j) \/ Reap(j) \/ EmitTerminal(j)
  \/ \E g \in gets : Answer(g) \/ FailGet(g)
  \/ Send \/ Accepted \/ Refused \/ FailPost \/ Subscribe \/ Receive \/ Drop \/ Reconnect \/ PollTick
  \/ Focus \/ Reload \/ Restart

Spec == Init /\ [][Next]_vars

\* The server answers, the page's timers fire and its messages are handled; a run
\* leaves when its job is over, and the reaper finds what no run ends.  Nothing
\* promises that a run ends, or that it persists anything.
Fairness ==
  /\ \A j \in Job : WF_vars(Leave(j)) /\ WF_vars(Reap(j)) /\ WF_vars(EmitTerminal(j))
  /\ \A kind \in GetKind : WF_vars(\E g \in gets : g.kind = kind /\ Answer(g))
  /\ WF_vars(Accepted) /\ WF_vars(Subscribe) /\ WF_vars(Receive)
  /\ WF_vars(Reconnect) /\ WF_vars(PollTick)

FairSpec == Spec /\ Fairness

-----------------------------------------------------------------------------
(* Properties. *)

\* Every variable has its type.
TypeOK ==
  /\ row \in [Job -> {"none", "active"} \cup Ended] /\ latest \in Job \cup {NoJob}
  /\ persisted \subseteq Job /\ running \subseteq Job /\ owed \subseteq Job
  /\ ring \in [Job -> Seq(Frame)] /\ \A j \in Job : Len(ring[j]) <= RingMax
  /\ next \in [Job -> Index]
  /\ emitted \in [Job -> SUBSET Index] /\ seen \in [Job -> SUBSET Index]
  /\ cur \in Job \cup {NoJob} /\ status \in Status
  /\ shown \subseteq Job /\ outdated \in BOOLEAN
  /\ sending \in BOOLEAN /\ posted \in Job \cup {NoJob}
  /\ stray \in Nat /\ orphans \subseteq Job
  /\ wm \in [Job -> Index \cup {-1}]
  /\ conn \in Conn /\ from \in Index \cup {-1} /\ chan \in Seq(Frame)
  /\ gets \subseteq Get
  /\ used \in [Mishap -> Nat]

\* What is on its way to the page over a stream the server still feeds.
Underway == {chan[i].index : i \in DOMAIN chan}
ResyncUnderway == \E i \in DOMAIN chan : chan[i].type = "resync"

\* Whoever is subscribed to a job gets every frame this process has emitted for
\* it, has seen it in a snapshot, or is told to fetch one.
Followed(j) == emitted[j] \subseteq seen[j] \cup Underway \/ ResyncUnderway

\* A subscribed page misses no frame, whatever the ring dropped while it was
\* away, as long as its watermark stems from this process (bus.subscribe).
NoSilentSkip ==
  \A j \in Job : cur = j /\ conn = "open" /\ wm[j] \in seen[j] \cup {-1} => Followed(j)

\* The page learns that a job has ended, over its stream or without it: a lost
\* terminal frame, a stream that died unnoticed and failed requests included.
EndingReachesPage == \A j \in Job : row[j] \in Ended /\ cur = j ~> cur # j

\* The page was told of no job although there is one: an answer looked for the
\* active job before that one was created and for the latest after it, and
\* lifecycleFromDetail makes "idle" of it.  Nothing is fetched again then.
Misled == status = "idle" /\ latest # NoJob

\* A page that is taken off its running job by an answer that was read before the
\* job began finds it again, unless that answer has left it misled.
ActiveJobIsFollowed ==
  \A j \in Job :
    row[j] = "active" ~> cur = j \/ row[j] # "active" \/ Misled \/ j \in orphans

\* The page neither follows a job nor waits for an answer.
AtRest == cur = NoJob /\ gets = {} /\ ~sending /\ posted = NoJob

\* A page that is not misled comes to rest only when no job is active but one of a
\* message whose page was closed, and, if there is none, it then shows all that was
\* persisted: if no request failed or was cut off, nobody ended a run from outside
\* and no answer was outdated.  The refetch after an ending makes up for every frame
\* the stream did not bring and for every snapshot read too early.
RestingPageIsRight ==
  AtRest /\ ~Misled /\ used["errors"] + used["restarts"] = 0 =>
    /\ Active \subseteq orphans
    /\ used["stops"] = 0 /\ orphans = {} /\ ~outdated => shown = persisted

\* In the end the transcript on the page contains all that was persisted, under
\* the same conditions: the page does come to rest.
TranscriptCompletes ==
  <>[](/\ used["errors"] + used["restarts"] + used["stops"] = 0
       /\ ~Misled /\ ~outdated /\ orphans = {} /\ Active = {}
       => shown = persisted)

-----------------------------------------------------------------------------
(* What comments in the code say, and the code does not keep. *)

\* ProjectPage.tsx:109 says of the refetch after an ending that the handoff between
\* snapshot and stream "must never leave final messages or terminal reasons missing
\* until the next full page refresh".
FinalMessagesShown == <>[](Active = {} => shown = persisted)
=============================================================================
