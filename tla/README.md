# Tau: a verification project

Tau is a service that builds web applications for its users with an AI agent. A
user writes a message; the server creates a *job*; a worker in the same process
runs the agent, streams what it does to the browser, charges the user's credits
and, on request, publishes the result. This directory holds TLA+ models of the
parts of that system in which order matters, the TLC configurations that check
them on small instances, and proofs for every size.

All paths below are relative to the repository; `worker/...`, `api/...` and
`lib/...` abbreviate `src/server/src/worker/...` and so on.

    tlasany M.tla                      parse a module
    tlc -workers 2 -config X.cfg M     model-check module M
    tlapm M.tla                        check the proofs of module M

## 1. Inventory

### 1.1 Components, their state and their operations

| Component | State | Operations |
|---|---|---|
| **Job rows** (Postgres; `api/services/project.service.ts`, `api/services/deploy.service.ts`, `api/lib/jobs.ts`) | `Job.status`, `CreditHold.status`, `Deployment.status`, attempts, heartbeat | create in one transaction, Serializable but for a new project's (one non-terminal job per project), to RUNNING, to an ending, the reaper |
| **Runner** (`worker/index.ts` `startRunner`) | `queue`, `active`, `attempts`, slot of each promise | dispatch, `pump`, `runOne`, retry, `drain` |
| **Job execution** (`worker/index.ts` `processJob`, `runJob`, `runDeployJob`, `runPreviewJob`, `markFailed`) | the position of each promise | start, work, complete, fail, cancel listener |
| **Bus** (`lib/bus.ts`) | per job: ring of frames, next index, terminal claim; `cancelled`, `resident`, waiters, pending answers, active question | emit, subscribe with replay, claim, cancel, register, answer, wait, hourly sweep |
| **Stream route and browser** (`sse-route.ts`, `web/.../useJobStream.ts`, `ProjectPage.tsx`, `useProjectStore.ts`) | watermark per job, connection, the messages on screen | connect, replay, dedup, resync, poll, hydrate |
| **Question rendezvous** (`lib/bus.ts`, `await-answer.ts`, `submitJobAnswer`, `submitSecretAnswer`) | active question, waiter, buffered answers, the ToolCall row, stored keys | ask, answer, answer again, time out, cancel |
| **Credits** (`lib/credits.ts`) | buckets, holds, ledger, usage events | reserve, meter, charge, settle, redeem, grant, reconcile, sweep |
| **Deploy and publish** (`worker/index.ts`, `deploy.service.ts`, `deploySweep.ts`) | deployments, the live pointer, the fee, files on R2, servers on Lambda | request, build, go live, roll back, unpublish, sweep |
| **Edge registry and domains** (`lib/edgeRegistry.ts`, `domain.service.ts`) | the site's rows, one record per hostname at Cloudflare | push after a change, reconcile; add, activate, prefer, remove a domain |
| **AI gateway** (`gateway.service.ts`) | times of recent requests, calls in flight, per key and in all | limit, take a place, stream, give it back, meter |
| **Agent loop and context** (`worker/agent/`) | turns, messages, stop reason | model call, tools, finish gate |
| **App storage, databases, billing** (`storage.service.ts`, `neonApps.ts`, `billing.service.ts`) | quotas, external resources, cycles | reserve, provision, grant |
| **Accounts, GitHub, admin, telemetry, edge worker, front ends, CLI** | rows, files, pages | request and response |

### 1.2 How they interact

* The API writes a row and calls `enqueueJob`, which reaches the runner as a
  synchronous callback of the bus. There is no broker: the list of waiting jobs
  is an array in the process, and dies with it.
* The runner starts jobs as promises. All of them, the API's handlers and the
  timers share one event loop: code between two `await`s is atomic, every
  `await` is a place where the others run.
* Anyone who ends a job does so with a compare-and-set on the row (`updateMany
  ... where status in [QUEUED, RUNNING]`), then settles the hold, then asks the
  bus for the one terminal frame. The run, its cancel listener, the stop button,
  a deletion, the reaper and a drain all race in this way.
* A question pauses the run on a row and on the bus. The API answers through
  both, the row first, since either of the two processes' memories may be gone.
* Publishing is a job that ends with a transaction on the project; what visitors
  see also depends on three stores no transaction reaches: files on R2, a server
  on Lambda, and a routing record at Cloudflare. Each has a sweep or a reconciler
  that goes by the rows, once an hour.
* The bus numbers the frames of a job and keeps the last ones in memory; the
  browser keeps a watermark per job, drops what it has seen and asks for a
  snapshot (*resync*) when the ring cannot continue it.

### 1.3 What is hard here, and what makes each part right

* *Job lifecycle.* A job is executed once at a time; its ending is final; the
  browser is told of it once; no slot and no hold is lost; a crash loses every
  promise, and the rows must end all the same.
* *Event stream.* A browser that reconnects, after a crash reset the numbering,
  after the ring dropped its oldest frames, or between a snapshot and the frame
  after it, must not skip a frame without being told to fetch a snapshot.
* *Rendezvous.* An answer, the timeout and a cancel race for one waiter; an
  answer meant for one question must not answer the next, one that was accepted
  must arrive, and one that was acknowledged must be the accepted one.
* *Gateway.* The counters are taken and given back across a model call that may
  fail, break off or be abandoned; the look at them is several awaits old.
* *Credits.* Whatever transactions interleave, fail or come twice: balance and
  ledger agree, a key moves the balance once, two calls never share a key, a paid
  event reaches the account, and the limits on jobs and promo codes hold.
* *Deploy.* The live pointer names a build whose files still exist, however a
  go-live, a rollback, an unpublish and the sweep interleave; the fee is paid once;
  files nobody can go back to are deleted in the end.
* *Edge.* Whatever pushes fail or overtake one another, Cloudflare ends up with
  the records the rows ask for; and without failure or overlap at once.

`PROJECT.json` lists every hazard at its line, with the properties that watch it.

## 2. Plan

In order of importance. All of these are written, run and proved about; the last
two rows are what is left.

| Module | Contents | Abstract specification | Runs | Theorems |
|---|---|---|---|---|
| `JobLifecycle` | row, hold, deployment, runner, terminators, crash | `WorkerPool`: bounded first-in first-out pool | safety, liveness, one divergence | invariants, refinement |
| `EventStream` | ring, subscribe, reconnect, watermark, snapshot, resync, refetch, poll, restart | | page (safety, liveness), two jobs, one divergence | types, nothing skipped, a page at rest is right |
| `Credits` | transactions on an account, holds, idempotency keys, webhooks, debit sequences | `Wallet`: a balance moved in single keyed steps | money, limits, one divergence | types, ledger, limits, refinement |
| `Question` | ask, wait, answer, timeout, cancel, death | `Rendezvous`: one answer, accepted, told and acknowledged | with `Gateway`: safety, liveness | types, refinement, pauses shrink |
| `Gateway` | rate, places, streams, metering | | with `Question` | types, places, rate |
| `Deploy` | build, go-live, rollback, unpublish, fee, sweep | | with `EdgeRegistry`: safety, liveness; one divergence | types, what is live or restorable is whole, the fee |
| `EdgeRegistry` | records of a site, pushes, reconciler, domains | the records are a function of the rows (`Wanted`) | with `Deploy` | types, whoever is undisturbed leaves what is wanted |
| composition | `JobLifecycle` with `EventStream` and `Question` | | the job ends and the browser shows it | |
| agent loop | turns, stop reasons, finish gate | | | |

`MCRequests` and `MCPublishing` put two modules into one run each. The two of a
pair share no variable, so a step of one never enables or disables a step of the
other: each behaviour chooses one of them at its start (`focus`) and leaves the
other at rest, which checks both without multiplying their states.

Rules the modules follow, so that they can be proved about as well as checked:
parameters are CONSTANTS with a named assumption, every handler is one action
per stretch between awaits, invariants are conjunctions of named parts, and
nothing is RECURSIVE.

## 3. The job lifecycle: `JobLifecycle`, `WorkerPool`

### 3.1 State

| Variable | In the code |
|---|---|
| `row[j]` | `Job.status`; `"none"` before the row exists |
| `hold[j]` | `CreditHold.status` of a generation |
| `dep[j]` | `Deployment.status` of a deploy: `IN_FLIGHT` stands for QUEUED, BUILDING, VALIDATING, UPLOADING |
| `queue`, `active`, `attempts` | the locals of `startRunner` |
| `pc[j]` | where the promise of `runOne` for j stands; `"accepted"` is an API handler between its transaction and `enqueueJob` |
| `cancelled`, `claimed` | `bus.cancelled`, the `terminal` flag of the job's buffer |
| `frames[j]` | how many terminal frames this process emitted (a history variable) |
| `draining` | `lifecycle.draining` |
| `tasks` | the continuations outside the runner's slots: requests, the cancel listener, a reaper pass, a drain's `markFailed` |
| `crashes`, `faults` | how much of the bounds is used up |

`bus.resident` is no variable: `markResident` and `clearResident` bracket
`runJob`, so `Resident` is read off `pc`.

### 3.2 Actions

| Action | Code |
|---|---|
| `Create` | the transactions of `addMessage`, `initializeProject`, `requestDeploy`, `restartPreview` |
| `Dispatch` | `enqueueJob` and the runner's handler; while draining, `markFailed` instead |
| `Pump` (a helper) | the loop of `pump`, with the payloads that `processJob` turns away because their job was cancelled |
| `StartRow`, `MarkBuilding`, `Progress`, `Finish`, `Complete`, `EndRun` | `runJob` and its kinds, statement by statement against the database |
| `LoseCommit` | the go-live transaction committed, its acknowledgement was lost, and the run goes into `runDeployJob`'s `catch` |
| `Throw`, `RetryPush` | the `catch` of `runOne`: the decision, and the push after its await |
| `FailDeployment`, `MarkFailed` | `runDeployJob`'s `catch`, `markFailed` |
| `Request`, `Decide` | POST cancel and `stopProjectJobs`: read the row, then decide |
| `Reap`, `ReapWedged` | a reaper pass takes up a row |
| `TaskCas`, `TaskDep`, `TaskEnd` | the statements of `terminateStrandedJob`, of the cancel listener and of a drain's `markFailed` |
| `SweepHold` | `sweepStuckHolds` |
| `StartDrain`, `Restart` | SIGTERM; a crash, or the end of the drain |

`Fault` is a database error that the code catches at that place. Errors that
nothing catches are `Throw` (in a run) or the end of a continuation (outside).

### 3.3 What the model leaves out, and why that is sound

* *Atomicity.* Two statements with no `await` between them are one step. `pump`
  is one step with the microtasks in which cancelled payloads leave
  `processJob`, because nothing else of the module's concern runs in between.
  `settle` and the terminal frame after it are one step (`EndRun`, `TaskEnd`):
  no property relates the hold to the frame.
* *Time.* There are no clocks. Any row that is not resident, and not between its
  transaction and its dispatch, may be stale; a run in its work may have been
  there beyond the three hours after which the reaper takes it anyway. One
  reaper pass runs at a time, and the pass on boot is an instance of `Reap`.
* *Statements that cannot matter* for a kind of job are skipped (the update of
  Deployments for a generation). `settle` is modelled only by what it does to
  the status; the money is the matter of `Credits`.
* *Same shapes.* `cancelAllActiveJobs`, the console's `killJob` and
  `releaseUserHolds` end rows the way the stop button does; `killJob` writes
  FAILED. They are not repeated.
* The credit check is assumed on, so a generation always has a hold. The bus's
  hourly eviction, the deletion of the project row after its jobs stopped, job
  rollups, SUPERSEDED and the live pointer are not modelled here.

### 3.4 Runs

| Run | Bounds | Shows |
|---|---|---|
| `JobSafety` | a generation and a deploy, one slot, two attempts, one crash, one request | `TypeOK`, `SingleExecution`, `SlotsAccounted`, `OneTerminalFrame`, `EndingAnnounced`, `StoppedStaysStopped`, `EndingKept`, `PoolImplemented` (the refinement of `WorkerPool`); all are proved for any jobs and any number of slots (10.1) |
| `JobLiveness` | a generation and a deploy, one crash, one fault, fairness | `EveryJobEnds`, `HoldsReleased`, and, where a commit may be lost, `ReadyKept` |
| `JobCancelWaiting` | two generations, one slot, no crash | a divergence: see 3.6 |

`CHECK_DEADLOCK FALSE` everywhere: the system stops when all jobs have ended
and the bounds are used up.

*Why these bounds are enough.* The races are between one job's own parties (run,
listener, request, reaper, drain), and between two jobs over a slot; two jobs on
one slot give a waiting list, a retry behind somebody, and a cancelled head.
A PREVIEW job takes the branches of a deploy, less the Deployment. One crash
gives everything a second one does, since a crash erases all memory and the rows
of any crash are rows of the first. The theorems hold without bounds
(section 10.1). `JobSafety` has no fault because `EndingAnnounced` is promised only
without: after an error in `settle`, the continuation ends and no frame follows.
`MaxFaults` is 1 in `JobLiveness`.

*Fairness.* `WF` for the steps that wait on the database (`RunnerStep`, each
continuation), because the database answers. `WF` for `SweepHold`, which runs on
an hourly timer. `SF` for the reaper per row: another row of the pass, or the
row being resident for a while, disables it, and the hourly pass handles every
stale row it finds in turn. `WF` for `draining /\ Restart`: a draining process
exits at its deadline (`index.ts`). The work of a job (`Finish`, `Throw`,
`Progress`) is *not* fair: a model call may hang for ever, and the reaper is
what ends such a job.

### 3.5 The properties

* `SingleExecution`: in the waiting list once, and not while it executes. It is
  what a retry, a hot reload or a second dispatch could break.
* `SlotsAccounted`, `PoolImplemented`: no slot is lost or
  overbooked over retries, cancelled payloads, drains and errors in
  `markFailed`; the list is served in order; the retry that pushes without
  pumping is saved by the pump in the `finally` of its own promise. (With two
  jobs at most one of them waits, so the *order* of a longer list is the
  theorem's matter, not the run's. That no job waits beside a free slot is part of
  what the pool promises; `WorkConserving` says it by itself and is a theorem.)
* `OneTerminalFrame`: several may speak for one ending; they are told apart by the
  claim.
* `EndingAnnounced`: while nothing has failed, a job that ended was told so or is
  about to be, and any other job is in somebody's hands (the waiting list, a slot,
  a task about to end its row), or was told already. Whoever loses a
  compare-and-set, skips a cancelled payload or finds its own run cancelled leaves
  in silence, *because* another speaks. (Why "or was told already": see 3.6.)
* `EndingKept`: completion, cancellation, failure and the reaper never replace
  each other's ending of a generation. (A deploy or preview completes without a
  guard; the code does not promise it there. And `StartRow` does replace an
  ending, by RUNNING: see 3.6.)
* `StoppedStaysStopped`: what `deleteProject` relies on when it waits for a job
  to leave the registry before it deletes the project's rows.
* `ReadyKept`: a deployment that went live is not marked as failed by somebody who
  decided earlier. The reaper and the stop button end the Job row first and turn to
  the Deployment a statement later; in between the run may have been retried or the
  process restarted. What protects the live site is the `where` clause of that second
  statement. One party may break it, and the property names it: the run itself, in
  its `catch`, when it never heard of its own commit (`LoseCommit`; see also 8.6).
* `EveryJobEnds`, `HoldsReleased`: after a crash, a hang or a fault, anywhere.

### 3.6 Where the code and its comments part

1. `CancelledWaitingNeverStarts`. The stop button of a job that still waits for a
   slot ends the row but does not signal the bus (`sse-route.ts:132`), so the
   payload stays in the list, the runner starts it, and the unguarded update at
   `worker/index.ts:480` turns CANCELLED back into RUNNING. The comment at
   `worker/index.ts:388` says only a project being deleted stops a waiting job.

Seen while modelling, with no run of its own:

* A stop that reaches a generation between `markResident` and its update to RUNNING:
  the cancel listener ends the row, settles and emits the terminal frame, and then
  the unguarded update at `worker/index.ts:480` sets RUNNING. The run finds itself
  cancelled and leaves without touching the row, so the row stays RUNNING in
  nobody's hands until the reaper, and meanwhile the project refuses new messages.
  Nothing has to fail for this. It is what the last words of `EndingAnnounced`
  leave room for: without them TLC finds it in nine states.
* A retry decided before SIGTERM pushes after it (`worker/index.ts:707`), into a
  list nobody serves, although the comment at line 687 says a retry while
  draining would only be queued and dropped, and is avoided. The job ends all the
  same, by the next process's reaper (`EveryJobEnds`).
* `terminateStrandedJob` ends the Job row and the Deployment in two statements
  (`api/lib/jobs.ts:83`), and the failed build's own update may fail
  (`worker/index.ts:358`): a crash between, or the lost update, leaves the
  Deployment in flight for good, which the comment at `api/lib/jobs.ts:77` is
  there to avoid. A drain that ends a *waiting* publish through `markFailed` does
  the same without any failure: `markFailed` ends the Job and does not know of
  Deployments.

## 4. The event stream: `EventStream`

One project, its jobs one after the other, one browser page. The run of a job is
reduced to what the page can tell: frames, the last message it persists, and its
ending. `JobLifecycle` says how the ending comes about.

### 4.1 State

| Variable | In the code |
|---|---|
| `row`, `latest`, `persisted` | `Job.status` (a job that has ended, with how); the job queued last; the jobs whose last `Message` is in the database |
| `running`, `owed` | runs of this process; ended rows whose terminal frame is still to come |
| `ring`, `next` | `JobBuffer.events`, `JobBuffer.nextIndex` (`lib/bus.ts`) |
| `cur`, `status` | `currentJobId` while the page is streaming; `status` of `useProjectStore.ts`, with `loading` for a page that is not hydrated yet |
| `shown` | the persisted messages in the transcript last rebuilt |
| `outdated` | history: an answer knew of a job's end and not of its last message, or a transcript was rebuilt without a message already on screen |
| `wm` | `watermarks` of `useJobStream.ts` |
| `conn`, `from`, `chan` | the EventSource: where it stands, `lastEventIndex`, what is on its way |
| `gets` | the page's requests for the project under way: which queries the server has made for each, and what they found |
| `sending`, `posted`, `stray`, `orphans` | a POST on its way to the database, or back; POSTs whose page has gone; history: the jobs those have created |
| `emitted`, `seen` | history: the indices this process emitted, and those the page applied or got with a snapshot |
| `used` | how many mishaps of each kind there were |

### 4.2 Actions

| Action | Code |
|---|---|
| `Send`, `Accepted`, `Refused`, `FailPost` | `useSendMessage`: the POST leaves; its answer (`startJob`), a refusal, or no answer, each followed by the refetch of `onSettled` |
| `Create` | `addMessage`'s transaction, some time after the POST left: a reload, a refetch or a poll may be answered in between |
| `Emit`, `SkipIndex`, `Publish` | `worker/lib/publish.ts`, `bus.emit`; a sub-agent's metering takes an index and emits nothing |
| `Persist`, `EndRun`, `Stop`, `Leave`, `Reap`, `EmitTerminal` | what ends a job, as far as the page sees it |
| `Subscribe` | the stream route and `bus.subscribe`: marker, or replay and listener |
| `ReadMessages`, `ReadActive`, `ReadLast` | the queries of `getProject`: transcript and active job in either order, then the latest job (if none was active) or the head of the active one's ring; `getProjectJobStatus` makes the second only |
| `Receive` | `onmessage`: dedup, terminal, resync marker |
| `Drop`, `Reconnect` | the stream breaks, noticed or not; the backoff timer |
| `ApplyResync`, `ApplyFinal`, `ApplyLoad` | the answers to the three kinds of refetch |
| `PollTick`, `ApplyPoll`, `ApplyPollDetail` | the six-second poll: a cheap status, then the project if it disagrees |
| `FailGet`, `Focus`, `Reload`, `Restart` | a request fails; window focus; page reload; a new server process |

Answers go through `Adopt`, which is `lifecycleFromDetail` and the rebuilt
transcript (`Show`), and changes of job and status through `Follow`: the
effects that run on them. A status that *becomes* done, cancelled or error sets off a
refetch (`ProjectPage.tsx:108`); idle does not, and neither does an ending that
replaces the same ending. `Seed` is `seedWatermark`.

### 4.3 What the model leaves out, and why that is sound

* *Contents.* Frames have an index and a type. Bubbles, previews, questions and
  tool rows are folded into "the transcript is rebuilt".
* *Queries that no answer is judged by*: checkpoints, fragments, usage and the waiting
  question. `ApplyPoll` may also ask for the project although the job agrees, which
  covers the details that `jobStatusNeedsResync` compares and the model does not
  have; such a fetch counts among the `loads`.
* *Preview and deploy jobs* of the page, which come without a message.
* *The cache.* `hydrate` does not run again for an answer equal to the one in React
  Query's cache. The page has applied that one before; what has replaced it since is
  a newer answer, which is then the one in the cache, or a job that was started or
  ended, which the answer after it shows.
* *Requests refused for good* (401, 403) end the page's session and are left
  out, as are the refresh of tokens and the bus's hourly eviction of buffers that
  nobody reads, which an empty ring after `Restart` stands for.
* The client can only send while its status is not streaming and its last POST is
  over (`canSend`). The composer works before the page has loaded; such a message
  counts among the `loads`.

### 4.4 Runs

A *budget* says how many mishaps of each kind a behaviour may meet: `restarts`,
`drops` (connections lost), `errors` (requests failed), `settles` (a settle failed,
so that no terminal frame comes), `stops`, and `loads` (fetches nobody's answer asked
for: a reload, the focus, the refetch after a POST, a poll that finds a detail changed;
and a message sent before the page has loaded).

| Run | Bounds | Shows |
|---|---|---|
| `StreamPage` | one job, a ring of one frame, two indices; a restart or a drop with a failed settle, a drop with a restart or an error, or a stop, or a load | `TypeOK`, `NoSilentSkip`, `EndingReachesPage`, `TranscriptCompletes` |
| `StreamFollow` | two jobs, a ring of one frame, one index each, the stop button once | `RestingPageIsRight`, `ActiveJobIsFollowed` |
| `StreamStopped` | one job, the stop button once | a divergence: see 4.6 |

*Why these bounds are enough.* A ring of one frame overflows with the second
index, which is all that a ring of 2000 does with its 2001st. Each mishap
happens at every place, and with others that can hide it. With two
jobs the answers about the first meet the second's stream, and every query of an
answer can come before or after the second's creation. `TypeOK`, `NoSilentSkip` and
`RestingPageIsRight` are proved without bounds (section 10.2), for budgets that combine
everything. `CHECK_DEADLOCK FALSE`: once everything is over nothing happens.

*Fairness.* `WF` for the server's and the page's own steps: a request is
answered or fails, a message is handled, a timer fires, the listener attaches, the
answer to a POST is heard. A run that is over leaves (`Leave`), the reaper finds a row
that no run ends, and an ended row's frame is emitted (or settle fails before it). Not
fair, because nothing promises them: that a run emits, persists or ends, that the user
sends, reloads or changes window, that connections break, that a POST arrives.

### 4.5 The properties

* `NoSilentSkip`: a page with an open stream has seen every frame this process
  emitted, or gets it on this stream, or has a resync marker coming. It holds for
  a watermark of this process. One left over from a former process can coincide
  with index 0 of the reaper's only frame; `bus.subscribe` then replays nothing
  and sends no marker, and it is the poll that tells the page.
* `EndingReachesPage`: whatever is lost, the page does not shimmer for ever. It
  rests on the poll alone when a stream dies unnoticed.
* `ActiveJobIsFollowed`: an answer that was read before a job began may take the
  page off that job; it comes back, because such an answer brings the ending of the
  job before, and that sets off one more refetch. The exceptions: a page that is
  *misled* (4.6), and a job whose own page was closed on its POST.
* `RestingPageIsRight`: a page that follows no job and waits for no answer is right:
  no job is active, and everything persisted is on screen. It holds whatever the
  stream dropped and in whatever order answers come. Its conditions are those the code
  does not look after, each named: a misled page; a failed request or a restart
  that may have cut one off (a failed settle is made up for by the poll); a job of a
  page that is gone (`orphans`); and for the transcript a stop (4.6) and an answer that
  was read too early or came in after a later one (`outdated`), since nothing orders
  two answers of the project endpoint.
* `TranscriptCompletes`: and the page does come to rest, showing everything.

### 4.6 Where the code and its comments part

2. `FinalMessagesShown`. After a stop the page refetches the transcript at once,
   on the terminal frame the cancel listener emits. The agent loop meanwhile
   finishes its turn and persists the assistant message (`worker/agent/loop.ts:793`).
   The refetch has already replaced what was streamed, and nothing fetches again
   until the window regains focus. `ProjectPage.tsx:111` says the handoff must
   never leave final messages missing.

Seen while modelling, and excluded from the properties by name:

* *Misled.* `getProject` looks for the active job (`project.service.ts:749`) and,
  finding none, for the latest (762). If the next message's transaction commits in
  between, the answer has no active job and a latest one that is QUEUED.
  `lifecycleFromDetail` makes idle of it, and nothing refetches on idle. When the
  answer is the refetch after the first job's ending, and arrives after the POST's
  own (`startJob`), it takes the page off the second job: its stream is closed, its poll
  stopped, and the page rests, idle, beside a job that runs, until a reload, the
  focus, or the refetch after the user's next message (which is refused: a job is active). The
  `StreamFollow` run finds this in 19 steps if `Misled` is left out of
  `RestingPageIsRight`.
* *Read too early.* The transcript and the active job are read side by side. An
  answer may have the first from before the last message and the second from after the
  end. If it is the refetch of an ending nothing is lost, since the message is
  persisted before that; as a load it brings an ending, and so a refetch. But if the
  page had that ending already, its status does not change, and no refetch corrects the
  transcript.
* *A page reloaded while its POST is on its way* reads no active job, rests, and
  does not hear of the job it has started.

## 5. Credits: `Credits`, `Wallet`

### 5.1 State

| Variable | In the code |
|---|---|
| `account[u]` | the three buckets of a `BillingAccount` row |
| `keys`, `booked[u]` | `CreditLedger`: the idempotency keys present, an account's sum of amounts |
| `hold[j]` | `CreditHold.status` and `consumed` |
| `redeemedBy`, `redeemed` | `PromoRedemption` rows of one code, its `redeemedCount` |
| `locked[u]`, `promoLocked` | who holds the row locks |
| `conn[c]` | the transaction a pooled connection runs: operation, next statement, row read, uncommitted signup row, snapshot |
| `call[k]` | a model call: its job, the sequence it is metered under, its tries |
| `index`, `summaries`, `turns` | `bus.nextIndex`, `summarizations`, `Message.sequence`: where a job's sequences come from |
| `event[i]` | a paid order or charged cycle: due at the webhook, or with `processedAt` |
| `Unmatched` (constant) | the orders and cycles whose account the server cannot tell: an unknown subscription or pack, missing notes |

### 5.2 Actions

A transaction is begun by its caller (`EnsureAccount`, `Reserve`, `Redeem`,
`Charge`, `Meter`, `Verify`, `Deliver`) and goes through the statements another
transaction can come between:

| Action | Code |
|---|---|
| `LockPromo` | `redeem`: `FOR UPDATE` of the code, its checks |
| `Ensure`, `ReadGrant`, `InsertGrant` | `ensureBillingAccount`: upsert, `findUnique`, `create` |
| `Lookup` | `grantPlanCycle`'s look at its key, before the lock |
| `Lock` | `lockAccount`, the look at the key under the lock, the refusals |
| `Commit` (with `Write`) | every write of the transaction, visible at once; the unique index |
| `CutOff` | the connection or the process is gone before the commit |

`Close` is what the caller does with the answer: `meterWithRetry`'s second try,
the webhook's `processedAt`. `Discard` is the webhook of an event in `Unmatched`: it
warns, returns and sets `processedAt`, and nothing is granted. `Settle`, `Pay`, `MakeTurn`, `MakeHarnessCall`,
`MakeSummary`, `PublishFrame`, `Retry` and `MakeCompletion` are the callers' own
steps.

### 5.3 What is assumed of Postgres and Prisma

A row lock is held to the end of the transaction. A row with a foreign key to
an account waits for whoever holds that account, and the other way round. A
unique key waits for an uncommitted row of the same key. An error, caught or
not, ends the transaction it happened in. The default isolation shows each
statement what is committed then; a Serializable transaction reads the snapshot
of its first statement, fails at a `FOR UPDATE` of a row *updated* since, and
fails if it and another Serializable one each read what the other wrote. An
upsert with an empty `update` reads, and writes only if there is no row.

### 5.4 What the model leaves out, and why that is sound

* *Columns nobody decides by*: types, reasons, `balanceAfter`, token usage.
* *Amounts*: one price per kind of operation. The bounds of the runs make the
  balance run dry within a bucket, across two, and exactly.
* `CREDITS_ENFORCE` is on. Off, no balance moves.
* The `EXPIRE` row of a new cycle has no key; it is part of the cycle's amount.
* `meter` returns the hold's `consumed` and the loop stops at its budget; when a
  job stops is `JobLifecycle`'s matter, and any number of calls is allowed here.

### 5.5 Runs

| Run | Bounds | Shows |
|---|---|---|
| `CreditsMoney` | one account, two connections, one each of job, call, order, cycle and code, one second attempt of the job; one fault | `TypeOK`, `LedgerMatchesBalance`, `ProcessedMeansGranted`, `WalletImplemented` |
| `CreditsLimits` | two accounts, two connections, four jobs of one account, two of each kind, limit 1, one redemption, a flat fee, an unmatched cycle; one fault | `CapAmongEqual`, `PromoWithinLimit` |
| `CreditsDebitKeys` | one job, two calls | a divergence: see 5.7 |

*Why these bounds are enough.* Accounts share nothing but promo codes, so one
account shows the money and two show a code. Transactions of an account meet in
pairs, at one lock; with two connections every pair of operations meets at every
pair of statements. Each operation of `CreditsMoney` is there once and may be
repeated by its caller (`meterWithRetry`, `Verify`, `Deliver`, `Redeem`), which
is where a key has to hold; a flat price and an unmatched event, which grants
nothing, are left to the second run and, for the wallet and `ProcessedMeansGranted`, to
the proofs (10.3). A call costs 4 of a granted 3, so that it runs
a bucket dry, overspends, and takes from the plan's bucket once there is one. No
fairness is assumed: nothing here
has to happen. `CHECK_DEADLOCK FALSE`: a request may simply not come.

### 5.6 The properties

* `LedgerMatchesBalance` is the invariant `prisma/schema.prisma:871` states and
  `reconcileAccount` reports on. It breaks if one writer does not wait for the
  row lock, or records what was asked and not what was taken. It has one
  exception, which the property spells out: the account row of an
  `ensureBillingAccount` outside a transaction is there before its ledger row.
* `WalletImplemented`: the account, seen from outside, moves in single steps, each
  under a key used once and by what that key allows (`Wallet`). It is what
  "idempotent" means in every comment of `lib/credits.ts`, for all writers at
  once: two tries of a debit, callback and webhook of one order, two deliveries
  of a cycle past the unlocked look at the key, a commit whose answer was lost.
* `ProcessedMeansGranted`: `processedAt` is written last, so a crash costs a
  redelivery and never the customer's money. It speaks of the events whose account
  the server can tell; of the others see 5.7.
* `CapAmongEqual`: two new projects are ordered by the row lock, two messages by
  Serializable. (One of each is not: see below.)
* `PromoWithinLimit`: the count, the redemptions and the ledger agree, and stay
  within the limit.

### 5.7 Where the code and its comments part

3. `DebitKeysDistinct`. A summary of the context is metered under
   `-summarizations` (`worker/agent/loop.ts:654`), sub-agents and other calls of
   the harness under `-nextIndex()`. Both are small negative numbers of the same
   job; when they meet, `meter` takes the second for a retry of the first and it
   is never charged. The comments say the counter gives a sequence no other
   debit has.

Seen while modelling, with no run of its own: `addMessage` counts the holds in
force under the account's lock, but in a Serializable transaction, whose snapshot
is older than the lock. `initializeProject` runs at the default isolation; if it
commits in between, its hold is not in the snapshot, its lock does not count as
an update, and Serializable protects only against its like. Both get the one
place that `CREDITS_MAX_CONCURRENT_JOBS=1` gives (`project.service.ts:505`,
`credits.ts:207`).

Seen while modelling, and excluded from `ProcessedMeansGranted` by name: the webhook
marks events as processed that it has only warned about. A subscription it does not
know (`billing.service.ts:388`), an order without its notes (445) or of a pack that is
sold no more (447) returns early, and 375 sets `processedAt` all the same, so that no
redelivery ever grants it. `subscribeToPro` creates the subscription at Razorpay and
only then writes its row (225-243): a process that dies in between leaves a
subscription that can be paid, and whose every charge is discarded.

## 6. A question and its answer: `Question`

The agent asks its user something (`ask_user`), or for keys of a third party
(`request_secret`), and the run pauses. The tools that ask run one at a time, so
a job waits for at most one question.

### 6.1 State

| Variable | In the code |
|---|---|
| `toolCall[q]` | the ToolCall row: status, and the answer in its output |
| `secrets` | the keys stored by `saveProjectSecrets`, by the question they answer |
| `jobRunning` | the Job row is not terminal |
| `residentHere`, `stopped` | `bus.resident`, `bus.cancelled` |
| `activeQuestion`, `pendingAnswers` | the same on the bus |
| `worker` | where `runOne`, the tool and `awaitAnswer` stand, and what they will return; `"waiting"` is a waiter on the bus |
| `request[r]` | an HTTP request: where its handler stands, the question, the answer, the Job row it read |
| `accepted`, `outcome` | history: the answer whose claim was committed; what the model was told |

### 6.2 Actions

| Action | Code |
|---|---|
| `CreateCall`, `Return`, `ReturnError` | `runOne` around the tool |
| `RegisterQuestion`, `RegisterFails`, `Loop`, `Quit` | `registerQuestion`, the loop of `awaitAnswer`, `waitForUserResponse`, `clearQuestion` |
| `TimerFires`, `ReadPersisted` | a wait of at most five seconds without an answer, and the look at the row after it |
| `Expire`, `Reread` | the deadline: RUNNING becomes FAILED unless the API was first, and then the row is read again |
| `AwaitThrows` | a statement fails |
| `Submit`, `Look`, `SaveSecrets`, `Claim`, `AfterLostClaim`, `Push` | `submitJobAnswer` and `submitSecretAnswer`, statement by statement, with `pushUserResponse` |
| `RequestCancel`, `RunEnds`, `ProcessDies` | the job around the question |

The row and the bus carry the same news. `Claim` decides which answer counts;
`Push` is only the fast way. If the request dies between the two, or its
acknowledgement is lost, the row is all there is, and `ReadPersisted` finds it.

### 6.3 What the model leaves out, and why that is sound

* *Forms.* Validation of an answer against the question, and the values of keys.
  Keys are never compared (`Repeated`), as in the code.
* *Time.* `Patience` counts waits, as nothing depends on their length. The
  deadline is therefore a number of waits; an answer may come at every place.
* *The job.* How it ends is the subject of `JobLifecycle`; here it may end whenever
  it does not wait, be stopped, or die with its process.

### 6.4 Run, bounds and fairness

`Requests` (with the gateway): one question of each kind, two answers, two
requests that may each answer either question, two waits, two faults (a failed
statement, a lost acknowledgement, a death), one stop. Two requests are two tabs
or a request and its retry; a third would meet the row in a state one of two has
met already. Two waits have an answer before, between and after them. `WF` for
the worker's and the requests' steps: timers fire and statements are answered.
Not fair: that a question is asked or answered, that a run is stopped.

### 6.5 The properties

* `RendezvousImplemented`: row, bus, timer, two tabs and retries together do what
  `Rendezvous` promises, a module that knows of none of them. Its state is what
  anybody sees: the stored keys, the accepted answers, what the agent was told
  (`outcome`) and what the requests were told (`Acknowledgements`). Its steps are the
  promise: the first answer is the only one, its keys are stored before ("Order
  matters", `projectSecret.service.ts:91`), the agent is told once and of nothing
  else, it is not told of a timeout beside an accepted answer, and a request is told
  OK only of that answer. It would break if a push did not ask for the active
  question, if an answer were left over for the next one, if the timeout did not go
  by the row, or if a lost claim were taken for a repetition.
* Three invariants say the same of states, and are theorems (10.4):
  `AcceptedIsDelivered`, `AcknowledgedIsAccepted`, `ToldKeysAreStored`.
* `CancelReleasesRunner`: no interleaving lets a cancelled job fall back into a
  wait, which would hold its slot until the deadline.
* `PauseShrinks`: a pause passes at most `7 + 2 * Patience` awaits, counted down by
  `AwaitsLeft`: no late answer, retry, cancel or failure gives it back a wait it has
  used up, as a loop that starts its deadline again would.
* `EveryQuestionEnds`: and under fairness it does pass them.

## 7. The gateway: `Gateway`

Published apps call AI models with a key of their project; the gateway limits
requests per minute and in flight, per key and over all keys, and charges.

| Variable | In the code |
|---|---|
| `recentRequests[k]`, `openedAt`, `lastSweep` | the limiter's lists of times, by the calls they belong to; its last sweep |
| `inFlight[k]`, `inFlightGlobal` | the counters of calls in flight |
| `call[c]` | a completion: its key, and the await it is at |
| `inCredit` | whether the balance and the key's daily cap have room |
| `metered` | the calls with a usage row and a debit |

| Action | Code |
|---|---|
| `Limit`, `LookAtAccount` | `preflight` up to its first await, and its queries |
| `Acquire`, `ReleaseSlot` | `acquireSlot`, `releaseSlot` |
| `ConnectFails`, `Connected`, `StreamEnds` | the ways out of `chatCompletion` and `streamChatCompletion`, the `finally` of the generator |
| `Meter` | `meterGateway`; what it does to the balance is in `Credits` |
| `Refill`, `Tick` | a top-up or the next day; time |

*Left out, and why that is sound.* Request and response formats, tokens and
prices: no counter depends on them. Keys that are revoked in the meantime: a call
is bound to the key it came with. Time is in ticks; a window of two ticks has a
moment inside that is neither end.

*Run.* `Requests`: three calls, one of them streamed, over two keys at least
(the third call's key is free); one place per key, two in all, one request per
window, two windows. Each limit is reached and passed again. With these the
per-key and the global ceiling refuse in turn. `WF` for a call's own steps: the
provider answers, or its timeout or the wall clock of a stream ends the call.

*Properties.* `SlotsMatchHolders`: the counters are the calls in flight and within
their ceilings on every way out, though `preflight` looked at them several awaits
earlier. A leak of one place per failed connection would take a server's global
places away over days, and no test waits for that. `RpmRespected`: in *every*
window, not only the aligned ones, wherever the sweep of idle keys falls.
`DeliveredIsMetered`: a stream whose reader has gone is charged too.

*Seen while modelling.* The place is given back before the call is metered, so
`GATEWAY_MAX_CONCURRENT` does not bound how far calls in flight together
overshoot the balance. A stream's generator that is never started never runs its
`finally`; the route always starts it.

## 8. Publishing: `Deploy`

The versions of one project's site, for an app with a server.

### 8.1 State

| Variable | In the code |
|---|---|
| `siteJob[d]` | `Job.status` of the deployment's job |
| `deployment[d]` | the Deployment row: status, `purgedAt`, `backendUrl`, and whether its window (seven days, or one for a failed build) is over |
| `live`, `fee` | `Project.liveDeploymentId`; `publishFeePaidAt` and the ledger's rows of the fee |
| `site[d]`, `server[d]` | the objects under the build's R2 prefix; its Lambda version and alias |
| `build[d]` | where `runDeployJob` stands |
| `readLive`, `readPaid` | what the go-live transaction has read |
| `rollback` | the target of a rollback whose transaction is open |
| `sweep` | `sweepDeployments` and `pruneBackend`: their position and what they have read |
| `mishaps` | how much of the bounds is used up; `late`: a rollback committed after its window; `stranded`: builds whose objects a deletion left behind, with nobody to take them up |

### 8.2 Actions

| Action | Code |
|---|---|
| `RequestDeploy`, `StopWaiting`, `Unpublish` | `requestDeploy`, the stop button of a waiting publish, `unpublish` |
| `BeginRollback`, `CommitRollback` | `rollbackDeploy`: its checks, its commit |
| `StartBuild` to `VerifyBackend` | `runDeployJob` call by call: build and upload, function version, alias and URL, `backendUrl`, the check of the URL |
| `BeginGoLive`, `CommitGoLive` | the transaction of `worker/index.ts:253`: the read, the writes and the COMMIT |
| `FinishBuild`, `BuildFails`, `MarkBuildFailed`, `Die`, `ReapBuild` | the ends of a build |
| `StartSweep`, `ClaimPurge`, `DeleteSite`, `DeleteFails` | `sweepDeployments` |
| `ReadKeep`, `ListAliases`, `DeleteAlias`, `DeleteVersions` | `pruneBackend` |
| `Age` | seven days, or one, go by |

*Isolation.* Publish, rollback and unpublish are Serializable: one whose rows
somebody else has written since fails. They are single steps, but for the rollback,
whose look at the clock is older than its commit; `Beside` is the failure. Going
live runs at READ COMMITTED. It is two steps, and nothing protects what it
read but the row lock its first write takes, and the rule that one job of a project
is active at a time.

### 8.3 What the model leaves out, and why that is sound

* An app without a server takes the same steps less four.
* The caps on publishes per day and on live sites, and visibility, decide
  whether a request is accepted at all.
* The statements of `terminateStrandedJob` are one here; `JobLifecycle` has them
  apart.
* A build cannot outlive its window: seven days against a job's three hours.

*Stricter than Postgres.* `Beside` fails an open rollback whenever somebody has written
one of the project's rows. Against another Serializable transaction that is what
Postgres may do; against a writer at READ COMMITTED (a build, the sweep) it only
fails a rollback that writes the same row. A build that runs beside a rollback needs a
publish that was stopped while it waited; the sweep writes rows that are out of the
window, of which the rollback writes at most its target. So the model leaves out
rollbacks that commit although an unrelated row has changed since they began, and
nothing else.

### 8.4 Runs

| Run | Bounds | Shows |
|---|---|---|
| `Publishing` (with the registry) | two deployments, a stopped publish, a failed call, a death | `DeployTypeOK`, `LiveIsWhole`, `RestorableIsWhole`, `FeePaidOnce`, `DeadSitesReclaimed` |
| `DeployLiveServer` | two deployments | a divergence: see 8.6 |

Two deployments are the one that is live and the one that replaces it, the one
rolled back to and the one left, the one swept and the one being built: every
step of the code relates at most these two. Mishaps happen once each, at every
place; one commit's acknowledgement may be lost (8.6). `WF` for the sweep (an hourly timer), for
each build's next step, the reaper included, and for the passing of time. The
owner does nothing by necessity.

### 8.5 The properties

* `LiveIsWhole`: the pointer names a row that says READY and is not purged, all its
  files are there, and no other row says READY. It is what the guard in the claim's
  `where` clause, the supersession of what was read, and the failing of
  Serializable transactions are for, together. Three exceptions are spelled
  out, each as narrow as it could be made, and all are real: `Torn`, `Disowned`, and
  a publish that was stopped (8.6).
* `RestorableIsWhole`: what a rollback would accept can be served. A deletion that
  broke off half way hands the row back, and the row must not be restorable then.
* `FeePaidOnce`: whichever publishes race, and whatever dies in between.
* `DeadSitesReclaimed`: files of a build nobody can return to go in the end, though a
  deletion throws and the row is handed back. Not if the process dies between claim
  and deletion, and not for a build that was *stranded* (8.6).

### 8.6 Where the code and its comments part

4. `LiveServerIsKept`. The comment at `deploySweep.ts:133` says the sweep keeps the
   servers of builds "still being built". It keeps the deployments whose
   `backendUrl` is set, and a build sets it only after it has created its alias. If the
   sweep reads that list just before, and the list of aliases just after, it
   deletes the server of a build that then goes live, when the build has already
   checked its URL. No failure is needed.

Seen while modelling, and excluded from the properties by name:

* *Torn.* The sweep's claim checks the status again, but not the window
  (`deploySweep.ts:106` against 43-45). A rollback whose check was in time and
  whose commit was not, the site being unpublished at once, and a deletion that
  fails half way leave a restorable build without all its files.
* *Stranded.* The comment at `deploySweep.ts:123` says a blip should not strand the
  objects. Two things do: the update that hands the row back may fail in its turn,
  and `.catch(() => {})` swallows that (128); and `deleteKeys` returns the objects R2
  refused to delete one by one (`s3.ts:238`), which `deleteSitePrefix` drops, so that
  the deletion counts as done. Either way `purgedAt` stays set, and no later pass looks
  at the row again. `DeadSitesReclaimed` excepts the builds this befell.
* *Stopped, and run all the same.* A publish stopped while it waits is started
  later (section 3.6), beside the next publish. Both go live, and the
  one whose row was not read is left READY with nothing pointing at it, which
  the comment at `worker/index.ts:249` rules out.
* *Disowned.* If the acknowledgement of the go-live's COMMIT is lost,
  `runDeployJob` marks the build FAILED although it is live, and a day later the
  sweep deletes the files of a live site. The run loses one such acknowledgement;
  `LiveIsWhole` excepts only the build it befell.

## 9. The edge: `EdgeRegistry`

A router at Cloudflare serves published sites by one record per hostname. Whoever
changes a site's rows pushes all its records afterwards (`syncProject`), in two
queries and a call, with nothing to order two pushes; an hourly reconciler
compares everything with everything.

### 9.1 State and actions

| Variable | In the code |
|---|---|
| `project`, `domain[d]` | what `SITE_SELECT` reads: the live deployment, the suspension; each domain's status and preference |
| `kv[h]` | Cloudflare's record for a hostname |
| `handler[c]` | a change: where it stands, the rows it read, the records it will write |
| `reconciler` | `reconcileEdge`, with what it wants, will put and will remove |
| `disturbed` | history: two of these were at work at once, a call failed or a handler was cut off, and no pass of the reconciler has started alone since |

| Action | Code |
|---|---|
| `PutLive`, `TakeOffline`, `Suspend` | go-live and rollback, unpublish, `suspendProjectSite` |
| `AddDomain`, `Activate`, `SetPrimary`, `BeginRemoval`, `Release`, `DeleteDomain` | `domain.service.ts` |
| `BeginDeletion`, `ReleaseOne`, `DeleteRows`, `RemoveSite` | `deleteProject` |
| `SyncReads`, `SyncReadsBuild`, `SyncWrites` | `syncProject`, `statesOf`, `syncRows` |
| `Abandon` | the process dies, or a statement fails, between two steps of a handler: before its push, or between a domain's release and its row's deletion (`domain.service.ts:384`) |
| `ReconcileReads` to `ReconcileRemoves`, `ReconcileFails` | `reconcileEdge` |

`Wanted`, built of `recordFor`, `recordsFor` and the redirect to the primary
domain, is the specification: what Cloudflare should hold, as a function of the
rows. `Deploy` has the full story of the live build; here any build may become live.

*Left out, and why that is sound.* The badge is one more field of the record. What
happens to a domain before it is active writes no record. A write of several
records is one call and one step; a failed one may have been carried out.
Other sites are independent of this one; the reconciler's pass over them is a pass
over this.

### 9.2 Run, fairness, properties

`Publishing`: two builds, a custom domain, two changes of any kind, the reconciler,
one failed call or cut off handler. Two changes overlap in every way their calls can. `WF` for the
changes' own steps and for the reconciler's; not for the changes themselves.

* `EdgeSettles` (`kv = Wanted` in the end, for good): with two changes the model
  shows pushes overtaking each other, a record put back after its domain's removal,
  a redirect to a removed domain, an orphan after a deletion, a pass that works
  on what it read too early; and that the next pass repairs each. It takes a
  reconciler that starts from the listing, not from what is wanted, to find orphans.
* `UndisturbedIsWanted`: whoever is left alone leaves Cloudflare right. From the start,
  or once a pass has started with nobody else at work, the records are `Wanted`
  whenever nobody is at work, until two overlap, a call fails or a handler is cut off. It says that each
  change pushes every hostname it has an effect on, which is easy to get wrong
  (removing the primary domain changes the record of the default address), and that
  one pass repairs whatever came before.

*Seen while modelling*, each until the next pass, up to an hour: of two pushes the
one that read first may write last, and serve a site that was suspended in
between; a push whose build was superseded between its two queries removes the
record; a push beside `removeDomain` (the record goes first, then the row) adds
the record again; a removal that read the preference before it was changed
leaves the default address redirecting to the removed domain; a removal cut off
after the release leaves an active domain without its record.

## 10. Proofs

### 10.1 `JobLifecycleProofs`

Proved for every finite set of jobs, every kind, every limit and every bound,
from `JobAssumption` alone:

| Theorem | States |
|---|---|
| `TypeCorrect` | `Spec => []TypeOK` |
| `ExecutionIsSingle` | `Spec => []SingleExecution` |
| `SlotsAreAccounted` | `Spec => []SlotsAccounted` |
| `WorkIsConserved` | `Spec => []WorkConserving` |
| `TerminalFrameIsUnique` | `Spec => []OneTerminalFrame` |
| `EndingsAreAnnounced` | `Spec => []EndingAnnounced` |
| `EndingIsKept` | `Spec => EndingKept` |
| `ReadyIsKept` | `Spec => ReadyKept` |
| `StoppedStaysOut` | `Spec => StoppedStaysStopped` |
| `RunnerImplementsPool` | `Spec => PoolImplemented` |

*The argument.* The inductive invariant `IInv` is `TypeOK`, `SingleExecution`,
`SlotsAccounted`, `WorkConserving` and two facts no run lists: `Fresh` (a job
whose row does not exist is neither executed nor in the list, so that the
transaction which creates it does not hand it out twice) and `FramesClaimed`
(a job has one frame if it is claimed and none if not, which makes the claim
strong enough to prevent the second frame). None of the four named properties is
inductive alone: that a job is not started twice needs that the list has no
repetition and no executing job; that the counter is right needs both.

The runner's part is proved through one lemma about `Pump` (`PumpKeepsRunner`),
which every action that pumps cites, and one that sorts the steps by their effect
on the runner (`StepShape`): a step is quiet, or submits, releases, requeues,
closes or resets. From that one classification follow both the runner's
invariants and, with `PumpServes`, the refinement of `WorkerPool`, step by step.
The rows' part is proved per action. `EndingAnnounced` needs more than itself:
`CaredFor(j)` also says that a cancelled job has its ending due, was told of it, or is
a resident that is not a generation; that a run past its start has a row that is
RUNNING or ended; and that tasks concern rows that exist. A step about another job
leaves `CaredFor(j)` alone (`AsideCares`), the steps of the run and of the tasks about
`j` are taken one by one (`RunStepCares`, `TaskStepCares`), and `PumpHands` says what a
pump does to a waiting job: it is started, or goes on waiting, or was cancelled.

*Out of reach of the prover, checked by TLC only:* the two liveness properties
(fairness and ENABLED), and the divergence, which is a counterexample.

### 10.2 `EventStreamProofs`

Proved for every finite set of jobs, every size of the ring and every bound, from
`StreamAssumption` alone:

| Theorem | States |
|---|---|
| `StreamInvariant` | `Spec => []IInv` |
| `StreamTypeCorrect` | `Spec => []TypeOK` |
| `NothingSkipped` | `Spec => []NoSilentSkip` |
| `PageRestsRight` | `Spec => []RestingPageIsRight` |

*The argument.* `NoSilentSkip` speaks of an open stream; to be kept by every step
it needs to know why the stream was complete when it was opened, and what the
watermark meant at that moment. `IInv` says, part by part: the ring is in order
and, from its oldest frame on, complete (`Books`); below a watermark of this
process nothing is unseen, and a watermark of a former process belongs to a job
that gets at most one more frame, its last (`Cursor`, `Orphan`); a job that does
not exist is known to nobody (`Unborn`); requests hold only heads that were
emitted (`Heads`); a stream that is being requested asks for the frames after the
current watermark, and at most one resync is under way (`Page`); an open stream
carries the marker first, or frames in order that complete what was seen
(`Carried`).

The ring is the arithmetic part: `Suffix` and `CappedIs` say what `SubSeq` does to
it, `PublishKeepsBus` that one more frame keeps the books whether or not the
oldest is dropped. `SubscribeCarried` is the heart: a reader at `i` who is not
told to resync has `ring[1].index <= i + 1`, so that every frame it has not seen
is in the ring, and the frames replayed are those. `ReceiveCursor` shows that a
watermark may move to the frame at the head of the stream, and `StaleCursor` why
the one frame an orphan can still get does no harm.

*The page at rest.* `RestingPageIsRight` says nothing of a page that waits for an
answer; `Homing` does. It belongs to an invariant of its own, `HInv`: a page that
follows nothing and is not misled has a fetch under way that has not looked for the
active job yet or has found one (`Looking`), or else no job is active (but of a page
that is gone) and everything persisted is on screen, or in the answer of a fetch whose
transcript is not read yet or complete (`Knows`). `FollowLooks`: a page whose status
becomes an ending starts such a fetch. `AdoptHomes` is the heart: an answer that is
taken over names a job, or brings an ending the page did not have, which looks again,
or brings the ending it had, and then leaves the page as right as it was, or is idle:
then the page is misled, or there has never been a job. It needs what each query of an
answer can have found (`Reads`), that the page streams exactly while it follows a job
(`Streaming`), and that while nobody stops a run, runs persist only while their row is
active (`RunsActive`). `HomingStays` carries the steps that touch neither jobs nor
transcript. Nothing is assumed of the order in which answers are applied.

*Out of reach of the prover, checked by TLC only:* the liveness properties of the
page, and the divergence.

### 10.3 `CreditsProofs`, `WalletProofs`

Proved for any finitely many accounts, jobs and calls, any connections, orders, cycles and
fees, any amounts, limits and number of faults, from `CreditsAssumption` alone:

| Theorem | States |
|---|---|
| `CreditsTypeCorrect` | `Spec => []TypeOK` |
| `LedgerKeepsBalance` | `Spec => []LedgerMatchesBalance` |
| `ProcessedIsGranted` | `Spec => []ProcessedMeansGranted` |
| `PromoLimitKept` | `Spec => []PromoWithinLimit` |
| `CapAmongEqualKept` | `Spec => []CapAmongEqual` |
| `AccountImplementsWallet` (`WalletProofs`) | `Spec => WalletImplemented` |

*The ledger.* That balance and ledger agree is not inductive: a commit writes the
row its transaction computed earlier, and this is right only if nobody has
written the account since. `IInv` therefore says what a transaction in progress
knows. `Reads`: the row it has read is the row as it stands, and it holds the
lock. `Grants`: a signup row about to be written is missing, and one transaction
at most is about to write it. `Stages`: where a transaction stands, what it has
got by then, and that the account it moves exists. `Metering`: a model call is
metered by one transaction at a time. `Opening`: what exists belongs to an account
that exists. `AmountIsChange` is the arithmetic: for each kind of operation, what
the ledger records is what the buckets lost or gained, also when they run dry.
`EndKeeps`, the lemma every commit, refusal and cut off transaction cites, joins
the two.

*The webhook.* `ProcessedIsGranted` holds for any set of unmatched events, whose
discarding (`DiscardKeeps`) touches neither account nor ledger; that the others close
only behind their grant is what `Stages` says of a delivery.

*The promo code.* `PInv` adds that from its checks to its commit the redeemer holds
the row of the code, and that the checks are still true. The count moves only in
such a commit.

*The concurrency limit.* `CapHolds` says what a reservation knows. One at the default
isolation counts under the row lock, where no other transaction of the account
commits a hold before it does. A Serializable one counts its snapshot, which
contains the holds of its kind as long as it is not stale, and a stale one is
refused or fails. A hold of the other
kind in the count only makes it larger.

*The wallet.* Three steps of the code change what the wallet shows: `Ensure`
opens an account, a commit applies its key or, when it repeats one, at most opens
the account, and a signup row is outside of the wallet's keys. That a commit
applies the amount its key stands for rests on `IInv` (it writes from the row as
it stands) and on four facts more, `WInv`: a flat price about to be written is
covered (`Covered`), no plan bucket holds more than a cycle's allotment, so that a
new cycle never takes anything away (`PlanWithin`), a job's debit key belongs to the
account of its call, and its sequence is in the range of the wallet's keys
(`Placed`, `CountsWithin`).

*Left to TLC:* the divergence, which is a counterexample.

### 10.4 `QuestionProofs`

Proved for any questions, answers and requests, any patience and number of
faults, from `QuestionAssumption` alone:

| Theorem | States |
|---|---|
| `QuestionTypeCorrect` | `QuestionSpec => []QuestionTypeOK` |
| `TheAcceptedIsDelivered` | `QuestionSpec => []AcceptedIsDelivered` |
| `TheAcknowledgedIsAccepted` | `QuestionSpec => []AcknowledgedIsAccepted` |
| `TheToldKeysAreStored` | `QuestionSpec => []ToldKeysAreStored` |
| `CancelReleases` | `QuestionSpec => []CancelReleasesRunner` |
| `QuestionImplementsRendezvous` | `QuestionSpec => RendezvousImplemented` |
| `PausesShrink` | `QuestionSpec => PauseShrinks` |

*The argument.* An accepted answer travels in one of two ways, on the row and
through the bus, and `IInv` follows it on both. `RowsStand`: a row that waits has
none, and one that was accepted stays on the row until the model has been told.
`BusStands`: what is in the bus belongs to the question the worker is at, and is
the accepted one. `WorkerStands`: what the worker is about to return is the
accepted answer, and it times out only on a row that neither has one nor can get
one. `RequestsStand`: a request that pushes, or was told OK, named the accepted
answer, and one that claims a secret has stored it. Most steps touch one side
only: `PauseKept` carries those of the worker's wait, which leave rows and
requests alone but for an expiring row, and `MoveKept` those in which a request
moves on. `Claim`, `Push` and `Return`, which join the two, have lemmas of their own.

*The rendezvous.* Its steps are the four that somebody outside sees: keys stored, a
claim, an outcome, an acknowledgement. `WorkerMeets` maps the agent's steps (a
`Return` delivers, expires or withdraws, by what `WorkerStands` says of the result),
`RequestMeets` those of a request, and `JobIsHidden` says that the job around them is
not seen. `AcknowledgedOnce` is what makes the map a function of the
requests: they come to OK one at a time, and nothing takes it back.

*The countdown.* `AwaitsLeft` is a measure, and `WorkerShrinks` shows that each of
the agent's steps lowers it, `LoopShrinks` the one that goes round: it waits again
only with one more wait used up. `OthersShrink`: from outside, a wait is left alone
or ended. That is the whole of `EveryQuestionEnds` but for its fairness.

### 10.5 `GatewayProofs`

Proved for any finite set of calls, any keys, limits and window, from
`GatewayAssumption` alone:

| Theorem | States |
|---|---|
| `GatewayTypeCorrect` | `GatewaySpec => []GatewayTypeOK` |
| `SlotsAreKept` | `GatewaySpec => []SlotsMatchHolders` |
| `RateIsKept` | `GatewaySpec => []RpmRespected` |

*The places.* `SlotStep` sorts the steps into those that take a place, give one
back, or do neither; the counting lemmas say what each does to the set of
holders, per key and in all. Whichever way a call ends, it gives back exactly one.

*The rate.* `RpmRespected` speaks of every window, not only of the one that ends
now, so the invariant needs what the limiter remembers: `Recorded` says that a
call that passed within the last window is still on its key's list, whatever the
sweep of idle keys has removed. A call is let through only below the limit; the
windows that contain it and end later contain no more than the limiter counted.

### 10.6 `DeployProofs`

Proved for any deployments and any number of stops, failed calls, deaths and lost
commits, from `DeployAssumption` alone:

| Theorem | States |
|---|---|
| `DeployTypeCorrect` | `DeploySpec => []DeployTypeOK` |
| `FeeIsPaidOnce` | `DeploySpec => []FeePaidOnce` |
| `RestorableStaysWhole` | `DeploySpec => []RestorableIsWhole` |
| `LiveStaysWhole` | `DeploySpec => []LiveIsWhole` |

*The argument.* Many kinds of step write the rows, the objects and the pointer.
`StepMoves` shows that every step but a rollback's moves each row in one of nine
ways (`RowMoves`) and its files accordingly (`SiteMoves`); the invariant is then
proved once, against those ways. `BuildsStand`: a build under way has its row, its
files once they are uploaded, and is out of the sweep's reach. `SweepStands`: what
the sweep deletes is over and claimed. `RollbackStands`: the target of a rollback
whose transaction is open is still whole when it commits. `FeeStands`: what a
go-live has read of the fee is not undone.

`LiveInv` adds the pointer. `LiveStands` is where a lost commit does harm: without one,
a build about to be marked as failed did not go live; with one, what is live is
READY or was given up by its own build. `OneAtATime` holds as long as no
waiting publish was stopped: nobody else moves the pointer while a job is active,
so that the row a go-live replaces is the one it has read.

### 10.7 `EdgeProofs`

Proved for any builds, domains and handlers, from `EdgeAssumption` alone:

| Theorem | States |
|---|---|
| `EdgeTypeCorrect` | `EdgeSpec => []EdgeTypeOK` |
| `RestIsWanted` | `EdgeSpec => []UndisturbedIsWanted` |

*The argument.* The property compares the records at the edge with what the rows
want when nobody is at work; the invariant must say how far whoever is at work
has come. `SerialInv`: while nothing disturbs it, whoever is at work is
alone, and what it has done plus what it will do comes to `Wanted`. `HandlerAims`
says it for each stage of a change (a push is owed, its rows are read, its
records are computed, a domain's record is removed before its row, a project's
records go after its rows). `PassAims` says it for the reconciler, which may find any
records: once it has the listing, what it will put is exactly what is wanted and not
there, and what it will remove exactly what is there and not wanted
(`ReconcilePutsStep`, `ReconcileRemovesStep`), so that a pass makes right what
others left wrong. A push overwrites the records of what is served and nothing else, and so is enough
only because nothing else has a record (`StrayFree`), for which a deleted
project must leave no domain behind (`NoOrphans`). `OneActs` and `PassActs` reduce
each step to the aims of the one who takes it.

*Out of reach of the prover, checked by TLC only:* the liveness properties of
these four modules, and the divergence of `Deploy`.

## 11. Not modelled

See `components` in `PROJECT.json`, each with its reason. In short: what is
planned (section 2), what is input and output against other services (Neon, AWS,
Cloudflare, GitHub, the sandbox), what is content (templates, design, prompts),
what is presentation, and the separate command line agent.
