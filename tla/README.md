# Formal model of ps-observability

ps-observability lets a tool observe and drive a running Blitz application. The
crate `blitz-control-protocol` carries the vocabulary and its transports: an
application starts a control server on a Unix socket and announces it with a
descriptor file; a tool finds the descriptor, connects, sends commands to the UI
thread and follows diagnostic events. The crate `ps-qa` is such a tool: it runs
suites of checks against an application, waits for the result each one declares,
sweeps whole surfaces, and replaces hosts that stop answering.

This directory holds TLA+ modules for the parts of the two crates whose
correctness depends on order, time, failure or a judgement that is easy to get
wrong; TLC configurations that check them on small instances; and proofs, checked
by TLAPS, about sixteen of those modules: both handoffs, the journal, a connection,
the server lifecycle, the settling of an outcome, the suite loop, the body of a check,
the waits, the WebGPU checks, the loading of checks and of plans, the coverage, the
reveal, the button sweep and the host processes. `PROJECT.json` lists the components,
the hazards of the code at their lines, the runs, the theorems, and the lines each
definition stands for.
Paths below are relative to the repository.

    tlc -workers 2 -config Journal.cfg Journal.tla       # model-check one run
    tlc -workers 2 -config MCSurfaces.cfg MCSurfaces.tla # the algorithms of ps-qa
    tlapm JournalProofs.tla                              # check the proofs of one module
    tlapm HarnessProofs.tla                              # those of the parts of MCHarness

## 1. Inventory

### The protocol crate, `crates/blitz-control-protocol/src`

| Part | State | Operations | Meets |
| --- | --- | --- | --- |
| Latest-value slot, `latest.rs` 20-117 | a value behind a lock, an atomic revision, a wake | `set`, `set_now`, `get`, `revision`, `changed_since` | the application publishes frames; server connections follow them |
| One-shot handoff, `latest.rs` 118-237 | an optional value and a finality flag behind one lock, a wake | `fill`, `send`, `abandon`, `recv` | the bridge between a connection task and the UI thread |
| Diagnostic journal, `journal.rs` | a bounded ring of numbered records, a wake | `publish`, `read_after`, `next_after` | event source of the server and the in-process transport |
| Inspector client, `client.rs` | next id, queued events and notifications, count of the lost ones, stored failure, timeout, target context | `initialize`, `agent`, `diagnostics`, `arm_paint_events`, `wait_for_paint`, `drain` | one socket; used by ps-qa |
| Server connection, `server.rs` 364-620 | the observed streams, the position in the event source, the reply to send | read a request, bridge it, Observe, push an event | client, bridge, event source |
| Server lifecycle, `server.rs` 121-343, 621-715 | listener, shutdown flag, socket and descriptor files | start, accept loop, drop, reaper | a directory shared by all applications of a user |
| Discovery, `client.rs` 97-245, 502-540 | none | scan, probe, connect | the same directory |
| Condensed trees, `condense.rs`, `in_process.rs` | a bounded cache of condensed pages by settle key | condense, `insert`, `get`; the Condense request | the in-process transport, agents that read a page |
| Guarded writer, `guarded_writer.rs` | the registered secrets; the files | register, write, append, copy, rename, create a directory | everything in the workspace that writes a file |
| Target guard, lifecycle slot, in-process dispatch, document reads, WebGPU reports, wire types | little or none | mostly pure functions of one snapshot | see section 7 |

### The QA crate, `crates/ps-qa/src`

| Part | State | Operations | Meets |
| --- | --- | --- | --- |
| Suite loop, `runner.rs` 353-530, 1159-1290, 1669-1730, 2926-3060, 6942-7080 | the hosted session with its storage, the client, the results so far | stage storage, run a check, classify what gave up, replace the host or ask the inspector again, report | client, host processes |
| Body of a check, `runner.rs` 1716-2926 | baseline snapshot, armed paint stream, the gestures in flight | navigate, open, set up, reveal, hover, prepare, act, judge | outcome settling, aiming |
| Outcome settling, `runner.rs` 3338-3845 with `outcome.rs` | poll scope, last sample, stability window, last probe, reveal, deadline | sample, probe, scroll, judge, wait | client, the application's page |
| Verdicts, `qa.rs`, `runner.rs` | none | one judgement over two trees for each expectation | outcome settling |
| Waits, `runner.rs` 61-330, 880-1000 | the node watched, the streak, the last capture, the deadline | arrival, visible arrival, condition, stable capture | body of a check |
| WebGPU checks, `gpu_buffer.rs`, `runner.rs` 3100-3337 | the passing window, the first submit seen | validate, decode, compare, poll | the application's GPU report |
| Aiming, `target.rs` | the trees looked at, the node picked | select, look, settle, reveal | body of a check |
| Coverage sweep, reveal and inventory, `runner.rs` 5000-6940, `reach.rs` | plan, buckets, open dialog; what is expanded and mounted | open a surface, expand, page, scroll, press, dismiss, count, reconcile | the application's page |
| Button sweep, `sweep.rs` | the cases with their identities | plan, resolve, press, judge | the application's page |
| Checks and plans, `qa.rs`, `plan.rs`, `runner.rs` | the manifest, the accounts, what is left | parse, validate, bind, order, resolve, preflight, drive | suite loop |
| Host processes, `runner.rs` 334-445, 1200-1290, `app_caps.rs`, `app.rs`, `child_output.rs` | children owned, caps, control directories, announced descriptors | spawn, drain, wait for the descriptor, cap, kill, restart, remove | suite loop, descriptors |
| Captures and pixel audits, diagnostics commands, command line | little | compute, print, parse | see section 7 |

### What is hard here

- **Interleavings inside one value.** The lock, the counter and the wake of a
  handoff are separate steps; a reader that checks before it registers, or a
  writer that wakes before it counts, strands somebody.
- **A bounded queue with an account.** The journal evicts and the client's
  notification queue drops; both promise that what is missing is counted, once.
- **A late answer.** A request that timed out may still be answered, and the
  server may still be executing it. Events arrive between the request and its
  reply, also events of a subscription that is being replaced.
- **Crashes in a shared directory.** Processes die anywhere between bind and
  unlink; their pids come back; every start deletes what it takes for dead while
  others start, drop and are discovered.
- **A host that stops answering.** It may do so at any request of any check; the
  suite must neither judge a check against a lost connection, nor lose a check,
  nor run one against the wrong process or the wrong storage.
- **A gesture whose answer was lost.** It may have been carried out. What is tried
  again must be idempotent, and what is measured must not be the work of a setup
  that landed late.
- **A page that changes while it is read.** Every node id, box and tree is old by
  the time it is used: a press may reach a namesake, an arrival may be seen on a
  node that is replaced, a count may miss a page that was not yet mounted.
- **A judgement two commands share.** The inventory credits what checks drive; the
  sweep leaves out what is credited; a report is read back on another day. What
  one forgives the other must not.
- **Processes and directories of one's own.** A launch fails at any of its steps,
  a cap ends the run without destructors, and a pid is given to somebody else.

### What makes each part correct

The slot never hands back something older than what a reader acknowledged, and
readers converge. A handoff delivers an accepted value exactly once. Every record
of the journal reaches a follower, or is counted missing, exactly once. A call is
carried out at most once, before its successful answer and never after a failure;
every operation returns by its deadline. A living server keeps its files and a
dead one loses them. No known secret reaches a file. The cache holds the pages
used last.

Every selected check has exactly one result, and success means all of them passed
over a working connection. A check that passed had its gestures carried out, once,
after its baseline. A settle ends in time, on the last completed sample, and what
a pass reports was there long enough. What was found is where it was found; what
was counted was whole, as far as the tree told, when it was counted; every counted button is accounted for once; a dead button
fails. Every account is driven, reported skipped, or covered by its twin. No host
outlives its run.

## 2. Modules

| Module | Stands for | Used with |
| --- | --- | --- |
| `Notify` | the `notify` primitive as `latest.rs` and `journal.rs` use it: register, permit, park, broadcast (external) | `Latest`, `Once`, `Journal` |
| `Latest`, `Once` | `Latest<T>`, `Once<T>` | `MCHandoffs` |
| `Journal` | `DiagnosticJournal` and its followers | implements `AccountedStream` |
| `AccountedStream` | what the journal promises: each record to each follower in order, or in a counted gap | abstract |
| `JournalProofs` | theorems about `Journal` | |
| `HandoffProofs` | theorems about both handoffs | extends `MCHandoffs` |
| `Session` | client, socket, server connection, bridge and a latest-value event source of one connection | implements `ControlCall` |
| `ControlCall` | what one connection promises its caller: one call at a time, carried out at most once, in order | abstract |
| `SessionProofs` | theorems about `Session` | |
| `ServerLifecycle` | launches, descriptors, reaper, accept loop, drop, crash, discovery | |
| `ServerLifecycleProofs` | theorems about `ServerLifecycle` | |
| `SecretForms`, `GuardedWriter` | the forms a secret is recognised in; the only writer of files | |
| `Condense` | the five levels of a condensed page and their cache | |
| `QaSuite` | `run_qa_inner` around the body of a check, host replacement | `Invocations`: the commands it is run under |
| `CheckRun` | the body of one check, request by request; its inductive invariant | |
| `OutcomeSettling` | `settle_for_outcome` and the page it watches | |
| `OutcomeProofs` | theorems about `OutcomeSettling` | |
| `Shapes`, `Tree` | a node, a check; what is read off one semantic tree | below |
| `Verdict` | how each expectation judges the tree before and after | `Aim` |
| `Aim` | `locate_control`: look, settle, reveal | |
| `Waits` | arrival, visible arrival, conditions, stable captures | |
| `GpuOutcome` | the WebGPU expectations and their polling loops | |
| `Positions` | what `filter` and `flat_map` make of sequences | `Checks`, `Plans`, `Sweep`, `Cover`, `GpuOutcome` |
| `Cover` | `run_cover`, `open_surface`, `sweep_modal` | |
| `Reveal` | `run_inventory` over its surfaces, `reveal_deferred_content`, and the helpers of both | |
| `Sweep` | `sweep.rs` and `run_sweep` | |
| `Inventory` | the inventory of a surface, the sweep of what is unmapped, the reconciliation of a saved report | `Tree` |
| `Checks` | from check files to the order the checks run in | `Shapes` |
| `Plans` | validation, accounts, preflight and the invocations of a run plan | |
| `HostProcesses` | launch, descriptor, replacement, teardown, caps | |
| `QaSuiteProofs`, `HostProcessesProofs` | the inductive invariants of `QaSuite` and `HostProcesses` | `HarnessProofs` |
| `HarnessProofs` | the theorems of every part of `MCHarness`, as properties of it | extends `MCHarness` |
| `HarnessValues` | the checks, pages, plans, hosts, files and reports for TLC | `MCHarness`, `MCSurfaces` |
| `MCHandoffs`, `MCSession`, `MCHarness`, `MCSurfaces`, `MCSuite` | instances for TLC | |

**Several modules in one run.** The algorithms of ps-qa do not interleave: one
command runs one of them. `MCHarness` therefore explores the *sum* of their state
spaces, not the product. `part` names the module a behaviour belongs to and never
changes; the variables of every module are laid, by `INSTANCE ... WITH`, over one
row of slots `s1` to `s18`, and a slot that a part has no variable for stays
`Unused`. A property of the run is the conjunction of what that part's own module
promises, where each conjunct is stated and explained. `MCHandoffs` does the same
for the two handoffs. `MCHarness` has the constants of its ten parts as constants of
its own, given in the `.cfg`, because `HarnessProofs` speaks of them for every value.
`MCSurfaces`, which TLC runs, extends `MCHarness` by the four parts that are only
model-checked (`Aim`, `Inventory`, `GuardedWriter`, `Condense`), with their values from
`HarnessValues`. They have other names for `part`, so the behaviours of `MCHarness` are
among those of `MCSurfaces` as they are, and what is proved of the one is checked in
the other.

**Invariants.** The modules `CheckRun`, `Waits`, `GpuOutcome`, `Checks`, `Plans`,
`Cover`, `Reveal` and `Sweep` end in a section that states the inductive invariant of
the module (`WaitInv`, `LoadInv`, `CoverInv` and so on), apart from what the module
promises. It is what `HarnessProofs` proves.

**Mutations.** Definitions marked "Mutation" in their comment are no part of a
specification. Each is a plausible bug; substituted for the definition it sits
before, it breaks the property that `PROJECT.json` pairs it with.

### How state and actions correspond to the code

**Latest.** `set` is AcquireWrite, the store, the bump and the wake; `set_now`
takes the lock only if it is free and otherwise drops its value, as `try_write`
does. `changed_since` is: enable the waiter, read the counter, take the read lock
and clone, or park. A value is the number of the attempt that published it.

**Once.** `fill` spins on the lock and fails once final; `send` awaits it; the
broadcast follows the release of the lock. `recv` enables its waiter, takes the
value, or finds the handoff final, or parks.

**Journal.** `publish` changes the ring under the mutex in one step and
broadcasts in another. A follower enables its waiter, calls `read_after` (one
step, under the mutex), and parks. `start`, `received` and `missed` are history:
the account of what each reader was given.

**Session.** `exchange` is Send and then one step per frame taken from the
socket: the reply that carries the id ends it, any other frame is queued. `arm`
first drops queued paints and then sends Observe, through the UI thread when the
client selected a target. The server's task is a loop over `select`: TakeMessage
reads the baseline before it asks the bridge; TakeEvent is `changed_since`
resolving; SendFrame waits for room in the socket. Time is the ticks inside one
operation; every loop of the client compares them to a deadline taken at its
start. HostGone may happen at any step.

**ServerLifecycle.** An instance is one launch; its pid may be one that a dead
instance had. `start` is Launch, Bind, CreateDescriptor (the file exists), the
write, and the reaper: a scan that lists entries, then one step to look at each
and one step to remove each file, exactly as far apart as the system calls are. `drop` is
RaiseShutdown, the end of the accept loop, the end of the listener, and the
removal of the files. A discovery lists the
descriptors with the time each was modified, probes them one at a time, newest first,
and connects in a later step; by then the instance that answered may be gone.

**GuardedWriter.** A text, a path and a secret are short sequences of tokens, and
an encoded character is a token of its own, so that every encoding is told from
the text it stands for. Every public function is one action with its outcomes:
refused (before the destination is opened), failed, or carried out, where the
disk may cut the bytes off anywhere. The secrets of the environment are added at each
call, as in the code, and `register_secret` may come between any two.

**Condense.** A page is a sequence of nodes, a text a sequence of words with
lengths; the levels are operators over it, with the truncations and limits of the
code. The cache is `insert` (move to the end, evict the oldest) and `get`. The
Condense request of the in-process host condenses the document as it is and
answers with the one level asked for; no code puts it in a cache.

**QaSuite.** `phase` follows one iteration of the loop: stage the storage, drive
the body, judge, recover, and report. The body is abstracted to the answers its
requests met (`ok`, `marked`: the control server answers in a text that
`host_gave_up` knows, `lost`: the client is terminal) and the kind of result it
produced. A host is its launch, the storage it was launched with, whether it is
signed in, and whether it serves, is wedged, is silent or is dead.

**CheckRun.** `pc` is the step of the body; every request of it is an action with
the answers it may get (`ok`, `refused`, `gone`, `silent`, `lost`), and what follows an
answer without another request is in the same action. `silent` is the marker
"inspector did not answer within": it stays in the text of the step that failed
(`open_error`, then `action_error`), and `Judge` settles and judges the rendered
outcome of such a check as it does when nothing failed (`runner.rs` 2765, 2823, 2863). A gesture the host accepted
is `flying` until the page renders it (`landed`); `base` is what had landed when
the baseline was read. `ran` counts how often the page carried each gesture out.

**OutcomeSettling.** A snapshot says of each region (pane or chrome) what it shows,
and nothing else, as the fingerprint of the window is one of contents
(`runner.rs` 3423): contents that went away and came back equal those that
stayed. `since` and `firstShown` are history, kept beside the snapshots. One action per
reply and per failure of each request the loop makes; what follows a sample
(probe, reveal, verdict, wait) happens in the same step, as in the code. Time is
urgent: it passes while an exchange or a wait is under way, not between local
statements.

**Tree, Verdict, Aim.** A tree is the sequence of its nodes, each with the fields
the code reads, and boxes are whole pixels. `Tree` has the predicates and
selections of `reach.rs`, `target.rs` and `qa.rs`; `Verdict` the judgement for
each expectation, with the code's tolerances. In `Aim` every look reads any of the
trees the page may show, so the page may move between any two.

**Waits, GpuOutcome.** One action per request of a loop and per sleep; the page
moves between any two of them. The page of `Waits` is its frame number, what is
drawn, the identity of the watched node, and whether the rest is there; that of
`GpuOutcome` is the report or the buffer with the submit that wrote it. Time is
counted in sleeps of the loop. A sample of a condition takes up to `MaxAnswer`
ticks, no request is made with less than `MinBudget` left (`outcome.rs` 26), and the
wait for a frame runs to the deadline all the same (`runner.rs` 283).

**Cover, Reveal, Sweep.** The page is what the application holds, the tree what
the harness last saw. `Cover` has one action per step of `run_cover`,
`open_surface` and `sweep_modal`; an id goes stale when a press renders the rows
anew, and rows share names. `Reveal` drives the helpers with their loop bounds
over a page with nested sections, two pagers, rows mounted by scrolling and a
filter field; what a gesture changes is in the next tree or in a later one, at
every step, and `short` collects the parts of the page that were read before they
were rendered. A case of `Sweep` is three steps, the read that finds the button
(`runner.rs` 4672), the click on its id (4707) and the settling (4718), and the page
may change or renumber by itself between any two (`Drift`). A press, or a drift,
may change a button, its name, other rows, or nothing; the identity `who` of a
button is known to the page only.

**Inventory.** `Survey`, `CoverPage`, `Edit` (the checks of another day) and
`Reconcile` over one page and a set of checks: the three classifications of one
control by three commands. `SurveyNothing` is the surface that does not open
(`runner.rs` 5620), or whose inspection fails (5701): a row without controls, of
which the second adds to `surface_failures`, and a report that is written.

**Checks, Plans.** `Checks` reads the files in order, validates each check,
binds the values, selects and orders the queue (`ordered_checks`), and then
follows on which surface each check runs. `Plans` is `validate`, `resolve` against
an environment, `preflight_plan` and the invocations, guest first; a host that is
replaced starts signed out.

**HostProcesses.** `phase` is where the runner is and `after` where it goes on once
the teardown under way is over: the drop of a session, of a failed launch and of a
replaced process are the same steps. `os` is the process table, `owned` the list the cap monitor
reads, `dirs` the control directories. A launch is mkdir, spawn, registration,
drain of the output, descriptor; each may fail, and each way out undoes what was
done. A teardown is kill, wait, forget, remove, in the order of `drop`. The
operating system gives a pid out again once its process was waited for, also to a
process that is none of ours. CapTrips may come between any two of these steps: it
kills what is registered at that moment and ends the run.

## 3. Runs

| Run | Instance | What it shows |
| --- | --- | --- |
| `handoffs` | slot: 1 setter, 1 painter, 2 readers, 3 offers; handoff: 2 fillers, 1 sender, 1 abandoner, 2 receivers | `NeverOlderThanSeen`: no reader is given something older than what it acknowledged. `CatchesUp`: readers converge on what the slot holds. `AcceptedIsDeliveredOnce`: an accepted answer is in the handoff or with exactly one receiver. `DecidedIsObserved`: a receiver returns after a decision. |
| `journal` | 2 publishers, 2 readers, ring of 2, 4 records | `RingIsNewest` (with the types), `EveryRecordAccountedOnce` (delivered and missed tile the interval since the subscription), `LossesAreEvicted` (what is reported lost really left the ring), `ImplementsAccounted` (refinement), `CatchesUp`. |
| `session` | 2 calls, 2 watches, 2 publications, one-tick deadlines, client queues of 1, socket of 2 | `ImplementsControlCall` (refinement), `FailureIsFinal` (after a timeout nothing that arrives late is ever returned), `BoundsHold` (types, queue bounds, and every operation within its deadline), `NotificationsAccounted`, `PaintFollowsSubscription`, `OperationsReturn`. |
| `lifecycle` | 3 launches under 2 pids, 1 tool, 2 crashes | `LiveKeepsItsFiles`; `NothingLeftBehind` (types; a start removed what was dead when it began, a drop removed its own files); `NewestSteadyIsFound`, `ConnectionsAreDecided`, `DropReturns`. |
| `outcome` | 2 panes and the chrome, 2 changes of the page, 5 ticks, answers 1 tick late in all | `ConcludesInTime` (types; an end by the deadline, on the last completed sample), `PassIsStable` (what a pass reports was first on the page `stable_for_ms` before), `SeenWhenPolling`. |
| `harness` | the 14 parts below, those of `MCHarness` and the last four of `MCSurfaces` | the properties below |

The parts of `harness`, and what is checked of each:

| Part | Property | Says |
| --- | --- | --- |
| `QaSuite`, 5 invocations, 3 checks or fewer a suite, 2 faults | `SeedIsTheChecks` | a check that declares storage runs on a host launched with it (`qa-hosted`) |
| | `ReportIsTheChecks` | the report holds each selected check once, in order, whatever was lost |
| | `SuccessMeansAllPassed` | exit 0 means every check passed on a connection that was not lost |
| | `LostHostIsReplaced` | no check is driven on a host that gave up before |
| | `RunEnds` | the run ends |
| `CheckRun`, 9 shapes of a check | `PassIsEarned` | a pass has every declared gesture acknowledged and, where the expectation compares, a difference from a baseline that holds all its setup waited for; an inspector that did not answer excuses one action, or the setup of a check that then drives no action; nothing that is not idempotent is carried out twice |
| `Cover`, 3 surfaces with rows of every kind | `CoverageAddsUp` | at every step every button counted on a surface, and every one a dialog brought, is in one bucket or still planned, and the total adds up; no sweep goes on behind an open dialog |
| `Reveal`, 5 tasks, 2 surfaces, sections 2 deep, 2 or 3 pages, 3 scrolled rows, trees that lag | `CountedWhole` | a counted surface had all sections open, all pages and rows mounted and no filter, in each part that was not read from a tree older than the page; the filter found is given back, whatever the trees showed |
| | `Ends` | every helper ends (also every wait, below) |
| `Sweep`, pages of up to 4 buttons with shared names, a drift | `DeadButtonsFail` | a press that changed nothing fails its case while the page changes nothing by itself; a case is aimed at a button of the planned name, and at the planned one while it keeps its id, and the click reaches it unless the page renumbered in between |
| `Waits`, `GpuOutcome` | `WaitsAreHonest` | an arrival was held for the streak by one node; no frame that could still be asked for goes unseen; stillness took its equal captures; a GPU pass held without a gap; a change lies between two writes of one buffer |
| `Checks`, `Plans` | `SuitesRunAsDeclared` | no check runs on a surface another file opened; every account is driven, reported skipped, or covered by its twin |
| `HostProcesses` | `NothingLeaks` | after a component there is no process, registration or directory; two hosts never live at once; a cap kills every host but in the windows named below |
| `Aim` with `Verdict` | `FoundWhereItIs` | a control is returned at its box in the last tree, inside the window; what is found is judged shown; the expectations are consistent with one another |
| `Inventory` | `EveryButtonAccounted` | the buckets partition the controls; a reachable unverified button of the inventory is pressed by the sweep of the unmapped; outside the pane in front the sweep looks at none; a control is credited only to a check that may press it; a reconciliation forgives nothing but a surface that failed |
| `GuardedWriter` | `NothingKnownGetsOut` | no step puts a form of a secret known by then into a file, a path or a refusal |
| `Condense` | `CacheIsTheMostRecent` | the cache holds the last inserted keys with their latest pages; a narrow level says nothing a wider one does not |

Six more runs refute what a comment or a document says of the code:

| Run | Claim | What happens |
| --- | --- | --- |
| `session_arm` | `PaintFollowsArm`: the paint that `wait_for_paint` returns is newer than the last arm (`client.rs` 704, 728) | `arm_paint_events` drops queued paints before it sends Observe. A frame which the earlier subscription has already put in the socket is read while the exchange waits for the acknowledgement, is queued, and satisfies the next wait. |
| `suite_silent` | `JudgedOnlyWhenReachable`: a socket that never replies is no answer (`runner.rs` 511) | The texts that mean a lost host are not those of the client's own timeout or disconnection. An external inspector that goes silent counts as answering, and the next check is judged, and fails, on a dead connection, where it should be "not-run". |
| `suite_seed` | `SeededInEveryHostedRun`: a hosted run installs the storage a check declares (ps-qa `README.md` 126, 291) | Only `qa-hosted` sets `seeds_storage`; `run-plan` and `sweep-components` drive the check unseeded. |
| `outcome_stale` | `PassMeansRendered`: nodes outside the polled pane are unchanged during the action (`runner.rs` 3498) | The action removes the subject from the chrome, or navigates away from a pane. The merge puts it back from the snapshot taken before the action, and the check passes. |
| `outcome_blind` | `SeenWhenEventDriven`: the loop cannot be blind to the rest of the page for a whole deadline (`runner.rs` 3516) | A result rendered outside the pane commits its frame too soon after the last probe. The loop reads the pane, does not probe, and waits until the deadline for a frame that does not come. `SeenWhenPolling` shows that a loop without paint events, which samples every 25 ms, does see such a result. |
| `signed_out` | `SessionChecksRunSignedIn`: "run-plan keeps a signed-in one" (`runner.rs` 366) | A check of a session loses its page. The replacement starts signed out, nothing signs it in again (`runner.rs` 2985), and the session's remaining checks run as a guest. |

Distinct states of the passing runs: `handoffs` 289,886; `journal` 66,039; `session`
558,799; `lifecycle` 459,855; `outcome` 9,373,378; `harness` 1,266,760.
With two workers `outcome` takes two to three minutes, `harness` about a minute and a
half.

### Bounds, and why they are enough

Every bound is a constant, named in the module and given in the `.cfg` or in the
`WITH` of its `MC` module.

- `MaxOffers = 3` lets a publication land before, during and after a read, and
  two writers race for the lock. `MaxSequence = 4` over a ring of two wraps it
  twice; a follower can lose all, some or none of what is retained, and lose again.
- `MaxCalls = 2` gives a late reply a second request to be confused with; two
  watches allow a drain and a paint wait, in either order; client queues of one
  overflow on the second event; a socket of two blocks the server.
- Three launches under two pids give a pid back to a new process while a third is
  still deleting the files of its previous owner. Two crashes allow a death in the
  middle of a reaper's work and another in the middle of a start.
- Three checks are the shortest suite with a first, a lost and a remaining one,
  and a seed that must be installed, replaced and cleared. Two faults strike the
  replacement as well.
- `Deadline = 5` holds two full probe intervals, a stability window of two and a
  poll; two changes open a stability window and break it, or navigate and
  render. The code's durations keep their order: poll and request budget below
  the probe interval, all of them below the deadline. `Expectations` has only
  "paintsNamed"; "vanishes" is the other reading of the module and its mirror
  image, and would double the run. `FirstLooks` has only "draft": a subject that is
  painted before the action may look unfinished and turn final later, the
  direction in which a window is restarted.
- The nine shapes of `CheckRun` have between them each step a check may declare,
  in the combinations in which one step bears on another (a preparation after a
  hover, a condition that makes a preparation unnecessary, a linger before a
  comparison).
- `Reveal`: sections one inside the other need more than one pass. Of the page
  counts 2 and 3, the last is more than `MaxClicks = 2` presses of a pager can
  mount, so a surface is also given up. `MaxScrolls = 6` leaves room for three rows
  that mount one at a time and the two turns that find nothing new. Any press of a
  disclosure may be refused, any request may fail, and any tree may be older than
  the page, so that the passes and the scrolls also run out. The limits of the code
  are larger; these keep which of them a page can exceed.
- `Cover`: three surfaces, one for each way to open one, carry the total from one to the
  next and have each kind of row between them, with namesakes;
  `MaxInner = 1` button of a dialog and one way out of it let each way a dialog may end
  happen.
- `Sweep`: three buttons, two of them namesakes, and room for one more; one row
  inside the viewport and one outside it. `MaxDrifts = 1` change of the page by itself
  may fall between any two steps, also between a read and its click.
- `Aim`, `Inventory`: a handful of pages each, with namesakes, ancestors that clip,
  controls fixed to the window, dialogs, and ids that a framework made by
  counting. Two looks of a moving target stand for the code's four.
- `Waits`: a budget of four holds a streak of three and one that starts again; with
  `MinBudget = 1` and `MaxAnswer = 1` a frame may come too late to be asked for; a
  capture of two ticks makes the extended deadline matter; three moves replace the
  node, draw, and complete the page.
- `GpuOutcome`: four ticks hold a window of stability that a change breaks.
- `Checks`, `Plans`: manifests of up to a few files, with one manifest or plan for
  each rule that refuses one, and up to three accounts, some of them the same.
- `HostProcesses`: two pids and one restart give the pid of a reaped host to its
  replacement or to a stranger; the two leftover directories exhaust the two tries.
  Three commands, with isolated runs, runs in the default directory, and a plan.
- `GuardedWriter`: a secret of two tokens under texts of one must be put together
  by appending; files of two tokens can hold it.
- `Condense`: a cache of two under three keys and four insertions evicts, inserts
  again what it holds, and inserts again what it evicted.

### Deadlock and fairness

`outcome` checks for deadlock: there a state in which the loop can neither act nor
wait would hang a run of checks. The other systems legally stop, with a verdict,
a total or a report, or go quiet (nobody publishes, no tool calls), and their
configurations say so; that they do not stop anywhere else is what `RunEnds`,
`Ends`, `OperationsReturn` and the other liveness properties say.

Fairness is what the runtime owes, never what a peer owes:

- `Latest`, `Once`, `Journal`: a task that holds a lock or has been woken is
  polled again. Nobody is obliged to publish.
- `Session`: the client's own runtime polls its socket and its timers
  (`Receive`, `Tick`, `GiveUp`). Nothing is assumed of the server, the UI thread or
  the application, so `OperationsReturn` covers a host that hangs.
- `ServerLifecycle`: some process that can go on does so. No process is
  obliged to launch, to fail an accept, to drop its server or to crash.
- `QaSuite` (`Proceed`), `Reveal` and `Waits` (`Step`): the sequential loop goes on,
  because each request it makes ends by a deadline, which `Session` and
  `OutcomeSettling` show. Neither the host nor the page owes anything.
- `OutcomeSettling` has no fairness and no liveness property: that it ends is the
  invariant `ConcludesInTime` together with the check for deadlock.
- The remaining modules make safety claims only.

## 4. Proofs

A run decides a property on one instance; the theorems below state the same
properties for every value of the constants: any number of tasks, readers, launches,
tools, pids, checks or changes, any capacity, deadline or bound on the faults. What
the bounds of the runs limit, the bounds of the theorems do not: they appear there
as arbitrary naturals.

No property here is inductive as it stands. Each module of proofs therefore defines
an inductive invariant as a conjunction of named parts, proves that `Init` implies
it, that each step preserves it (one lemma or step for each action or group of
actions that move the same variables), and that it implies the properties. TLC was
given each invariant before it was proved.

| Module | Theorem | States |
| --- | --- | --- |
| `JournalProofs` | `RingCorrect` | the ring holds the newest records, consecutive and no more than its capacity |
| | `AccountExact` | what a reader received and what it was told it missed partition the records since its subscription |
| | `LossesJustified` | what it was told it missed is no longer in the ring |
| | `Refinement` | the journal implements `AccountedStream` |
| `HandoffProofs` | `ReadersNeverBehind` | `NeverOlderThanSeen`: no reader is given a value older than the revision it acknowledged |
| | `AcceptedOnce` | `AcceptedIsDeliveredOnce` |
| `SessionProofs` | `BoundsKept` | `BoundsHold`: the queues and the time of an operation keep their bounds |
| | `NothingUncounted` | `NotificationsAccounted`: delivered, queued and lost are together what was received |
| | `PaintsAreNew` | `PaintFollowsSubscription` |
| | `FailuresAreFinal` | `[][FailureIsFinal]`: nothing succeeds after a terminal failure |
| | `Refinement` | the connection implements `ControlCall` |
| `ServerLifecycleProofs` | `ReaperSparesTheLiving` | `LiveKeepsItsFiles` |
| | `FilesAreCleanedUp` | `NothingLeftBehind` |
| | `NewestIsFound` | `NewestSteadyIsFound` |
| `OutcomeProofs` | `EndsOnEvidence` | `ConcludesInTime` |
| | `PassRests` | `PassIsStable`: what a pass reports was first on the page `stable_for_ms` before |
| | `RestedIsSeen` | `SeenWhenPolling` |
| `HarnessProofs` | `ReportedOnce`, `SuccessEarned`, `HostReplaced`, `SeedInstalled` | the four invariants of `QaSuite` |
| | `PassEarned` | `PassIsEarned`, with its three parts, and with what a silent inspector excuses |
| | `WaitsHonest` | `WaitsAreHonest`, with the three parts of `Waits` (a frame in the last request budget may go unseen) and the two of `GpuOutcome` |
| | `SuitesDeclared` | `SuitesRunAsDeclared`, of `Checks` and of `Plans` |
| | `SurfacesWhole` | `CountedWhole`, for any tree that lags behind the page and any loop bounds: each part of a counted surface is whole unless it was read late or given up on; with the filter given back |
| | `DeadButtonsFound` | `DeadButtonsFail`, with the planned button pressed, for a page that changes and renumbers by itself any number of times between the steps of a case |
| | `CoverageWhole` | `CoverageAddsUp`, with no dialog left behind |
| | `NothingLeft` | `NothingLeaks`, with its three parts |

`JournalInvariant` and, in the modules of `Session`, `ServerLifecycle`,
`OutcomeSettling` and `HostProcesses`, `Invariance` state the inductive invariant
itself.

### The arguments

**Journal.** When a reader's position falls behind the ring, `read_after` reports the
gap up to the record before the oldest one retained, and otherwise returns the first
record newer than the position. That these are exactly the records from `position + 1`
on needs the ring to be consecutive, and that needs to know where it ends. `Inv` is
`TypeOK`, `RingIsConsecutive`, `Bounds` (no reader is ahead of the newest record),
`EveryRecordAccountedOnce` and `LossesAreEvicted`. Three lemmas carry the argument:
`PushConsecutive` (a push at capacity keeps the ring consecutive), `FirstAfterIsNext`,
and `ReadAfterContinues` (an item continues exactly where its reader stopped).
`StepImplements` uses the same lemmas to map each step to one of the abstract stream.

**Handoffs.** A reader acknowledges a revision it read before it takes the lock, so
its value is new enough only if the slot is never behind the counter.
`StoresAreCounted` says by how much it is ahead: by the writers that have stored
and not yet counted, a finite set that a store adds one to and a bump takes one
from. `AcceptedIsDeliveredOnce` needs that an accepted value is in *one* place
(`OnePlace`), which holds because a sender writes once (`WritesOnce`) and a receiver
that has an answer has returned.

**Session.** `OneCall` says where the call under way is: in one of the socket, the
bridge, the reply waiting to be sent, the socket back; and that nothing else in
either direction is a reply. That is why a late reply is never taken for the next
one's, and why a success follows its execution. `Fresh` bounds everything published
and on its way by the first subscription, whose baseline the server reads before
it asks the bridge. `Accounted` adds to the property that only a drain holds what it
has collected. For the refinement, each step of `Session` is a step of `ControlCall`
or changes nothing it can see.

**ServerLifecycle.** A reaper works from a listing, and between its look and its
deletion the pid may come back. `Doomed` says that what it deletes belongs to an
instance that is over, whoever has its pid now; a living instance keeps
its files because those of each launch have a name of their own (`server.rs` 626). `Owed` says
of each instance that was dead when the scan began that its files are still there
and its pid still free, until the reaper has removed them. `Connected` and
`Discovering` relate a tool to the instance at the other end, and what a discovery
has left to look at to the instances that served since it began.

**OutcomeSettling.** That the loop ends by its deadline needs `Waiting` (no wait is
longer than what is left, nor than a poll). `Aged` says that what a passing
window holds was first on the page no later than the window was opened, a bound on
the contents and not on the time they were last changed: that is all a comparison
of fingerprints can give. `SeenWhenPolling` is the deep one: `Blind` says
that a polling loop which waits on a failing sample, while the page shows a pass,
must be reading one pane, have that pane right, and have probed the rest so recently
that another probe falls due within this wait; `Probed` says what such a probe would
have done.

**QaSuite.** `Place` ties the position of the loop to the number of reports and
results; `Accounts` says that results are those of the first checks, none of them
"not-run" until the suite is given up; `Verdicts` carries the connection's losses
into the verdicts and the count of failures; `Launches` orders the launches that
successive checks ran on; `Storage` says that the host at the other end is the one
that was launched with the session's storage, from the staging of a check to its
recovery, unless its replacement did not come up.

**HostProcesses.** `Shape` lists, for each phase, which of the three process slots
(the session's, the one being started, the one being torn down) are in use and
which of their processes were waited for: never two that were not. `Known` equates
the runner's view with the process table, `Accounted` bounds the registrations by
the processes held, `Directories` says that each control directory of this run
belongs to one slot, and `Registered` that without a restart the cap knows every
living host once it was told of it. The two windows that `CapStopsEveryHost` leaves
out are needed: without them `Registered` does not hold.

**CheckRun.** A pass is judged long after the steps that earned it, so the invariant
has to say at each place of the body what is behind it. `Earned` does, as long as
nothing has failed: the declared gestures acknowledged so far, the waited-for ones
landed. `Driving` speaks of the actions, also after a failure: of those driven, all
were acknowledged but the one that failed, and after a failed setup none is driven,
which is why a silent inspector excuses so little. `Unasked` is
its counterpart for `CarriedOutOnce`: what has not been asked for has not been
carried out, which at the second preparation holds only because the first was
refused (a lost answer leaves the client terminal, and a marked one ends the check).
`InStep` says that a step asks again only while nothing has failed. The steps before
the baseline share two lemmas, for those that only look and those that ask for a
gesture (`OnwardLooking`, `OnwardAsking`); `Driven` and `Retried` are the measured
actions. The number of actions of a check is not bounded, nor are the checks.

**Waits.** What a wait concludes is about samples long gone, so `WaitInv` ties its
counters to them. `StreakIsHeld`: the last `streak` samples all showed the arrival,
and none of them another node than `root`. `FramesAreAnnounced`: a frame that was committed
early enough to be asked for and is not in the snapshot is announced by a pending
event, and there is time for another snapshot; without it a wait could end between a
frame and its event.
`CapturesAreEqual` counts the equal captures, and says in addition what each one
cost as long as nothing moved (`streak + deadline = now + Budget + 1`): that is why
a region that never moved is not refused however slow its captures are.

**GpuOutcome.** `HeldSince` gives the passing window a first look, taken when
`since` says, from which every look passed; a failed look empties the window.
`MeasuredFromFirst` gives the baseline its first completed write.

**Checks.** That no check runs on another file's surface is decided when the files
are read and matters when the queue is run. `FilesAreOpened` says of the manifest
that between a check that opens a surface and a later one of another file there is
another opener; `ReadSoFar` is what reading keeps of that; `RunsInOrder` says that a
whole run without destructive checks keeps the manifest's order, so that `surface`
is the last opener of what is done (`OpenedLast`).

**Plans.** `Resolve` decides everything: `Resolved` says the plan that runs is one it
accepted, and that nothing later changes an account. That an alias has a twin that
runs is `AliasesAllowed` together with the order in which aliases are skipped.

**Cover.** The books are kept at every step, not only at the end of a surface: a
button moves from the plan to a bucket, or a dialog brings buttons and their
buckets together. The proof has three kinds of step: `Charged` (one planned button
to one bucket), `Brought` (what a dialog brings) and `Summed` (a surface to the
total). The count itself is where a button could be lost: `CountedInFull` partitions
the rows by class, and `OrderedWhole` says that the plan in its pressing order is a
permutation of the planned rows, by the lemma `Ranked` about `Positions`, which the
button sweep needs as well. The invariant adds that nothing is in the books before
the count (`NothingBeforeTheCount`), that whoever comes back has a control to press
(`SomethingIsPlanned`) and that a dialog is left only closed or as a trap
(`DialogIsHeld`).

**Reveal.** Each helper is a loop with a literal bound that decides on what the tree
shows. `short` collects, for each part of the page, that it was read from an older
tree or that its bound ran out; of every other part the invariant knows how far its
loop is. `SectionsAreOpened` says which sections are open, and that a pass has at most
the next one to press. `RowsAreMounted` and `PagesAreMounted` do so for the scrolls
and the pagers: a count that stays the same means that all rows are there, a retired
pager has nothing behind it. `FieldIsHeld` needs no such exemption for the filter of an
inventory: what is read of the field, late or not, is what it held before or nothing.
`FieldIsKnown` follows the query of a check.

**Sweep.** A press is judged by the difference between two trees, with a page between
them that may change by itself. `AimIsTrue` says that the button that is aimed at was
in the tree that was read; `PageIsKnown`, that until the click that tree tells what is
on the page, in all that has not drifted; `PressIsSeen`, that after it the page is what
the press made of it, in the same sense. `PlannedStayPressable` is what makes a
difference mean something: a planned button is painted and enabled as long as it is
there, so a case that is resolved by name finds a button that can be pressed. By
`IdsAreUnique` an id belongs to one button at a time, so the click reaches the one that
was read unless the page renumbered in between.

`HarnessProofs` proves these on the instances `Check`, `Wait`, `Gpu`, `Load`, `Plan`,
`Cover`, `Tour` and `Press` themselves, and carries `QaSuite` and `HostProcesses`
into `MCHarness`. `Loop` and `LoopProofs` (`Hosts` and `HostsProofs`) are instances
of the component and of the module that proves about it; lemmas `Same...` say that
their definitions agree. Each invariant holds while its part is the one that runs. Checking the module from
nothing takes ten to fifteen minutes, the other modules a few seconds to a few
minutes each.

### Assumptions

Every assumption is about constants, and TLC evaluates it in the runs.

| Assumption | Says | Because |
| --- | --- | --- |
| `CapacityAssumption`, `MaxSequenceAssumption` | the ring has room for a record; the bound on records is a natural | `DiagnosticJournal::new` asserts the first; the counter is a `u64` that no run exhausts |
| `RolesAreDistinct`, `NoValueIsNoCaller` | each call of the handoff has one role; the empty slot is no value | a task calls one of `fill`, `send`, `abandon` |
| `SessionAssumption` | commands are records, "paint" is a stream, capacities and the timeout are positive | `client.rs` and `server.rs` give them as positive constants |
| `LaunchesAssumption`, `PidsAssumption`, `CrashesAssumption`, `AcceptAssumption` | at least one launch and one pid; bounds are naturals | |
| `RegionsAssumption`, `TimesAssumption` | panes, chrome and document are different names; durations are positive, `Poll <= MinBudget`, and a window of stability is shorter than the deadline | 25 ms (`runner.rs` 3827), 100 ms (`outcome.rs` 11); `qa.rs` 1007 refuses a longer window |
| `SuiteCommands` (`CommandsAreWellFormed` of `QaSuite`) | an invocation has a suite and each suite a check; only a hosted run seeds, and such a run is one suite | `resolve_suite_paths`, `validate_suite`, `qa-hosted` |
| `DeclaredShapes` (`ChecksAreWellFormed` of `CheckRun`) | a check declares each kind of action at most once | each is one field of `Check` (`qa.rs` 503), driven once (`runner.rs` 2600-2700) |
| `WaitBounds` (`BoundsAreWellFormed` of `Waits`) | a streak and a stillness take at least one sample and two captures, a budget has room for the captures, and the times are naturals | 3 and 4 in the code, under budgets of seconds |
| `GpuTimes` (`TimesAreWellFormed` of `GpuOutcome`) | durations are naturals | they are `u64` milliseconds |
| `LoadFiles`, `PlanShapes` (of `Checks` and `Plans`) | a directory holds finitely many files and each finitely many checks, with the fields that are read; a plan lists finitely many sessions | they are parsed into vectors of `Check` and of sessions |
| `TourSizes` (`Sizes` of `Reveal`) | sizes and loop bounds are naturals; there is a surface, and a row | of the bounds nothing else is assumed |
| `PressPages` (`PagesAreWellFormed` of `Sweep`) | no two buttons of a starting page have the same id, or are the same button; ids given out later are others; the drifts are a natural number | a document gives each of its nodes an id of its own |
| `CoveredSurfaces` (`SurfacesAreWellFormed` of `Cover`) | a run covers at least one surface, each a finite list of rows | a profile has finitely many; a run over none counts nothing |

`HostProcesses` needs none.

### Only model-checked

- Liveness: `CatchesUp`, `DecidedIsObserved`, `OperationsReturn`, `DropReturns`,
  `ConnectionsAreDecided`, `RunEnds`, `Ends`. Liveness under fairness and ENABLED are
  out of the prover's reach.
- `EveryButtonAccounted`, `FoundWhereItIs`, `CacheIsTheMostRecent`,
  `NothingKnownGetsOut`: they judge operators over whole trees, pages and texts
  (`Tree`, `Verdict`, the levels of `Condense`, the forms of a secret), which are
  folds, selections and recursion over data. What those compute for every input is an
  induction over data, which the installed provers cannot instantiate. `FoundWhereItIs`
  has, moreover, next to no state: it is those operators.
- The refuted claims of section 3, which are what they are: counterexamples.

## 5. Abstractions and limits

### Of the models

- **Memory.** Atomics are sequentially consistent. The counters are released by
  the writer before it wakes and acquired by the reader after it registers, and
  registration and wake are assumed to synchronise, as the `Notify` of nagoya
  promises them to.
- **Events of `Session` come from a latest-value slot.** The journal as event
  source is checked on its own. The cached target context, which any reply
  refreshes, also a late one (`client.rs` 478), and a reply that cannot be decoded,
  which fails the exchange but leaves the client in use (`client.rs` 641), are not
  in the model.
- **A time limit is an integer of ticks.** Only the order of durations matters.
- **The body of a check** in `QaSuite` may produce any result that the answers it
  met allow; `CheckRun` is that body in detail.
- **A page** in `OutcomeSettling` has one subject, and an expectation is that it is
  painted or that it is not. `Verdict` has all expectations, over two trees.
- **Lengths** in `Tree` and `Verdict` are whole pixels, and the case of letters
  does not exist.
- **Parts of `MCHarness` do not interact.** Each takes what the others do for it as
  an answer: `CheckRun` takes "found" from `Aim`, `QaSuite` a result from
  `CheckRun`.
- **A lagging tree** in `Reveal` is the one that was read before, or the page; a
  surface is entered with its tree up to date, since `open_surface` waits for it.
- **A drift** in `Sweep` does what a press could do to some button, or renumbers;
  `Drift` happens before, between and after the three steps of a case, `MaxDrifts`
  times in a run of TLC and any number of times in the proof.

### Where a property stops short, because the code does

- `SeenWhenPolling` leaves out one kind of page: an offscreen copy of the subject
  in the pane in front, and the painted one outside it, for a check with
  `stable_for_ms`. There `scope_for_passing_snapshot` adopts the pane, the next
  sample fails, and the check does not settle (`runner.rs` 3743).
- `PassIsStable` does not say that the page kept still for `stable_for_ms`. The window
  compares fingerprints of contents (`runner.rs` 3407, 3423), so contents that give way
  to others and come back between two samples count as never gone. The same holds
  while a subject is scrolled into view, which goes to the next sample without feeding
  the window (3789). What is left, and proved, is that contents which appear later
  restart the window.
- `PassIsEarned` excuses what the code excuses. An error in which the host said
  "inspector did not answer within" leaves the rendered outcome to decide
  (`runner.rs` 2765, 2863), whether it came from a measured action or from the opening
  or the preparation (`open_error`, 2581). In the second case no action is driven and the
  check may pass all the same, although "a click that cannot be dispatched is itself a
  failure" (2576). No code of this repository words an error so; a host of another
  version may.
- `NoFrameMissed` leaves out the frames that are committed when no request can be
  made and answered any more. `outcome::read` and `outcome::budget` refuse one with less
  than `MIN_REQUEST_BUDGET` left (`outcome.rs` 26), and `wait_for_paint` waits to the
  deadline (`runner.rs` 283): a frame in between is received, and not looked at.
- `CountedWhole` exempts the parts of a surface that were read from a tree older than
  the page, and those a loop gave up on. A pager that does not show progress in the
  one tree read after its click is retired (`runner.rs` 5087), two equal counts end the
  scrolling (4951), and the passes and scrolls end at their bounds, all without a word
  in the report; ps-qa's `README.md` 669 has the inventory activate its pagers "until
  all pages are mounted before it counts component instances".
- `DeadButtonsFail` speaks of presses during which the page changes nothing else that
  the tree shows. The tree is read, the bare id is clicked and the tree is read again
  (`runner.rs` 4672, 4707, 4718), and `judge` compares whole trees: a page that changes by
  itself in between is credited to the press, and an id that another button has by
  then is clicked all the same. `sweep.rs` 283 says of a page that it may grow by a
  hundred nodes with nothing pressed.
- Places are counted among namesakes in whatever letter case when a sweep is planned
  (`runner.rs` 4662), and among equal names when a case is found again (`sweep.rs` 146):
  of two buttons that differ only in case, the second may be passed over as gone.
- `ReconcileForgivesOnlySurfaces`: `reconcile_inventory` (`runner.rs` 5382) reads the
  controls of a report, and a surface that failed has none. Its failure, which the
  inventory counted (5921), is forgiven, although ps-qa's `README.md` 645 says that
  "previously recorded failures still return a nonzero exit status".
- `NothingInThePaneEscapes`: the inventory counts below its root (`runner.rs` 5728),
  the sweep presses in the pane in front (6302). A button inside the root and outside
  the pane is reported unverified and is in no bucket.
- `InheritsNoSurface` speaks of a whole run without destructive checks.
  `ordered_checks` (`runner.rs` 1557) moves a destructive check to the end, behind
  the opener of another file; the validation of `qa.rs` 956 looks at the files'
  own order. A selected group leaves openers out.
- `CapStopsEveryHost` leaves out two windows: between spawn and registration
  (`runner.rs` 1253), and after a restart whose replacement was given the pid of
  the old process, which dropping the old one then takes off the list
  (`app_caps.rs` 366).
- `FoundIsShown` leaves out controls fixed to the window: the driving side takes
  their own box, the judging side clips it against the boxes that contain it in
  the document (`qa.rs` 1509).
- `DeadButtonsFail` excuses a disclosure with a namesake that was already open:
  the code looks for the opposite label anywhere on the page (`sweep.rs` 195).
- `EveryButtonAccounted` says nothing of a surface that did not open: the inventory
  lists it with no components, and it adds no failure (`runner.rs` 5620).
- `Latest::set_now` drops its value when a reader holds the lock. What is
  dropped may be the newest value; `CatchesUp` speaks of what the slot holds.
- `NothingLeftBehind` speaks of descriptors that can be read and of starts that
  reached the write. A start that fails after bind (`server.rs` 194) leaves a
  socket without a descriptor, and a process that dies within the write
  (`server.rs` 676) a descriptor nobody can parse; the reaper passes over both.

## 6. Plan

Order is by importance. The first nine are done, except for what they name as left.

1. `Latest`, `Once`, `Journal` over `Notify`; `AccountedStream` and the proofs.
2. `Session` and `ControlCall`. Left: the target context, undecodable replies.
3. `ServerLifecycle` with discovery. Left: discovery for a requested target.
4. `QaSuite`, `CheckRun`, `OutcomeSettling`: from the invocation to the verdict.
5. `Tree`, `Verdict`, `Aim`, `Waits`, `GpuOutcome`: what is read off a page.
   Left: `wait_for_contrast`.
6. `Cover`, `Reveal`, `Sweep`, `Inventory`: whole surfaces. Left: `run_audit`.
7. `Checks`, `Plans`, `HostProcesses`: what is run, as whom, in which process.
8. `GuardedWriter`, `Condense`.
9. The refuted claims above, each as a run of its own.
10. The in-process transport as a second implementation of `ControlCall`.
11. `CheckRun` composed with `OutcomeSettling`, and shown to produce only the
    results that `QaSuite` allows a body.
12. The target guard against the rule its documentation states; the document
    reads that decide visibility.

Of the proofs, two would be worth their while if their modules were rearranged for
it: the cache of `Condense` as a part of its own, whose pages are any values and
whose order is a function instead of a selection; and `GuardedWriter` over any
relation "text shows secret" of which only the few facts it needs are assumed, with
`SecretForms` left to TLC as one instance of it. An in-process transport (10 above)
could follow the refinement proof of `Session` for all but its socket.

## 7. Not modelled

- Document reads (`document.rs`): a projection of a DOM snapshot into the nodes
  that `Shapes` has, thousands of lines of data without control state. WebGPU,
  layout and style reports: data types and their summaries; what ps-qa reads of a
  WebGPU report is in `GpuOutcome`.
- Captures and pixel audits: arithmetic over one capture. The loop that captures
  until the page is still is in `Waits`.
- Wire types and codec: serialisation.
- Target guard: a comparison of a request's options with the running target,
  without state. Lifecycle handler slot: one global, the last writer wins, read
  once per request.
- The in-process dispatch beyond its Condense request: the dispatch of the socket
  connection without a socket.
- The synthesis of input events (`page_targets.rs`, `native_page.rs`): one request
  of `CheckRun` each.
- How the caps measure memory and time, and process groups; profiles, which are
  given to `Tree` as they parse; diagnostics commands, command line and the text of
  reports.
