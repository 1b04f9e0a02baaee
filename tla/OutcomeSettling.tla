-------------------------- MODULE OutcomeSettling --------------------------
(* settle_for_outcome of ps-qa (runner.rs): the loop that waits, after the *)
(* action of a check, for the declared result to be rendered.  It reads one*)
(* pane of the page and merges it with the snapshot taken before the       *)
(* action, falls back to the whole document, scrolls a subject into view   *)
(* once, demands that a passing page keep still for stable_for_ms, and     *)
(* waits between samples for a committed frame or for 25 ms, all before the*)
(* deadline the check declares.  outcome.rs bounds each of its exchanges.  *)
(*                                                                         *)
(* The page changes on its own while the loop runs.  A region of it is a   *)
(* pane of the application or the chrome around the panes, and a snapshot  *)
(* says of each region what it shows, and nothing else: as with a          *)
(* fingerprint of the nodes, a region that shows again what it showed      *)
(* before cannot be told from one that kept still.  When a region changed  *)
(* is kept beside the snapshots, for the properties.  Time is urgent: the  *)
(* clock waits for a local step that is due, and passes while an exchange  *)
(* is in flight.                                                           *)
EXTENDS Naturals, FiniteSetsExt

CONSTANTS
  Panes,         \* pane roots of the application
  Marked,        \* the panes that carry the marker of a surface of the profile
  Chrome,        \* what lies outside the panes
  Document,      \* no scope: the whole document is read
  NoSample, NoWindow,
  Fronts,        \* the panes a check may start from
  FirstLooks,    \* the looks a subject painted at the start may have
  PaintKinds,    \* "none": no paint stream, "mute": one without frames, "frames"
  Expectations,  \* of the checks considered: "paintsNamed", "vanishes"
  StableChoices, \* stable_for_ms of the checks considered, in ticks
  Deadline,      \* outcome_timeout_ms, in ticks
  Poll,          \* the 25 ms sleep, in ticks
  ProbeInterval, \* FULL_DOCUMENT_PROBE_INTERVAL, in ticks
  MinBudget,     \* MIN_REQUEST_BUDGET, in ticks
  MaxChanges,    \* bound on the changes of the page
  MaxLate        \* bound on the ticks the answers of a live host take

ASSUME RegionsAssumption ==
  /\ Marked \subseteq Panes /\ Fronts \subseteq Panes
  /\ FirstLooks \subseteq {"draft", "final"}
  /\ PaintKinds \subseteq {"none", "mute", "frames"}
  /\ Chrome \notin Panes /\ Document \notin Panes \cup {Chrome}
  /\ Expectations \subseteq {"paintsNamed", "vanishes"}
ASSUME TimesAssumption ==
  /\ {Deadline, Poll, ProbeInterval, MinBudget} \subseteq Nat \ {0}
  /\ {MaxChanges, MaxLate} \subseteq Nat
  /\ Poll <= MinBudget    \* 25 ms (runner.rs 3827) and 100 ms (outcome.rs 11)
  /\ \A stable \in StableChoices : stable \in Nat /\ stable < Deadline

VARIABLES
  check,        \* the expectation and stable_for_ms of the check
  paint,        \* whether the host streams paint events, and commits frames
  now,          \* the clock
  page,         \* what each region shows
  since,        \* history: the last change of each region
  firstShown,   \* history: when each region first showed each contents
  active,       \* the pane in front
  changes,      \* changes of the page so far
  before,       \* the snapshot taken before the action
  pc,           \* where the loop is; an exchange in flight names the request
  scope,        \* the pane that is read, or Document
  after,        \* the last completed sample
  window,       \* OutcomeStability: the passing snapshot and since when
  lastFull,     \* last_full_probe: 0 for None, otherwise its instant + 1
  revealed,     \* revealed_subject
  lastSnapshot, \* last_snapshot
  eventDriven,  \* event_driven
  frames,       \* PaintCommitted events queued at the client
  wakeAt,       \* end of the wait under way
  outcome,      \* what the loop returned
  late          \* ticks the answers of the host took so far

staged == <<page, since, firstShown>>
world  == <<staged, active, changes>>
vars == <<check, paint, now, world, before, pc, scope, after, window, lastFull,
          revealed, lastSnapshot, eventDriven, frames, wakeAt, outcome, late>>

Regions  == Panes \cup {Chrome}
Painted  == {"draft", "final"}         \* the subject is painted, in one of two looks
Subject  == {"below"} \cup Painted     \* the subject is in the region, or offscreen
Mounted  == {"empty"} \cup Subject
Contents == Mounted \cup {"gone"}
Snapshot == [Regions -> Contents]
Never    == Deadline + 1
Requests == {"arm", "pane", "reacquire", "whole", "probe", "scroll"}
Outcomes == {"none", "pass", "unstable", "absent", "timeout", "failed"}
-----------------------------------------------------------------------------
Streams == paint # "none"

(* outcome_verdict over a snapshot, for the two expectations modelled.     *)
Passes(s) ==
  LET painted == \E r \in Regions : s[r] \in Painted
  IN  painted <=> check.expect = "paintsNamed"

(* outcome_poll_scope: the pane of the surface in front, if it is known.   *)
PollScope == IF active \in Marked THEN active ELSE Document

(* scope_for_passing_snapshot: the pane in front, if it owns the subject.  *)
PassingScope(s) == IF active \in Marked /\ s[active] \in Subject
                   THEN active ELSE Document

(* merge_outcome_snapshot: the baseline with one pane replaced.            *)
Merge(pane) == [before EXCEPT ![pane] = page[pane]]

(* outcome::budget: enough time is left for one more exchange.             *)
Budget == now + MinBudget <= Deadline

(* The client's timeout during outcome::read ends an exchange here: the    *)
(* timeout of an action is never shorter than what is left (runner 2580).  *)
\* Mutation: the read keeps the client's own, longer timeout.
ExchangeEndUnbounded == Deadline + Poll
ExchangeEnd == Deadline

\* Mutation: the document is probed once.
ProbeDueOnce == lastFull = 0
ProbeDue == lastFull = 0 \/ now - (lastFull - 1) >= ProbeInterval

\* Mutation: a changed tree does not restart the window.
WindowAfterKeepsSince(s) ==
  IF ~Passes(s) THEN NoWindow
  ELSE IF check.stable = 0 THEN window
  ELSE [of |-> s, since |-> IF window = NoWindow THEN now ELSE window.since]

(* OutcomeStability::observe: the window after a sample, and its verdict.  *)
(* The fingerprint it compares is one of the nodes (semantic_fingerprint). *)
WindowAfter(s) ==
  IF ~Passes(s) THEN NoWindow
  ELSE IF check.stable = 0 \/ (window # NoWindow /\ window.of = s) THEN window
  ELSE [of |-> s, since |-> now]
Steady(s) ==
  /\ Passes(s)
  /\ check.stable > 0 => WindowAfter(s).of = s /\ now - WindowAfter(s).since >= check.stable
-----------------------------------------------------------------------------
Init ==
  /\ check \in [expect : Expectations, stable : StableChoices]
  /\ paint \in PaintKinds
  /\ now = 0 /\ changes = 0
  /\ active \in Fronts
  /\ page \in [Regions -> {"gone", "empty"} \cup FirstLooks]
  /\ \A r \in Regions : page[r] = "gone" <=> r \notin {active, Chrome}
  /\ since = [r \in Regions |-> 0]
  /\ firstShown = [r \in Regions |-> [c \in Contents |-> IF c = page[r] THEN 0 ELSE Never]]
  /\ before = page
  /\ scope = PollScope
  /\ eventDriven \in {FALSE, Streams}     \* already_armed
  /\ pc = "start"
  /\ after = NoSample /\ lastSnapshot = NoSample
  /\ window = NoWindow /\ lastFull = 0 /\ revealed = FALSE
  /\ frames = 0 /\ wakeAt = 0 /\ outcome = "none" /\ late = 0

Goto(p) == pc' = p /\ UNCHANGED outcome
Return(result) == pc' = "done" /\ outcome' = result

(* incomplete_semantic_outcome, or the timeout itself without a sample.    *)
TimedOut(s) == IF s = NoSample THEN "timeout"
               ELSE IF Passes(s) THEN "unstable" ELSE "absent"

(* Issue a request, or find that its budget is spent.                      *)
Request(r, evidence) == IF Budget THEN Goto(r) ELSE Return(TimedOut(evidence))

(* The next sample of the loop.                                            *)
NextSample(evidence) ==
  Request(IF scope = Document THEN "whole" ELSE "pane", evidence)

InFlight == pc \in Requests
-----------------------------------------------------------------------------
(* What follows a sample: a full probe, a scroll, a verdict or a wait.     *)

NeedsProbe(s, sc) == ~Passes(s) /\ sc # Document /\ ProbeDue

NeedsReveal(s) ==
  /\ ~Passes(s) /\ ~revealed
  /\ check.expect = "paintsNamed"
  /\ \E r \in Regions : s[r] = "below"

Probe(s) ==
  /\ Request("probe", s)
  /\ UNCHANGED <<window, revealed, wakeAt>>

Reveal(s) ==
  /\ revealed' = TRUE
  /\ Request("scroll", s)
  /\ UNCHANGED <<window, wakeAt>>

(* Between samples: until a frame or the end of the window, or one poll.   *)
WaitEnd(s) ==
  IF ~eventDriven THEN now + Poll
  ELSE IF ~Passes(s) THEN Deadline
  ELSE Min({Deadline, WindowAfter(s).since + check.stable})

InTime(s) == now <= Deadline /\ Steady(s)

Conclude(s) ==
  /\ window' = WindowAfter(s)
  /\ \/ /\ InTime(s)
        /\ Return("pass") /\ UNCHANGED wakeAt
     \/ /\ ~InTime(s) /\ ~Budget
        /\ Return(TimedOut(s)) /\ UNCHANGED wakeAt
     \/ /\ ~InTime(s) /\ Budget
        /\ wakeAt' = WaitEnd(s) /\ Goto("wait")
  /\ UNCHANGED revealed

(* A sample read under scope sc, before and after a full probe.            *)
Decide(s) == IF NeedsReveal(s) THEN Reveal(s) ELSE Conclude(s)
Judge(s, sc) ==
  /\ after' = s /\ scope' = sc
  /\ IF NeedsProbe(s, sc) THEN Probe(s) ELSE Decide(s)

(* Everything but the clock, the page and what a sample decides.           *)
still == <<check, paint, now, world, before, late>>
-----------------------------------------------------------------------------
(* Steps of the loop.                                                      *)

Start ==
  /\ pc = "start"
  /\ IF eventDriven THEN NextSample(NoSample) ELSE Request("arm", NoSample)
  /\ UNCHANGED <<still, scope, after, window, lastFull, revealed,
                 lastSnapshot, eventDriven, frames, wakeAt>>

(* arm_paint_events: Ack, or streamingUnavailable.                         *)
ArmReply ==
  /\ pc = "arm"
  /\ eventDriven' = Streams
  /\ NextSample(NoSample)
  /\ UNCHANGED <<still, scope, after, window, lastFull, revealed,
                 lastSnapshot, frames, wakeAt>>

PaneReply ==
  /\ pc = "pane"
  /\ page[scope] # "gone"
  /\ Judge(Merge(scope), scope)
  /\ UNCHANGED <<still, lastFull, lastSnapshot, eventDriven, frames>>

(* The pane root is gone, or the page behind the inspector gave up: an     *)
(* error that is neither a timeout nor the end of the connection.          *)
PaneRefused ==
  /\ pc = "pane"
  /\ Request("reacquire", lastSnapshot)
  /\ UNCHANGED <<still, scope, after, window, lastFull, revealed,
                 lastSnapshot, eventDriven, frames, wakeAt>>

WholeReply ==
  /\ pc \in {"whole", "reacquire"}
  /\ Judge(page, IF pc = "whole" THEN Document ELSE PollScope)
  /\ UNCHANGED <<still, lastFull, lastSnapshot, eventDriven, frames>>

ProbeReply ==
  /\ pc = "probe"
  /\ after' = page
  /\ lastFull' = now + 1
  /\ scope' = IF Passes(page) THEN PassingScope(page) ELSE PollScope
  /\ Decide(page)
  /\ UNCHANGED <<still, lastSnapshot, eventDriven, frames>>

(* Another error: the arm falls back to polling, the scroll is forgiven,   *)
(* a document read ends the check.                                         *)
Refused ==
  /\ InFlight /\ pc # "pane"
  /\ \/ /\ pc = "arm"
        /\ eventDriven' = FALSE
        /\ NextSample(NoSample) /\ UNCHANGED lastSnapshot
     \/ /\ pc = "scroll"
        /\ lastSnapshot' = after
        /\ NextSample(after) /\ UNCHANGED eventDriven
     \/ /\ pc \in {"reacquire", "whole", "probe"}
        /\ Return("failed") /\ UNCHANGED <<eventDriven, lastSnapshot>>
  /\ UNCHANGED <<still, scope, after, window, lastFull, revealed, frames, wakeAt>>

(* The regions of touched now show what new says.                          *)
Show(new, touched) ==
  /\ page' = new
  /\ since' = [r \in Regions |-> IF r \in touched THEN now ELSE since[r]]
  /\ firstShown' = [r \in Regions |-> [c \in Contents |->
                      IF r \in touched /\ c = new[r] /\ firstShown[r][c] = Never
                      THEN now ELSE firstShown[r][c]]]

FrameCommitted == frames' = IF eventDriven /\ paint = "frames" THEN frames + 1 ELSE frames

(* ScrollIntoView brings one subject found below the fold on screen.       *)
ScrollReply ==
  /\ pc = "scroll"
  /\ \E r \in Regions, look \in Painted :
       /\ after[r] = "below"
       /\ IF page[r] = "below"
          THEN Show([page EXCEPT ![r] = look], {r}) /\ FrameCommitted
          ELSE UNCHANGED <<staged, frames>>
  /\ lastSnapshot' = after
  /\ NextSample(after)
  /\ UNCHANGED <<check, paint, now, active, changes, before, late, scope, after,
                 window, lastFull, revealed, eventDriven, wakeAt>>

(* The exchange runs into the timeout outcome::read set: the client is     *)
(* terminal with a timeout, and the last completed sample decides.         *)
ExchangeTimesOut ==
  /\ InFlight
  /\ now' = ExchangeEnd
  /\ late' = late + (ExchangeEnd - now)
  /\ Return(TimedOut(IF pc \in {"probe", "scroll"} THEN after ELSE lastSnapshot))
  /\ eventDriven' = (eventDriven /\ pc # "arm")
  /\ UNCHANGED <<check, paint, world, before, scope, after, window, lastFull,
                 revealed, lastSnapshot, frames, wakeAt>>

(* The connection ends: no sample can follow, whatever was read before.    *)
Disconnected ==
  /\ InFlight \/ (pc = "wait" /\ eventDriven)
  /\ Return("failed")
  /\ UNCHANGED <<still, scope, after, window, lastFull, revealed,
                 lastSnapshot, eventDriven, frames, wakeAt>>

(* wait_for_paint takes one queued frame; a wait or a sleep may also end.  *)
Wake ==
  /\ pc = "wait"
  /\ \/ eventDriven /\ frames > 0 /\ frames' = frames - 1
     \/ now >= wakeAt /\ UNCHANGED frames
  /\ lastSnapshot' = after
  /\ wakeAt' = 0
  /\ NextSample(after)
  /\ UNCHANGED <<still, scope, after, window, lastFull, revealed, eventDriven>>
-----------------------------------------------------------------------------
(* The application and the clock.                                          *)

Loop == <<scope, after, window, lastFull, revealed, lastSnapshot, eventDriven,
          wakeAt, outcome, pc>>

Change(r) ==
  /\ pc # "done" /\ changes < MaxChanges
  /\ page[r] # "gone"
  /\ \E contents \in Mounted \ {page[r]} : Show([page EXCEPT ![r] = contents], {r})
  /\ changes' = changes + 1
  /\ FrameCommitted
  /\ UNCHANGED <<Loop, check, paint, now, active, before, late>>

(* Another pane comes to the front; the old one is retained or removed.    *)
Navigate(pane) ==
  /\ pc # "done" /\ changes < MaxChanges
  /\ pane # active
  /\ \E contents \in Mounted, old \in {page[active], "gone"} :
       Show([page EXCEPT ![pane] = contents, ![active] = old],
            IF old = "gone" THEN {pane, active} ELSE {pane})
  /\ active' = pane
  /\ changes' = changes + 1
  /\ FrameCommitted
  /\ UNCHANGED <<Loop, check, paint, now, before, late>>

Due == \/ pc \in {"start", "done"}
       \/ InFlight /\ (now >= ExchangeEnd \/ late >= MaxLate)
       \/ pc = "wait" /\ (now >= wakeAt \/ (eventDriven /\ frames > 0))

Tick ==
  /\ ~Due
  /\ now' = now + 1
  /\ late' = IF InFlight THEN late + 1 ELSE late
  /\ UNCHANGED <<Loop, check, paint, world, before, frames>>

Finished == pc = "done" /\ UNCHANGED vars

Next ==
  \/ Start \/ ArmReply \/ PaneReply \/ PaneRefused \/ WholeReply \/ ProbeReply
  \/ Refused \/ ScrollReply \/ ExchangeTimesOut \/ Disconnected \/ Wake
  \/ (\E r \in Regions : Change(r)) \/ (\E pane \in Panes : Navigate(pane))
  \/ Tick \/ Finished

Spec == Init /\ [][Next]_vars
-----------------------------------------------------------------------------
(* Properties.                                                             *)

(* Shape of the state; a window is open only over a passing snapshot.      *)
TypeOK ==
  /\ check \in [expect : Expectations, stable : StableChoices]
  /\ paint \in PaintKinds
  /\ now \in Nat /\ changes \in 0..MaxChanges /\ late \in Nat
  /\ active \in Panes /\ page[active] # "gone"
  /\ page \in Snapshot /\ before \in Snapshot
  /\ since \in [Regions -> 0..Deadline]
  /\ firstShown \in [Regions -> [Contents -> 0..Never]]
  /\ pc \in Requests \cup {"start", "wait", "done"}
  /\ scope \in Marked \cup {Document}
  /\ after \in Snapshot \cup {NoSample} /\ lastSnapshot \in Snapshot \cup {NoSample}
  /\ window # NoWindow => Passes(window.of) /\ window.since <= now
  /\ lastFull \in 0..(Deadline + 1) /\ wakeAt \in 0..(Deadline + Poll)
  /\ {revealed, eventDriven} \subseteq BOOLEAN
  /\ frames \in 0..(MaxChanges + 1)
  /\ outcome \in Outcomes /\ (outcome = "none" <=> pc # "done")

(* The whole settle, its arm, its probes and its scroll included, ends by  *)
(* the deadline the check declared (runner.rs 3631-3632), whatever the host*)
(* does: the loop never waits past it, and with the check for deadlock it  *)
(* never waits for nothing.                                                *)
EndsInTime == now <= Deadline

(* What a pass reports was on the page stable_for_ms before: contents that *)
(* a region of those polled came to show later restarts the window, so that*)
(* "staged content cannot be reported as a fast completed render" (qa.rs   *)
(* 756-758), whatever was read between a probe, a scroll and a frame.  It  *)
(* does not say that the page kept still in between: the window compares   *)
(* what was read, so contents that give way and come back between two      *)
(* samples, or while a scoped read fails or a scroll is asked for, do not  *)
(* restart it.                                                             *)
Polled == IF scope = Document THEN {r \in Regions : page[r] # "gone"} ELSE {scope}
PassIsStable ==
  outcome = "pass" => \A r \in Polled : firstShown[r][page[r]] + check.stable <= now

(* The last completed sample decides a check that ran out of time; a       *)
(* timeout is reported only without a sample (qa.rs 744-746).              *)
EvidenceKept == outcome = "timeout" => after = NoSample

(* The loop concludes by its deadline, and on what it has read.            *)
ConcludesInTime == TypeOK /\ EndsInTime /\ EvidenceKept

(* A page that came to rest with the result rendered anywhere on it, early *)
(* enough for a probe and a poll, is not reported to lack the result when  *)
(* every exchange was prompt: "it cannot be blind to the rest of the page  *)
(* for a whole deadline" (runner.rs 3516-3521).                            *)
RestedEarly ==
  \A r \in Regions : since[r] + ProbeInterval + Poll + MinBudget <= Deadline
RestedPageIsSeen ==
  /\ outcome = "absent" /\ RestedEarly /\ late = 0
  /\ check.stable > 0 => page[active] # "below"
  => ~Passes(page)
SeenWhenPolling == ~eventDriven => RestedPageIsSeen

(* The same, for a loop that waits for frames of a host that commits one   *)
(* for every change (runner.rs 3803: a rendered outcome cannot change      *)
(* without a committed frame).                                             *)
SeenWhenEventDriven == eventDriven /\ paint = "frames" => RestedPageIsSeen

(* A pass was rendered: the merged snapshot that passed describes the page,*)
(* because nodes outside the pane "are unchanged during this action"       *)
(* (runner.rs 3498-3500).                                                  *)
PassMeansRendered == outcome = "pass" => Passes(page)
=============================================================================
