-------------------------------- MODULE Waits --------------------------------
(***************************************************************************)
(* runner.rs: the waits by which the harness tells that a page is there:   *)
(*                                                                         *)
(*   arrival     wait_for_arrival, and wait_for_navigation_arrival for a   *)
(*               named document, which watches the selected tab;           *)
(*   visible     wait_for_visible_arrival: a marker on screen;             *)
(*   condition   wait_for_semantic_condition and wait_for_pixels_change:   *)
(*               one sample after each committed frame;                    *)
(*   stable      capture_stable_region: frames until they stop changing.   *)
(*                                                                         *)
(* The page moves between any two steps.  It is its frame number, what is  *)
(* drawn, the node that carries the marker (or the selected tab), which a  *)
(* reconciliation replaces, and whether the rest of the surface is there.  *)
(***************************************************************************)
EXTENDS Naturals, Sequences

CONSTANTS
    Budget,        \* ticks (the sleep of a loop) that a wait has
    Streak,        \* samples that prove an arrival (3 in the code)
    Quiet,         \* equal captures that prove stillness (4 in the code)
    MinBudget,     \* ticks left below which no request is made (100 ms)
    MaxAnswer,     \* bound: ticks that a request of a condition takes
    MaxCapture,    \* bound: ticks that one capture takes
    MaxMoves       \* bound: changes of the page in a behaviour

\* One capture equals nothing, and a budget has room for the equal captures
\* that are asked for.
BoundsAreWellFormed ==
  /\ Budget \in Nat /\ Streak \in Nat \ {0} /\ Quiet \in Nat \ {0, 1}
  /\ Quiet <= Budget
  /\ MinBudget \in Nat /\ MaxAnswer \in Nat /\ MaxCapture \in Nat /\ MaxMoves \in Nat

VARIABLES
    kind, phase, result,
    frame, drawn, marker, chrome, moves,   \* the page
    now, deadline,
    root, streak, samples,                 \* of an arrival
    armed, pending, seen, timely,          \* of a condition
    previous                               \* of a condition and a capture

page == <<frame, drawn, marker, chrome, moves>>
clock == <<now, deadline>>
vars == <<kind, phase, result, page, clock, root, streak, samples, armed, pending,
          seen, timely, previous>>

None == 0

Init ==
  /\ kind \in {"arrival", "tab", "visible", "condition", "stable"}
  /\ phase = "begin"
  /\ result = "none"
  /\ frame = 1 /\ drawn = 1 /\ moves = 0
  /\ marker \in {None, 1}
  /\ chrome \in BOOLEAN
  /\ now = 0 /\ deadline = Budget
  /\ root = None /\ streak = 0 /\ samples = << >>
  /\ armed = FALSE /\ pending = FALSE /\ seen = None /\ timely = None
  /\ previous = None

-----------------------------------------------------------------------------
(* The page commits a frame.                                               *)

\* outcome::budget: there is time left to make a request in.
HasBudget == now + MinBudget <= deadline

\* A frame committed now is looked at in time: when the request that is out
\* is answered there is the budget, and the time, to make another.
Early ==
  /\ now + MaxAnswer + MinBudget <= deadline
  /\ now + MaxAnswer + MaxAnswer <= deadline

Commit ==
  /\ moves < MaxMoves /\ phase # "done"
  /\ moves' = moves + 1
  /\ frame' = frame + 1
  /\ pending' = armed
  /\ timely' = IF Early THEN frame' ELSE timely
  /\ UNCHANGED <<kind, phase, result, now, deadline, root, streak, samples, armed,
                 seen, previous>>

\* The marker goes, or comes with a node of its own: a new identity.
Remount ==
  /\ Commit
  /\ marker' \in {None, frame'} /\ marker' # marker
  /\ UNCHANGED <<drawn, chrome>>

ChromeChanges == Commit /\ chrome' = ~ chrome /\ UNCHANGED <<drawn, marker>>

Redraw == Commit /\ drawn' = 3 - drawn /\ UNCHANGED <<marker, chrome>>

-----------------------------------------------------------------------------
(* Arrival.                                                                *)

Begin ==
  /\ phase = "begin"
  /\ phase' = "sample"
  /\ IF kind = "condition"
       THEN armed' \in BOOLEAN /\ now' \in now..(now + MaxAnswer)  \* arm_paint_events
       ELSE armed' = FALSE /\ UNCHANGED now
  /\ IF kind = "stable" THEN previous' = drawn /\ streak' = 1
                        ELSE UNCHANGED <<previous, streak>>
  /\ UNCHANGED <<kind, result, page, deadline, root, samples, pending, seen, timely>>

\* The first onscreen node that carries the marker, or the selected tab.
ArrivalAnchor == marker

\* A full snapshot shows the surface; the watched tab has to be selected too.
OnSurface == chrome /\ (kind = "tab" => marker # None)

\* Mutation: a stale snapshot does not end the streak.
StreakKept == streak

\* What is left of the streak when the watched node cannot be read.
StreakAfterStale == 0

\* stable_arrival.
StableArrival(before, arrived) == IF arrived THEN before + 1 ELSE 0

Conclude(reached) ==
  IF reached THEN phase' = "done" /\ result' = "arrived"
  ELSE IF now >= deadline THEN phase' = "done" /\ result' = "absent"
  ELSE phase' = "sleep" /\ UNCHANGED result

\* One sample: the subtree of the node found last, which may be there without
\* the marker, or, when it is gone, the whole tree in its place.
SampleArrival ==
  \E stale \in IF root \in {None, marker} THEN {FALSE} ELSE BOOLEAN :
  LET scoped == root # None /\ ~ stale
      kept == IF stale THEN StreakAfterStale ELSE streak
      arrived == IF scoped THEN root = marker ELSE OnSurface
  IN  /\ kind \in {"arrival", "tab"} /\ phase = "sample"
      /\ root' = IF arrived THEN (IF scoped THEN root ELSE ArrivalAnchor) ELSE None
      /\ streak' = StableArrival(kept, arrived)
      /\ samples' = Append(samples, [arrived |-> arrived, node |-> marker])
      /\ Conclude(streak' >= Streak)
      /\ UNCHANGED <<kind, page, clock, armed, pending, seen, timely, previous>>

\* wait_for_visible_arrival: always the whole tree.
SampleVisible ==
  /\ kind = "visible" /\ phase = "sample"
  /\ streak' = StableArrival(streak, ArrivalAnchor # None)
  /\ samples' = Append(samples, [arrived |-> marker # None, node |-> marker])
  /\ Conclude(streak' >= Streak)
  /\ UNCHANGED <<kind, page, clock, root, armed, pending, seen, timely, previous>>

Sleep ==
  /\ phase = "sleep"
  /\ phase' = "sample"
  /\ now' = now + 1
  /\ UNCHANGED <<kind, result, page, deadline, root, streak, samples, armed, pending,
                 seen, timely, previous>>

-----------------------------------------------------------------------------
(* A condition: drawn = 2 is what is waited for.                           *)

\* Without the budget for a request nothing is asked, and a request is given
\* up at the deadline (outcome::read): the snapshot before is what the wait
\* ends with, if there was one.
SampleCondition ==
  /\ kind = "condition" /\ phase = "sample"
  /\ \/ /\ ~ HasBudget
        /\ phase' = "done" /\ result' = "absent"
        /\ UNCHANGED <<now, seen, previous>>
     \/ /\ HasBudget /\ now + MaxAnswer > deadline
        /\ phase' = "done" /\ result' = "absent" /\ now' = deadline
        /\ UNCHANGED <<seen, previous>>
     \/ /\ HasBudget
        /\ phase' = "answer" /\ seen' = frame /\ previous' = drawn
        /\ UNCHANGED <<now, result>>
  /\ UNCHANGED <<kind, page, deadline, root, streak, samples, armed, pending, timely>>

\* An event that came in since the snapshot was taken stays pending.
AnswerCondition ==
  /\ phase = "answer"
  /\ now' \in now..(now + MaxAnswer) /\ now' <= deadline
  /\ IF previous = 2 THEN phase' = "done" /\ result' = "arrived"
     ELSE IF now' + MinBudget > deadline THEN phase' = "done" /\ result' = "absent"
     ELSE phase' = (IF armed THEN "paint" ELSE "sleep") /\ UNCHANGED result
  /\ UNCHANGED <<kind, page, deadline, root, streak, samples, armed, pending, seen,
                 timely, previous>>

\* wait_for_paint takes the event, or the deadline comes first.
PaintComes ==
  /\ phase = "paint" /\ pending
  /\ phase' = "sample"
  /\ pending' = FALSE
  /\ UNCHANGED <<kind, result, page, clock, root, streak, samples, armed, seen, timely, previous>>

TimePasses ==
  /\ phase = "paint" /\ ~ pending
  /\ IF now < deadline THEN now' = now + 1 /\ UNCHANGED <<phase, result>>
                       ELSE phase' = "done" /\ result' = "absent" /\ UNCHANGED now
  /\ UNCHANGED <<kind, page, deadline, root, streak, samples, armed, pending, seen, timely, previous>>

-----------------------------------------------------------------------------
(* A stable capture.                                                       *)

Extended(took) == deadline + took

SampleCapture ==
  /\ kind = "stable" /\ phase = "sample"
  /\ \E took \in 0..MaxCapture :
       LET tick == now + 1
           held == drawn = previous
       IN  IF tick >= deadline
             THEN /\ phase' = "done" /\ result' = "absent"
                  /\ now' = tick
                  /\ UNCHANGED <<deadline, streak, samples, previous>>
             ELSE /\ now' = tick + took
                  /\ deadline' = Extended(took)
                  /\ streak' = IF held THEN streak + 1 ELSE 1
                  /\ samples' = Append(samples, [arrived |-> held, node |-> drawn])
                  /\ previous' = drawn
                  /\ IF streak' >= Quiet THEN phase' = "done" /\ result' = "arrived"
                     ELSE IF now' >= deadline' THEN phase' = "done" /\ result' = "absent"
                     ELSE UNCHANGED <<phase, result>>
  /\ UNCHANGED <<kind, page, root, armed, pending, seen, timely>>

-----------------------------------------------------------------------------
Step ==
  \/ Begin \/ SampleArrival \/ SampleVisible \/ Sleep
  \/ SampleCondition \/ AnswerCondition \/ PaintComes \/ TimePasses \/ SampleCapture

Next == Step \/ Remount \/ ChromeChanges \/ Redraw

Spec == Init /\ [][Next]_vars /\ WF_vars(Step)

-----------------------------------------------------------------------------
LastSamples(n) == SubSeq(samples, Len(samples) - n + 1, Len(samples))

\* An arrival is proved by Streak samples in a row that showed it, and those
\* that found the node it watches found the same one: a node that the
\* framework replaced between two samples starts the proof again.
ArrivalIsHeld ==
  result = "arrived" /\ kind \in {"arrival", "tab", "visible"} =>
    /\ Len(samples) >= Streak
    /\ \A i \in 1..Streak : LastSamples(Streak)[i].arrived
    /\ kind # "visible" =>
         \A i, j \in 1..Streak :
           LastSamples(Streak)[i].node # None /\ LastSamples(Streak)[j].node # None =>
             LastSamples(Streak)[i].node = LastSamples(Streak)[j].node

\* A wait armed for paint events that ends in vain has looked at every frame
\* that was committed while there was still time to ask for it: while the
\* request that is out, and the one that follows, can be made and answered
\* before the deadline.  A frame later than that is received, and may go
\* unseen: no request is made in the last MinBudget ticks.
NoFrameMissed ==
  result = "absent" /\ armed => seen >= timely

\* A capture counts as still only after Quiet equal ones, and a region that
\* never moved is never refused, however long its captures take.
StillnessIsProved ==
  kind = "stable" =>
    /\ result = "arrived" => \A i \in 1..(Quiet - 1) : LastSamples(Quiet - 1)[i].arrived
    /\ result = "absent" => moves > 0

\* Every wait ends: frames that keep coming, and captures that each put the
\* deadline off, do not keep it going.
Over == phase = "done"

-----------------------------------------------------------------------------
(* Why they hold: the invariant, as the conjunction of what it says of     *)
(* every wait and of each kind of wait.                                    *)

FlagsOK == chrome \in BOOLEAN /\ armed \in BOOLEAN /\ pending \in BOOLEAN
SampleType == [arrived : BOOLEAN, node : Nat]

TypeOK ==
  /\ FlagsOK
  /\ kind \in {"arrival", "tab", "visible", "condition", "stable"}
  /\ phase \in {"begin", "sample", "sleep", "answer", "paint", "done"}
  /\ result \in {"none", "arrived", "absent"}
  /\ phase # "done" => result = "none"
  /\ phase \in {"answer", "paint"} => kind = "condition"
  /\ frame \in Nat /\ moves \in Nat /\ marker \in Nat /\ now \in Nat /\ deadline \in Nat
  /\ root \in Nat /\ streak \in Nat /\ seen \in Nat /\ timely \in Nat /\ previous \in Nat
  /\ drawn \in {1, 2}
  /\ samples \in Seq(SampleType)

\* The last n samples showed what was waited for.
Showed(n) == \A i \in (Len(samples) - n + 1)..Len(samples) : samples[i].arrived

\* The samples of a streak saw no other node than the one that is watched.
StreakIsHeld ==
  kind \in {"arrival", "tab", "visible"} =>
    /\ streak <= Len(samples) /\ Showed(streak)
    /\ kind # "visible" => \A i \in (Len(samples) - streak + 1)..Len(samples) :
                             samples[i].node \in {None, root}
    /\ result = "arrived" => streak >= Streak

\* A timely frame that is not in the snapshot is announced by a pending event,
\* and there is still time to take another snapshot.
FramesAreAnnounced ==
  /\ timely <= frame /\ seen <= frame
  /\ phase = "begin" => seen = None /\ (timely # None => Early)
  /\ armed => kind = "condition" /\ phase \notin {"begin", "sleep"}
  /\ armed /\ seen < timely =>
       /\ result # "absent"
       /\ phase \in {"answer", "paint"} => pending
       /\ IF phase = "answer" THEN Early ELSE HasBudget /\ now + MaxAnswer <= deadline

\* The equal captures are the last ones; as long as nothing moved, every
\* capture was one of them and cost one tick of the budget.
CapturesAreEqual ==
  kind = "stable" =>
    /\ phase \in {"begin", "sample", "done"}
    /\ phase # "begin" => streak >= 1 /\ streak - 1 <= Len(samples) /\ Showed(streak - 1)
    /\ phase = "sample" => streak < Quiet
    /\ result = "arrived" => streak >= Quiet
    /\ moves = 0 =>
         /\ drawn = 1 /\ result # "absent"
         /\ phase = "begin" => now = 0 /\ deadline = Budget
         /\ phase = "sample" => previous = drawn /\ streak + deadline = now + Budget + 1

WaitInv == TypeOK /\ StreakIsHeld /\ FramesAreAnnounced /\ CapturesAreEqual
=============================================================================
