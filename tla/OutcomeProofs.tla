--------------------------- MODULE OutcomeProofs ---------------------------
(* Proofs about OutcomeSettling: the loop concludes by its deadline on the *)
(* evidence it has, a pass reports what was on the page a while before, and*)
(* a loop that polls does not overlook a page that came to rest in time.   *)
(* All three hold for every page, every deadline and any number of changes.*)
EXTENDS OutcomeSettling, TLAPS

(* The clock stops at the end of a wait, which is within the deadline, and *)
(* no more than a poll away from a loop that polls.                        *)
Waiting ==
  /\ EndsInTime
  /\ pc = "wait" => /\ now <= wakeAt /\ wakeAt <= Deadline
                    /\ ~eventDriven => wakeAt <= now + Poll

(* Every queued frame is a change of the page or the one scroll.           *)
Framed ==
  /\ frames <= changes + (IF revealed THEN 1 ELSE 0)
  /\ pc = "scroll" => revealed /\ frames <= changes

(* What the loop would conclude on is the last completed sample.           *)
Evidenced ==
  /\ EvidenceKept
  /\ pc \in {"start", "arm", "pane", "whole", "reacquire"} => lastSnapshot = after
  /\ pc \in {"start", "arm"} => after = NoSample

(* A pane is read only under the scope of a pane.                          *)
Scoped == pc \in {"pane", "reacquire"} => scope # Document

(* Nothing on the page is newer than the clock, and what the window of a   *)
(* passing snapshot holds was first shown no later than it opened.         *)
Dated ==
  /\ \A r \in Regions : /\ since[r] <= now
                         /\ firstShown[r][page[r]] <= now
                         /\ firstShown[r][before[r]] <= now
  /\ \A r \in Regions, c \in Contents : firstShown[r][c] <= now \/ firstShown[r][c] = Never
Aged ==
  /\ Dated
  /\ window # NoWindow =>
       /\ window.of \in Snapshot /\ Passes(window.of)
       /\ window.since \in Nat /\ window.since <= now
       /\ \A r \in Regions : firstShown[r][window.of[r]] <= window.since

(* An exchange that lost no time was asked for within its budget.          *)
Prompt == InFlight /\ late = 0 => Budget

(* A probe that saw the page pass ended the check, or left the loop reading*)
(* a place that shows the subject.                                         *)
Probed ==
  /\ lastFull <= now + 1
  /\ lastFull # 0 /\ (\A r \in Regions : since[r] < lastFull - 1) /\ Passes(page) =>
       /\ check.stable = 0 => pc = "done"
       /\ scope = Document \/ (scope = active /\ page[active] \in Subject)

(* A polling loop waits with a failing sample of a page that passes only if*)
(* it reads one pane, has that pane right and probed a short time ago.     *)
Blind ==
  /\ pc = "wait" /\ ~eventDriven /\ ~Passes(after) /\ Passes(page)
  /\ \A r \in Regions : since[r] + Poll < wakeAt
  => /\ lastFull # 0 /\ wakeAt < (lastFull - 1) + ProbeInterval + Poll
     /\ scope # Document /\ after[scope] = page[scope]

OutcomeInv ==
  /\ TypeOK /\ Waiting /\ Framed /\ Evidenced /\ Scoped
  /\ Aged /\ Prompt /\ Probed /\ Blind
  /\ PassIsStable /\ SeenWhenPolling
-----------------------------------------------------------------------------
(* Facts about the operators of the loop.                                  *)

LEMMA TimesAreNaturals ==
  /\ Deadline \in Nat /\ Poll \in Nat /\ ProbeInterval \in Nat /\ MinBudget \in Nat
  /\ Deadline > 0 /\ Poll > 0 /\ ProbeInterval > 0 /\ MinBudget > 0
  /\ Poll <= MinBudget /\ MaxChanges \in Nat /\ MaxLate \in Nat
BY TimesAssumption

(* The lesser of two numbers is one of them, and neither is less.          *)
LEMMA LesserOfTwo ==
  ASSUME NEW a \in Nat, NEW b \in Nat
  PROVE  /\ Min({a, b}) \in {a, b}
         /\ Min({a, b}) <= a /\ Min({a, b}) <= b
<1>1. \E x \in {a, b} : \A y \in {a, b} : x <= y
  OBVIOUS
<1>2. /\ Min({a, b}) \in {a, b}
      /\ \A y \in {a, b} : Min({a, b}) <= y
  BY <1>1 DEF Min
<1> QED
  BY <1>2

(* What the loop returns without another sample: a timeout only if there   *)
(* is none, and a missing result only if the sample misses it.             *)
LEMMA TimedOutSays ==
  ASSUME NEW s
  PROVE  /\ TimedOut(s) \in {"timeout", "unstable", "absent"}
         /\ TimedOut(s) = "timeout" <=> s = NoSample
         /\ TimedOut(s) = "absent" => ~Passes(s)
BY DEF TimedOut

(* A request is issued within its budget, or the loop returns.             *)
Requested(r, evidence) ==
  \/ Budget /\ pc' = r /\ outcome' = outcome
  \/ ~Budget /\ pc' = "done" /\ outcome' = TimedOut(evidence)

LEMMA RequestDecides ==
  ASSUME NEW r, NEW evidence, Request(r, evidence)
  PROVE  Requested(r, evidence)
BY DEF Request, Requested, Goto, Return

LEMMA NextSampleDecides ==
  ASSUME NEW evidence, NextSample(evidence)
  PROVE  Requested(IF scope = Document THEN "whole" ELSE "pane", evidence)
BY RequestDecides DEF NextSample

(* What a sample leads to: a probe, a scroll, a pass, the end of the       *)
(* budget, or a wait.                                                      *)
Judged(s) ==
  \/ /\ pc' = "probe" /\ outcome' = outcome /\ ~Passes(s) /\ Budget
     /\ UNCHANGED <<window, revealed, wakeAt>>
  \/ /\ pc' = "scroll" /\ outcome' = outcome /\ ~Passes(s) /\ Budget
     /\ ~revealed /\ revealed' = TRUE /\ UNCHANGED <<window, wakeAt>>
  \/ /\ pc' = "done" /\ outcome' = "pass" /\ now <= Deadline /\ Steady(s)
     /\ window' = WindowAfter(s) /\ UNCHANGED <<revealed, wakeAt>>
  \/ /\ pc' = "done" /\ outcome' = TimedOut(s) /\ ~Budget /\ ~InTime(s)
     /\ window' \in {window, WindowAfter(s)}
     /\ revealed' \in {revealed, TRUE} /\ UNCHANGED wakeAt
  \/ /\ pc' = "wait" /\ outcome' = outcome /\ Budget /\ ~InTime(s)
     /\ window' = WindowAfter(s) /\ wakeAt' = WaitEnd(s) /\ UNCHANGED revealed

LEMMA DecideJudges ==
  ASSUME NEW s, Decide(s)
  PROVE  Judged(s) /\ pc' # "probe"
<1>1. CASE NeedsReveal(s)
  <2>1. Reveal(s)
    BY <1>1 DEF Decide
  <2>2. /\ revealed' = TRUE /\ Requested("scroll", s) /\ UNCHANGED <<window, wakeAt>>
    BY <2>1, RequestDecides DEF Reveal
  <2>3. ~Passes(s) /\ ~revealed
    BY <1>1 DEF NeedsReveal
  <2>4. ~InTime(s)
    BY <2>3 DEF InTime, Steady
  <2> QED
    BY <2>2, <2>3, <2>4 DEF Requested, Judged
<1>2. CASE ~NeedsReveal(s)
  <2>1. Conclude(s)
    BY <1>2 DEF Decide
  <2>2. CASE InTime(s) /\ Return("pass") /\ UNCHANGED wakeAt
    BY <2>1, <2>2 DEF Conclude, Judged, Return, InTime
  <2>3. CASE ~InTime(s) /\ ~Budget /\ Return(TimedOut(s)) /\ UNCHANGED wakeAt
    BY <2>1, <2>3 DEF Conclude, Judged, Return
  <2>4. CASE ~InTime(s) /\ Budget /\ wakeAt' = WaitEnd(s) /\ Goto("wait")
    BY <2>1, <2>4 DEF Conclude, Judged, Goto
  <2> QED
    BY <2>1, <2>2, <2>3, <2>4 DEF Conclude
<1> QED
  BY <1>1, <1>2

LEMMA ProbeJudges ==
  ASSUME NEW s, Probe(s), ~Passes(s)
  PROVE  Judged(s)
<1>1. Requested("probe", s) /\ UNCHANGED <<window, revealed, wakeAt>>
  BY RequestDecides DEF Probe
<1>2. ~InTime(s)
  BY DEF InTime, Steady
<1> QED
  BY <1>1, <1>2 DEF Requested, Judged

(* The two ways a sample enters the loop: a pane or the document replaces  *)
(* the sample, or the probe does.                                          *)
Sampled(s) ==
  /\ after' = s /\ Judged(s)
  /\ UNCHANGED <<still, lastSnapshot, eventDriven, frames>>

LEMMA PaneSamples ==
  ASSUME PaneReply
  PROVE  /\ Sampled(Merge(scope)) /\ scope' = scope /\ lastFull' = lastFull
         /\ pc' = "wait" /\ ~Passes(Merge(scope)) /\ scope # Document => ~ProbeDue
<1>1. Judge(Merge(scope), scope)
  BY DEF PaneReply
<1>2. CASE NeedsProbe(Merge(scope), scope)
  <2>1. Probe(Merge(scope)) /\ ~Passes(Merge(scope))
    BY <1>1, <1>2 DEF Judge, NeedsProbe
  <2>2. pc' # "wait"
    BY <2>1, RequestDecides DEF Probe, Requested
  <2> QED
    BY <1>1, <2>1, <2>2, ProbeJudges DEF PaneReply, Judge, Sampled
<1>3. CASE ~NeedsProbe(Merge(scope), scope)
  <2>1. Decide(Merge(scope))
    BY <1>1, <1>3 DEF Judge
  <2> QED
    BY <1>1, <1>3, <2>1, DecideJudges DEF PaneReply, Judge, Sampled, NeedsProbe
<1> QED
  BY <1>2, <1>3

LEMMA WholeSamples ==
  ASSUME WholeReply
  PROVE  /\ Sampled(page) /\ lastFull' = lastFull
         /\ scope' = IF pc = "whole" THEN Document ELSE PollScope
<1> DEFINE sc == IF pc = "whole" THEN Document ELSE PollScope
<1>1. Judge(page, sc)
  BY DEF WholeReply
<1>2. CASE NeedsProbe(page, sc)
  <2>1. Probe(page) /\ ~Passes(page)
    BY <1>1, <1>2 DEF Judge, NeedsProbe
  <2> QED
    BY <1>1, <2>1, ProbeJudges DEF WholeReply, Judge, Sampled
<1>3. CASE ~NeedsProbe(page, sc)
  <2>1. Decide(page)
    BY <1>1, <1>3 DEF Judge
  <2> QED
    BY <1>1, <2>1, DecideJudges DEF WholeReply, Judge, Sampled
<1> QED
  BY <1>2, <1>3

LEMMA ProbeSamples ==
  ASSUME ProbeReply
  PROVE  /\ Sampled(page) /\ lastFull' = now + 1 /\ pc' # "probe"
         /\ scope' = IF Passes(page) THEN PassingScope(page) ELSE PollScope
BY DecideJudges DEF ProbeReply, Sampled

LEMMA PollScopeIsAScope == PollScope \in Marked \cup {Document}
BY DEF PollScope
-----------------------------------------------------------------------------
(* The kinds of step the loop and the page take.                           *)

(* The loop asks for something, or returns without another sample.         *)
Asked ==
  /\ UNCHANGED <<still, scope, after, window, lastFull, revealed>>
  /\ frames' = frames \/ (frames > 0 /\ frames' = frames - 1)
  /\ wakeAt' = wakeAt \/ wakeAt' = 0
  /\ eventDriven' \in BOOLEAN /\ (pc # "arm" => eventDriven' = eventDriven)
  /\ lastSnapshot' = lastSnapshot \/ lastSnapshot' = after
  /\ pc # "done"
  /\ \/ /\ pc' \in {"arm", "pane", "whole", "reacquire"} /\ outcome' = outcome
        /\ Budget /\ lastSnapshot' = after
        /\ pc' = "arm" => pc = "start"
        /\ pc' \in {"pane", "reacquire"} => scope # Document
     \/ /\ pc' = "done" /\ outcome' = TimedOut(after) /\ ~Budget
        /\ pc = "wait" => eventDriven \/ now >= wakeAt
     \/ pc' = "done" /\ outcome' = "failed"

LEMMA SamplingAsks ==
  ASSUME OutcomeInv, NEW r, Requested(r, after), lastSnapshot' = after, pc # "done",
         r \in {"arm", "pane", "whole", "reacquire"},
         r = "arm" => pc = "start",
         r \in {"pane", "reacquire"} => scope # Document,
         pc = "wait" => eventDriven \/ now >= wakeAt,
         UNCHANGED <<still, scope, after, window, lastFull, revealed>>,
         frames' = frames \/ (frames > 0 /\ frames' = frames - 1),
         wakeAt' = wakeAt \/ wakeAt' = 0,
         eventDriven' \in BOOLEAN, pc # "arm" => eventDriven' = eventDriven
  PROVE  Asked
BY DEF Requested, Asked

LEMMA FailingAsks ==
  ASSUME OutcomeInv, pc' = "done", outcome' = "failed", pc # "done",
         UNCHANGED <<still, scope, after, window, lastFull, revealed, lastSnapshot,
                     eventDriven, frames, wakeAt>>
  PROVE  Asked
BY DEF Asked, OutcomeInv, TypeOK

(* The scope decides what the next sample reads.                           *)
LEMMA NextReads ==
  LET r == IF scope = Document THEN "whole" ELSE "pane"
  IN  /\ r \in {"arm", "pane", "whole", "reacquire"} /\ r # "arm"
      /\ r \in {"pane", "reacquire"} => scope # Document
OBVIOUS

LEMMA StartAsks == ASSUME OutcomeInv, Start PROVE Asked
<1>1. lastSnapshot = after /\ after = NoSample /\ pc # "done" /\ pc # "wait" /\ pc # "arm"
  BY DEF OutcomeInv, Evidenced, Start
<1>2. UNCHANGED <<still, scope, after, window, lastFull, revealed>>
  BY DEF Start
<1>3. /\ frames' = frames /\ wakeAt' = wakeAt /\ lastSnapshot' = after
      /\ eventDriven' \in BOOLEAN /\ eventDriven' = eventDriven
  BY <1>1 DEF Start, OutcomeInv, TypeOK
<1>4. CASE eventDriven
  BY <1>1, <1>2, <1>3, <1>4, NextSampleDecides, NextReads, SamplingAsks DEF Start
<1>5. CASE ~eventDriven
  <2>1. Requested("arm", after) /\ pc = "start"
    BY <1>1, <1>5, RequestDecides DEF Start
  <2> QED
    BY <1>1, <1>2, <1>3, <2>1, SamplingAsks
<1> QED
  BY <1>4, <1>5

LEMMA ArmReplyAsks == ASSUME OutcomeInv, ArmReply PROVE Asked
<1>1. lastSnapshot = after /\ after = NoSample /\ pc # "done" /\ pc # "wait" /\ pc = "arm"
  BY DEF OutcomeInv, Evidenced, ArmReply
<1>2. UNCHANGED <<still, scope, after, window, lastFull, revealed>>
  BY DEF ArmReply
<1>3. /\ frames' = frames /\ wakeAt' = wakeAt /\ lastSnapshot' = after
      /\ eventDriven' \in BOOLEAN
  BY <1>1 DEF ArmReply, Streams
<1> QED
  BY <1>1, <1>2, <1>3, NextSampleDecides, NextReads, SamplingAsks DEF ArmReply

LEMMA PaneRefusedAsks == ASSUME OutcomeInv, PaneRefused PROVE Asked
<1>1. /\ lastSnapshot = after /\ pc # "done" /\ pc # "wait" /\ pc # "arm"
      /\ scope # Document
  BY DEF OutcomeInv, Evidenced, Scoped, PaneRefused
<1>2. UNCHANGED <<still, scope, after, window, lastFull, revealed>>
  BY DEF PaneRefused
<1>3. /\ frames' = frames /\ wakeAt' = wakeAt /\ lastSnapshot' = after
      /\ eventDriven' \in BOOLEAN /\ eventDriven' = eventDriven
  BY <1>1 DEF PaneRefused, OutcomeInv, TypeOK
<1>4. Requested("reacquire", after)
  BY <1>1, RequestDecides DEF PaneRefused
<1> QED
  BY <1>1, <1>2, <1>3, <1>4, SamplingAsks

LEMMA RefusedAsks == ASSUME OutcomeInv, Refused PROVE Asked
<1>1. UNCHANGED <<still, scope, after, window, lastFull, revealed>>
  BY DEF Refused
<1>2. frames' = frames /\ wakeAt' = wakeAt /\ eventDriven \in BOOLEAN /\ pc # "done" /\ pc # "wait"
  BY DEF Refused, InFlight, Requests, OutcomeInv, TypeOK
<1>3. CASE pc = "arm" /\ eventDriven' = FALSE /\ NextSample(NoSample) /\ UNCHANGED lastSnapshot
  <2>1. lastSnapshot' = after /\ after = NoSample
    BY <1>3 DEF OutcomeInv, Evidenced
  <2> QED
    BY <1>1, <1>2, <1>3, <2>1, NextSampleDecides, NextReads, SamplingAsks
<1>4. CASE pc = "scroll" /\ lastSnapshot' = after /\ NextSample(after) /\ UNCHANGED eventDriven
  BY <1>1, <1>2, <1>4, NextSampleDecides, NextReads, SamplingAsks
<1>5. CASE Return("failed") /\ UNCHANGED <<eventDriven, lastSnapshot>>
  BY <1>1, <1>2, <1>5, FailingAsks DEF Return
<1> QED
  BY <1>3, <1>4, <1>5 DEF Refused

LEMMA DisconnectedAsks == ASSUME OutcomeInv, Disconnected PROVE Asked
<1>1. pc # "done"
  BY DEF Disconnected, InFlight, Requests
<1> QED
  BY <1>1, FailingAsks DEF Disconnected, Return

LEMMA WakeAsks == ASSUME OutcomeInv, Wake PROVE Asked
<1>1. UNCHANGED <<still, scope, after, window, lastFull, revealed>>
  BY DEF Wake
<1>2. /\ frames' = frames \/ (frames > 0 /\ frames' = frames - 1)
      /\ wakeAt' = 0 /\ lastSnapshot' = after
      /\ eventDriven' \in BOOLEAN /\ eventDriven' = eventDriven
      /\ pc = "wait" /\ (eventDriven \/ now >= wakeAt)
  BY DEF Wake, OutcomeInv, TypeOK
<1> QED
  BY <1>1, <1>2, NextSampleDecides, NextReads, SamplingAsks DEF Wake
-----------------------------------------------------------------------------
(* Asking keeps the invariant: nothing was read, and what is concluded on  *)
(* is the last sample.                                                     *)
LEMMA AskedKeeps == ASSUME OutcomeInv, Asked PROVE OutcomeInv'
<1> USE TimesAreNaturals
<1>1. /\ check' = check /\ paint' = paint /\ now' = now /\ page' = page /\ active' = active
      /\ since' = since /\ firstShown' = firstShown
      /\ changes' = changes /\ before' = before /\ late' = late /\ scope' = scope
      /\ after' = after /\ window' = window /\ lastFull' = lastFull /\ revealed' = revealed
  BY DEF Asked, still, world, staged
<1>2. /\ frames \in Nat /\ frames' \in Nat /\ frames' <= frames
      /\ wakeAt' \in 0..(Deadline + Poll) /\ frames' \in 0..(MaxChanges + 1)
  BY DEF Asked, OutcomeInv, TypeOK
<1>3. /\ pc' \in Requests \cup {"done"} /\ pc' # "wait" /\ pc' # "scroll" /\ pc' # "probe"
      /\ outcome' \in Outcomes /\ (outcome' = "none" <=> pc' # "done")
      /\ pc' # "done" => Budget /\ lastSnapshot' = after
  BY TimedOutSays DEF Asked, OutcomeInv, TypeOK, Requests, Outcomes
<1>4. TypeOK'
  <2>1. lastSnapshot' \in Snapshot \cup {NoSample} /\ eventDriven' \in BOOLEAN
    BY DEF Asked, OutcomeInv, TypeOK
  <2>2. pc' \in Requests \cup {"start", "wait", "done"}
    BY <1>3
  <2>3. TypeOK
    BY DEF OutcomeInv
  <2>4. (window # NoWindow => Passes(window.of) /\ window.since <= now)'
    BY <1>1, <2>3 DEF TypeOK, Passes
  <2> QED
    BY <1>1, <1>2, <1>3, <2>1, <2>2, <2>3, <2>4 DEF TypeOK, Snapshot
<1>5. Waiting'
  BY <1>1, <1>3 DEF OutcomeInv, Waiting, EndsInTime
<1>6. Framed'
  BY <1>1, <1>2, <1>3 DEF OutcomeInv, Framed, TypeOK
<1>7. Evidenced'
  <2>1. EvidenceKept'
    BY <1>1, TimedOutSays DEF Asked, OutcomeInv, Evidenced, EvidenceKept, TypeOK
  <2>2. (pc \in {"start", "arm"} => after = NoSample)'
    BY <1>1 DEF Asked, OutcomeInv, Evidenced
  <2>3. (pc \in {"start", "arm", "pane", "whole", "reacquire"} => lastSnapshot = after)'
    BY <1>1, <1>3
  <2> QED
    BY <2>1, <2>2, <2>3 DEF Evidenced
<1>8. Scoped'
  BY <1>1 DEF Asked, Scoped
<1>9. Aged'
  BY <1>1 DEF OutcomeInv, Aged, Dated, Passes, Snapshot, Regions
<1>10. Prompt'
  BY <1>1, <1>3 DEF Prompt, InFlight, Requests, Budget
<1>11. Probed'
  BY <1>1 DEF OutcomeInv, Probed, Passes, Asked
<1>12. Blind'
  BY <1>3 DEF Blind
<1>13. PassIsStable'
  BY <1>1, TimedOutSays DEF Asked, OutcomeInv, TypeOK, PassIsStable
<1>14. SeenWhenPolling'
  <2> SUFFICES ASSUME outcome' = "absent", ~eventDriven', late = 0, RestedEarly, Passes(page),
                      check.stable > 0 => page[active] # "below"
               PROVE  FALSE
    BY <1>1 DEF SeenWhenPolling, RestedPageIsSeen, RestedEarly, Passes
  <2>1. TimedOut(after) = "absent" /\ ~Budget /\ ~Passes(after)
        /\ (pc = "wait" => eventDriven \/ now >= wakeAt)
    BY TimedOutSays DEF Asked, OutcomeInv, TypeOK
  <2>2. pc \notin {"start", "arm"}
    BY <2>1, TimedOutSays DEF OutcomeInv, Evidenced
  <2>3. pc = "wait"
    BY <2>1, <2>2 DEF Asked, OutcomeInv, TypeOK, Prompt, InFlight, Requests
  <2>4. ~eventDriven /\ now = wakeAt
    BY <2>1, <2>3 DEF Asked, OutcomeInv, TypeOK, Waiting
  <2>5. \A r \in Regions : since[r] \in Nat /\ since[r] + ProbeInterval + Poll < wakeAt
    <3>1. now \in Nat /\ now + MinBudget > Deadline
      BY <2>1 DEF Budget, OutcomeInv, TypeOK
    <3>2. \A r \in Regions : since[r] \in Nat
      BY DEF OutcomeInv, TypeOK
    <3>3. \A r \in Regions : since[r] + ProbeInterval + Poll + MinBudget <= Deadline
      BY DEF RestedEarly
    <3> QED
      BY <2>4, <3>1, <3>2, <3>3
  <2>6. \A r \in Regions : since[r] + Poll < wakeAt
    BY <2>4, <2>5 DEF OutcomeInv, TypeOK
  <2>7. /\ lastFull # 0 /\ wakeAt < (lastFull - 1) + ProbeInterval + Poll
        /\ scope # Document /\ after[scope] = page[scope]
    BY <2>1, <2>3, <2>4, <2>6 DEF OutcomeInv, Blind
  <2>8. \A r \in Regions : since[r] < lastFull - 1
    BY <2>4, <2>5, <2>7 DEF OutcomeInv, TypeOK
  <2>9. check.stable # 0 /\ scope = active /\ page[active] \in Subject
    BY <2>3, <2>7, <2>8 DEF OutcomeInv, Probed
  <2>10. page[active] \in Painted /\ after[active] \in Painted /\ active \in Regions
    <3>1. check.stable > 0
      BY <2>9, TimesAssumption DEF OutcomeInv, TypeOK
    <3> QED
      BY <2>7, <2>9, <3>1 DEF Subject, OutcomeInv, TypeOK, Regions
  <2> QED
    BY <2>1, <2>10 DEF Passes
<1> QED
  BY <1>4, <1>5, <1>6, <1>7, <1>8, <1>9, <1>10, <1>11, <1>12, <1>13, <1>14 DEF OutcomeInv
-----------------------------------------------------------------------------
(* A sample as the loop reads it: a snapshot of what was shown by now.     *)
Fresh(s) == s \in Snapshot /\ \A r \in Regions : firstShown[r][s[r]] <= now

LEMMA PageIsFresh == ASSUME OutcomeInv PROVE Fresh(page)
BY DEF OutcomeInv, TypeOK, Aged, Dated, Fresh

LEMMA MergeIsFresh ==
  ASSUME OutcomeInv, scope \in Regions
  PROVE  Fresh(Merge(scope)) /\ Merge(scope)[scope] = page[scope]
<1>1. page \in Snapshot /\ before \in Snapshot
  BY DEF OutcomeInv, TypeOK
<1>2. /\ Merge(scope) = [r \in Regions |-> IF r = scope THEN page[scope] ELSE before[r]]
      /\ \A r \in Regions : firstShown[r][page[r]] <= now /\ firstShown[r][before[r]] <= now
  BY <1>1 DEF Merge, Snapshot, OutcomeInv, Aged, Dated
<1> QED
  BY <1>1, <1>2 DEF Fresh, Snapshot

(* The window after a sample is over a passing snapshot no part of which   *)
(* is newer; a sample held for a while was the window's already.           *)
OpenWindow(w) ==
  w # NoWindow =>
    /\ w.of \in Snapshot /\ Passes(w.of) /\ w.since \in Nat /\ w.since <= now
    /\ \A r \in Regions : firstShown[r][w.of[r]] <= w.since

LEMMA WindowIsOpen ==
  ASSUME OutcomeInv, NEW s, Fresh(s)
  PROVE  OpenWindow(window) /\ OpenWindow(WindowAfter(s))
<1>1. OpenWindow(window) /\ now \in Nat
  BY DEF OutcomeInv, Aged, OpenWindow, TypeOK
<1>2. CASE WindowAfter(s) = window \/ WindowAfter(s) = NoWindow
  BY <1>1, <1>2 DEF OpenWindow
<1>3. CASE WindowAfter(s) = [of |-> s, since |-> now] /\ Passes(s)
  BY <1>1, <1>3 DEF OpenWindow, Fresh
<1> QED
  BY <1>1, <1>2, <1>3 DEF WindowAfter

LEMMA SteadyIsOld ==
  ASSUME OutcomeInv, NEW s, Fresh(s), Steady(s)
  PROVE  \A r \in Regions : firstShown[r][s[r]] + check.stable <= now
<1>1. /\ now \in Nat /\ check.stable \in Nat
      /\ \A r \in Regions : firstShown[r][s[r]] \in Nat /\ firstShown[r][s[r]] <= now
  BY TimesAssumption, TimesAreNaturals DEF OutcomeInv, TypeOK, Fresh, Snapshot, Never
<1>2. CASE check.stable = 0
  BY <1>1, <1>2
<1>3. CASE check.stable > 0
  <2>1. Passes(s) /\ WindowAfter(s).of = s /\ now - WindowAfter(s).since >= check.stable
    BY <1>3 DEF Steady
  <2>2. CASE window # NoWindow /\ window.of = s
    <3>1. WindowAfter(s) = window
      BY <2>1, <2>2 DEF WindowAfter
    <3>2. window.since \in Nat /\ \A r \in Regions : firstShown[r][s[r]] <= window.since
      BY <1>1, <2>2 DEF OutcomeInv, Aged
    <3> QED
      BY <1>1, <2>1, <3>1, <3>2
  <2>3. CASE ~(window # NoWindow /\ window.of = s)
    <3>1. WindowAfter(s) = [of |-> s, since |-> now]
      BY <1>1, <1>3, <2>1, <2>3 DEF WindowAfter
    <3> QED
      BY <1>1, <1>3, <2>1, <3>1
  <2> QED
    BY <2>2, <2>3
<1> QED
  BY <1>1, <1>2, <1>3

(* A wait ends by the deadline; a polling loop waits for one poll.         *)
LEMMA WaitIsBounded ==
  ASSUME OutcomeInv, NEW s, Fresh(s), Budget, ~InTime(s)
  PROVE  /\ WaitEnd(s) \in Nat /\ now <= WaitEnd(s) /\ WaitEnd(s) <= Deadline
         /\ ~eventDriven => WaitEnd(s) = now + Poll
<1> USE TimesAreNaturals
<1>1. now \in Nat /\ now <= Deadline /\ now + MinBudget <= Deadline /\ check.stable \in Nat
  BY TimesAssumption DEF OutcomeInv, TypeOK, Waiting, EndsInTime, Budget
<1>2. CASE ~eventDriven
  BY <1>1, <1>2 DEF WaitEnd
<1>3. CASE eventDriven /\ ~Passes(s)
  BY <1>1, <1>3 DEF WaitEnd
<1>4. CASE eventDriven /\ Passes(s)
  <2>1. check.stable > 0
        /\ (WindowAfter(s).of = s => ~(now - WindowAfter(s).since >= check.stable))
    BY <1>1, <1>4 DEF InTime, Steady
  <2>2. \/ WindowAfter(s) = window /\ window # NoWindow /\ window.of = s
        \/ WindowAfter(s) = [of |-> s, since |-> now]
    BY <1>1, <1>4, <2>1 DEF WindowAfter
  <2>3. WindowAfter(s).since \in Nat /\ WindowAfter(s).of = s
    BY <1>1, <2>2 DEF OutcomeInv, Aged
  <2>4. now <= WindowAfter(s).since + check.stable /\ WindowAfter(s).since + check.stable \in Nat
    BY <1>1, <2>1, <2>3
  <2>5. WaitEnd(s) = Min({Deadline, WindowAfter(s).since + check.stable})
    BY <1>4 DEF WaitEnd
  <2> HIDE DEF Min
  <2> QED
    BY <1>1, <1>4, <2>4, <2>5, LesserOfTwo
<1> QED
  BY <1>2, <1>3, <1>4
(* What every sample keeps, whatever was read and wherever the loop reads  *)
(* next.                                                                   *)
LEMMA SampledKeeps ==
  ASSUME OutcomeInv, NEW s, Fresh(s), Sampled(s), InFlight,
         scope' \in Marked \cup {Document}, lastFull' \in {lastFull, now + 1}
  PROVE  TypeOK' /\ Waiting' /\ Framed' /\ Evidenced' /\ Scoped' /\ Aged' /\ Prompt'
         /\ SeenWhenPolling'
<1> USE TimesAreNaturals
<1>1. /\ check' = check /\ paint' = paint /\ now' = now /\ page' = page /\ active' = active
      /\ since' = since /\ firstShown' = firstShown
      /\ changes' = changes /\ before' = before /\ late' = late /\ after' = s
      /\ lastSnapshot' = lastSnapshot /\ eventDriven' = eventDriven /\ frames' = frames
  BY DEF Sampled, still, world, staged
<1>2. Judged(s) /\ now \in Nat /\ now <= Deadline /\ pc # "done" /\ outcome = "none"
  BY DEF Sampled, OutcomeInv, TypeOK, Waiting, EndsInTime, InFlight, Requests
<1>3. /\ pc' \in {"probe", "scroll", "wait", "done"}
      /\ outcome' \in Outcomes /\ (outcome' = "none" <=> pc' # "done")
      /\ outcome' = "timeout" => s = NoSample
      /\ outcome' = "absent" => ~Budget
      /\ pc' # "done" => Budget
      /\ revealed' \in BOOLEAN /\ (revealed => revealed')
      /\ pc' = "scroll" => ~revealed /\ revealed'
  <2>1. /\ revealed \in BOOLEAN /\ TimedOut(s) \in {"timeout", "unstable", "absent"}
        /\ (TimedOut(s) = "timeout" => s = NoSample)
    BY TimedOutSays DEF OutcomeInv, TypeOK
  <2>2. /\ pc' \in {"probe", "scroll", "wait", "done"}
        /\ outcome' \in {"none", "pass", "timeout", "unstable", "absent"}
        /\ (outcome' = "none" <=> pc' # "done")
        /\ outcome' = "timeout" => s = NoSample
        /\ outcome' = "absent" => ~Budget
    BY <1>2, <2>1 DEF Judged
  <2>3. pc' # "done" => Budget
    BY <1>2 DEF Judged
  <2>4. pc' = "scroll" => ~revealed /\ revealed' = TRUE
    BY <1>2 DEF Judged
  <2>5. revealed' = revealed \/ revealed' = TRUE
    BY <1>2 DEF Judged
  <2> QED
    BY <2>1, <2>2, <2>3, <2>4, <2>5 DEF Outcomes
<1>4. OpenWindow(window')
  BY <1>2, WindowIsOpen DEF Judged
<1>5. /\ wakeAt' \in 0..(Deadline + Poll)
      /\ pc' = "wait" => /\ now <= wakeAt' /\ wakeAt' <= Deadline
                         /\ ~eventDriven => wakeAt' = now + Poll
  <2>1. CASE wakeAt' = wakeAt /\ pc' # "wait"
    BY <2>1 DEF OutcomeInv, TypeOK
  <2>2. CASE Budget /\ ~InTime(s) /\ wakeAt' = WaitEnd(s)
    <3>1. /\ WaitEnd(s) \in Nat /\ now <= WaitEnd(s) /\ WaitEnd(s) <= Deadline
          /\ ~eventDriven => WaitEnd(s) = now + Poll
      BY <2>2, WaitIsBounded
    <3> QED
      BY <2>2, <3>1
  <2> QED
    BY <1>2, <2>1, <2>2 DEF Judged
<1>6. TypeOK'
  <2>1. TypeOK
    BY DEF OutcomeInv
  <2>2. (window # NoWindow => Passes(window.of) /\ window.since <= now)'
    BY <1>1, <1>4 DEF OpenWindow, Passes
  <2>3. lastFull' \in 0..(Deadline + 1)
    BY <1>2, <2>1 DEF TypeOK
  <2>4. s \in Snapshot /\ eventDriven' \in BOOLEAN
    BY <1>1, <2>1 DEF Fresh, TypeOK
  <2>5. pc' \in Requests \cup {"start", "wait", "done"}
    BY <1>3 DEF Requests
  <2> QED
    BY <1>1, <1>3, <1>5, <2>1, <2>2, <2>3, <2>4, <2>5 DEF TypeOK, Snapshot
<1>7. Waiting'
  BY <1>1, <1>2, <1>5 DEF Waiting, EndsInTime
<1>8. Framed'
  BY <1>1, <1>3 DEF OutcomeInv, Framed, TypeOK
<1>9. Evidenced'
  BY <1>1, <1>3 DEF Evidenced, EvidenceKept
<1>10. Scoped'
  BY <1>3 DEF Scoped
<1>11. Aged'
  <2>1. Dated'
    BY <1>1 DEF OutcomeInv, Aged, Dated, Regions, Contents, Never
  <2>2. (window # NoWindow =>
          /\ window.of \in Snapshot /\ Passes(window.of)
          /\ window.since \in Nat /\ window.since <= now
          /\ \A r \in Regions : firstShown[r][window.of[r]] <= window.since)'
    BY <1>1, <1>4 DEF OpenWindow, Passes, Snapshot, Regions
  <2> QED
    BY <2>1, <2>2 DEF Aged
<1>12. Prompt'
  BY <1>1, <1>3 DEF Prompt, InFlight, Requests, Budget
<1>13. SeenWhenPolling'
  <2>1. outcome' = "absent" => late # 0
    BY <1>3 DEF OutcomeInv, Prompt
  <2> QED
    BY <1>1, <2>1 DEF SeenWhenPolling, RestedPageIsSeen
<1> QED
  BY <1>6, <1>7, <1>8, <1>9, <1>10, <1>11, <1>12, <1>13

(* A pass over a sample of what is polled keeps still.                     *)
LEMMA SteadyPass ==
  ASSUME OutcomeInv, NEW s, Fresh(s), Sampled(s), InFlight,
         \A r \in Polled' : r \in Regions /\ s[r] = page[r]
  PROVE  PassIsStable'
<1>1. check' = check /\ now' = now /\ page' = page /\ firstShown' = firstShown
      /\ pc # "done" /\ outcome = "none"
  BY DEF Sampled, still, world, staged, InFlight, Requests, OutcomeInv, TypeOK
<1>2. outcome' = "pass" => Steady(s)
  BY <1>1, TimedOutSays DEF Sampled, Judged
<1> QED
  BY <1>1, <1>2, SteadyIsOld DEF PassIsStable

LEMMA PolledIsRegion ==
  ASSUME scope' \in Marked \cup {Document}
  PROVE  \A r \in Polled' : r \in Regions
BY RegionsAssumption DEF Polled, Regions
LEMMA PaneKeeps == ASSUME OutcomeInv, PaneReply PROVE OutcomeInv'
<1> USE TimesAreNaturals
<1> DEFINE s == Merge(scope)
<1>1. scope # Document /\ scope \in Marked \cup {Document} /\ pc = "pane" /\ InFlight
  BY DEF PaneReply, OutcomeInv, Scoped, TypeOK, InFlight, Requests
<1>2. scope \in Regions /\ Fresh(s) /\ s[scope] = page[scope]
  BY <1>1, RegionsAssumption, MergeIsFresh DEF Regions
<1>3. /\ Sampled(s) /\ scope' = scope /\ lastFull' = lastFull
      /\ (pc' = "wait" /\ ~Passes(s) /\ scope # Document => ~ProbeDue)
  BY PaneSamples
<1>4. scope' \in Marked \cup {Document} /\ lastFull' \in {lastFull, now + 1}
  BY <1>1, <1>3
<1>5. TypeOK' /\ Waiting' /\ Framed' /\ Evidenced' /\ Scoped' /\ Aged' /\ Prompt'
      /\ SeenWhenPolling'
  BY <1>1, <1>2, <1>3, <1>4, SampledKeeps
<1>6. /\ check' = check /\ now' = now /\ page' = page /\ active' = active
      /\ since' = since /\ firstShown' = firstShown /\ after' = s
      /\ eventDriven' = eventDriven
  BY <1>3 DEF Sampled, still, world, staged
<1>7. Probed'
  BY <1>1, <1>3, <1>6 DEF OutcomeInv, Probed, Passes
<1>8. Blind'
  <2> SUFFICES ASSUME pc' = "wait", ~eventDriven, ~Passes(after)', Passes(page)',
                      \A r \in Regions : since[r] + Poll < wakeAt'
               PROVE  /\ lastFull # 0 /\ wakeAt' < (lastFull - 1) + ProbeInterval + Poll
                      /\ scope # Document /\ s[scope] = page[scope]
    BY <1>3, <1>6 DEF Blind
  <2>1. ~Passes(s)
    BY <1>6 DEF Passes
  <2>2. ~ProbeDue
    BY <1>1, <1>3, <2>1
  <2>3. wakeAt' = now + Poll
    <3>1. Budget /\ ~InTime(s) /\ wakeAt' = WaitEnd(s)
      BY <1>3 DEF Sampled, Judged
    <3> QED
      BY <1>2, <3>1, WaitIsBounded
  <2>4. now \in Nat /\ lastFull \in Nat
    BY DEF OutcomeInv, TypeOK
  <2> QED
    BY <1>1, <1>2, <2>2, <2>3, <2>4 DEF ProbeDue
<1>9. PassIsStable'
  <2>1. \A r \in Polled' : r \in Regions /\ s[r] = page[r]
    BY <1>1, <1>2, <1>3 DEF Polled
  <2> QED
    BY <1>1, <1>2, <1>3, <2>1, SteadyPass
<1> QED
  BY <1>5, <1>7, <1>8, <1>9 DEF OutcomeInv

(* A sample that is the page itself: it passes when the page does.         *)
LEMMA PageSampleKeeps ==
  ASSUME OutcomeInv, Sampled(page), InFlight,
         scope' \in Marked \cup {Document}, lastFull' \in {lastFull, now + 1}, Probed'
  PROVE  OutcomeInv'
<1>1. Fresh(page)
  BY PageIsFresh
<1>2. TypeOK' /\ Waiting' /\ Framed' /\ Evidenced' /\ Scoped' /\ Aged' /\ Prompt'
      /\ SeenWhenPolling'
  BY <1>1, SampledKeeps
<1>3. Blind'
  BY DEF Blind, Sampled, still, world, staged, Passes
<1>4. PassIsStable'
  BY <1>1, PolledIsRegion, SteadyPass
<1> QED
  BY <1>2, <1>3, <1>4 DEF OutcomeInv

LEMMA WholeKeeps == ASSUME OutcomeInv, WholeReply PROVE OutcomeInv'
<1>1. Sampled(page) /\ lastFull' = lastFull
      /\ scope' = IF pc = "whole" THEN Document ELSE PollScope
  BY WholeSamples
<1>2. InFlight /\ pc # "done" /\ (pc = "whole" \/ (pc = "reacquire" /\ scope # Document))
  BY DEF WholeReply, InFlight, Requests, OutcomeInv, Scoped
<1>3. scope' \in Marked \cup {Document}
  BY <1>1, PollScopeIsAScope
<1>4. Probed'
  <2>1. check' = check /\ now' = now /\ page' = page /\ active' = active
      /\ since' = since /\ firstShown' = firstShown
    BY <1>1 DEF Sampled, still, world, staged
  <2>2. scope' = Document \/ (scope' = active /\ scope # Document)
    BY <1>1, <1>2 DEF PollScope
  <2> QED
    BY <1>1, <1>2, <2>1, <2>2 DEF OutcomeInv, Probed, Passes
<1> QED
  BY <1>1, <1>2, <1>3, <1>4, PageSampleKeeps

LEMMA ProbeKeeps == ASSUME OutcomeInv, ProbeReply PROVE OutcomeInv'
<1>1. Sampled(page) /\ lastFull' = now + 1 /\ pc' # "probe"
      /\ scope' = IF Passes(page) THEN PassingScope(page) ELSE PollScope
  BY ProbeSamples
<1>2. InFlight /\ check' = check /\ now' = now /\ page' = page /\ active' = active
      /\ since' = since /\ firstShown' = firstShown
  BY <1>1 DEF ProbeReply, InFlight, Requests, Sampled, still, world, staged
<1>3. scope' \in Marked \cup {Document}
  BY <1>1, PollScopeIsAScope DEF PassingScope
<1>4. Probed'
  <2>1. lastFull' <= now' + 1
    BY <1>1, <1>2 DEF OutcomeInv, TypeOK
  <2>2. ASSUME Passes(page)
        PROVE  /\ check.stable = 0 => pc' = "done"
               /\ scope' = Document \/ (scope' = active /\ page[active] \in Subject)
    <3>1. check.stable = 0 => InTime(page)
      BY <2>2 DEF InTime, Steady, OutcomeInv, Waiting, EndsInTime
    <3>2. check.stable = 0 => pc' = "done"
      BY <1>1, <2>2, <3>1 DEF Sampled, Judged
    <3> QED
      BY <1>1, <2>2, <3>2 DEF PassingScope
  <2> QED
    BY <1>2, <2>1, <2>2 DEF Probed, Passes
<1> QED
  BY <1>1, <1>2, <1>3, <1>4, PageSampleKeeps
-----------------------------------------------------------------------------
(* A change of the page leaves something as young as the clock behind, so  *)
(* neither a probe nor a wait of a polling loop is older than the page.    *)
Moved ==
  /\ page' \in Snapshot /\ page'[active'] # "gone" /\ active' \in Panes
  /\ since' \in [Regions -> 0..Deadline]
  /\ firstShown' \in [Regions -> [Contents -> 0..Never]]
  /\ \A r \in Regions : since'[r] <= now /\ firstShown'[r][page'[r]] <= now
  /\ \E r \in Regions : since'[r] = now
  /\ \A r \in Regions, c \in Contents :
       /\ firstShown[r][c] <= now => firstShown'[r][c] = firstShown[r][c]
       /\ firstShown'[r][c] <= now \/ firstShown'[r][c] = Never
  /\ UNCHANGED <<check, paint, now, before, late>>

LEMMA ShowMoves ==
  ASSUME OutcomeInv, NEW new \in Snapshot, NEW touched \in SUBSET Regions,
         touched # {}, \A r \in Regions \ touched : new[r] = page[r],
         new[active'] # "gone", active' \in Panes,
         Show(new, touched), UNCHANGED <<check, paint, now, before, late>>
  PROVE  Moved
<1> USE TimesAreNaturals
<1>1. /\ now \in Nat /\ now <= Deadline /\ page \in Snapshot
      /\ since \in [Regions -> 0..Deadline]
      /\ firstShown \in [Regions -> [Contents -> 0..Never]]
      /\ \A r \in Regions : since[r] <= now /\ firstShown[r][page[r]] <= now
      /\ \A r \in Regions, c \in Contents : firstShown[r][c] <= now \/ firstShown[r][c] = Never
  BY DEF OutcomeInv, TypeOK, Waiting, EndsInTime, Aged, Dated
<1>2. /\ page' = new
      /\ since' = [r \in Regions |-> IF r \in touched THEN now ELSE since[r]]
  BY DEF Show
<1>3. since' \in [Regions -> 0..Deadline] /\ \A r \in Regions : since'[r] <= now
  BY <1>1, <1>2
<1>4. \E r \in Regions : since'[r] = now
  BY <1>2
<1>5. \A r \in Regions, c \in Contents :
        /\ firstShown[r][c] \in 0..Never
        /\ firstShown'[r][c] = IF r \in touched /\ c = new[r] /\ firstShown[r][c] = Never
                               THEN now ELSE firstShown[r][c]
  BY <1>1 DEF Show
<1>6. firstShown' \in [Regions -> [Contents -> 0..Never]]
  <2>1. now \in 0..Never
    BY <1>1 DEF Never
  <2>2. firstShown' = [r \in Regions |-> [c \in Contents |-> firstShown'[r][c]]]
    BY DEF Show
  <2>3. \A r \in Regions, c \in Contents : firstShown'[r][c] \in 0..Never
    BY <1>5, <2>1
  <2> QED
    BY <2>2, <2>3
<1>7. \A r \in Regions, c \in Contents :
        /\ firstShown[r][c] <= now => firstShown'[r][c] = firstShown[r][c]
        /\ firstShown'[r][c] <= now \/ firstShown'[r][c] = Never
  BY <1>1, <1>5 DEF Never
<1>8. ASSUME NEW r \in Regions
      PROVE  firstShown'[r][page'[r]] <= now
  <2>1. new[r] \in Contents /\ page'[r] = new[r]
    BY <1>2 DEF Snapshot
  <2>2. CASE r \in touched /\ firstShown[r][new[r]] = Never
    BY <1>1, <1>5, <2>1, <2>2
  <2>3. CASE r \in touched /\ firstShown[r][new[r]] # Never
    BY <1>1, <1>5, <2>1, <2>3
  <2>4. CASE r \notin touched
    BY <1>1, <1>5, <2>1, <2>4
  <2> QED
    BY <2>2, <2>3, <2>4
<1> QED
  BY <1>2, <1>3, <1>4, <1>6, <1>7, <1>8 DEF Moved

LEMMA MovedAges ==
  ASSUME OutcomeInv, Moved, window # NoWindow
  PROVE  \A r \in Regions : firstShown'[r][window.of[r]] <= window.since
<1>1. /\ window.of \in Snapshot /\ window.since \in Nat /\ window.since <= now /\ now \in Nat
      /\ firstShown \in [Regions -> [Contents -> 0..Never]]
      /\ \A r \in Regions : firstShown[r][window.of[r]] <= window.since
  BY DEF OutcomeInv, Aged, TypeOK
<1> SUFFICES ASSUME NEW r \in Regions
             PROVE  firstShown'[r][window.of[r]] <= window.since
  OBVIOUS
<1>2. window.of[r] \in Contents
  BY <1>1 DEF Snapshot
<1>3. firstShown[r][window.of[r]] \in Nat
  BY <1>1, <1>2, TimesAreNaturals DEF Never
<1>4. firstShown'[r][window.of[r]] = firstShown[r][window.of[r]]
  BY <1>1, <1>2, <1>3 DEF Moved
<1> QED
  BY <1>1, <1>4

LEMMA ChangeMoves == ASSUME OutcomeInv, NEW r \in Regions, Change(r) PROVE Moved
<1>1. PICK contents \in Mounted : Show([page EXCEPT ![r] = contents], {r})
  BY DEF Change
<1> DEFINE new == [page EXCEPT ![r] = contents]
<1>2. page \in Snapshot /\ active \in Panes /\ page[active] # "gone" /\ contents \in Contents
      /\ contents # "gone" /\ active' = active /\ active \in Regions
  BY DEF OutcomeInv, TypeOK, Contents, Mounted, Subject, Painted, Change, Regions
<1>3. new \in Snapshot /\ \A q \in Regions : new[q] = IF q = r THEN contents ELSE page[q]
  BY <1>2 DEF Snapshot
<1>4. new[active'] # "gone" /\ active' \in Panes
  BY <1>2, <1>3
<1>5. UNCHANGED <<check, paint, now, before, late>>
  BY DEF Change
<1> HIDE DEF new
<1>6. Show(new, {r})
  BY <1>1 DEF new
<1> QED
  BY <1>3, <1>4, <1>5, <1>6, ShowMoves

LEMMA NavigateMoves == ASSUME OutcomeInv, NEW pane \in Panes, Navigate(pane) PROVE Moved
<1>1. PICK contents \in Mounted, old \in {page[active], "gone"} :
        Show([page EXCEPT ![pane] = contents, ![active] = old],
             IF old = "gone" THEN {pane, active} ELSE {pane})
  BY DEF Navigate
<1> DEFINE new == [page EXCEPT ![pane] = contents, ![active] = old]
           touched == IF old = "gone" THEN {pane, active} ELSE {pane}
<1>2. /\ page \in Snapshot /\ active \in Regions /\ pane \in Regions /\ pane # active
      /\ contents \in Contents /\ contents # "gone" /\ active' = pane
      /\ page[active] \in Contents /\ old \in Contents
  BY DEF OutcomeInv, TypeOK, Contents, Mounted, Subject, Painted, Navigate, Regions, Snapshot
<1>3. /\ new \in Snapshot
      /\ \A q \in Regions : new[q] = IF q = pane THEN contents
                                      ELSE IF q = active THEN old ELSE page[q]
  BY <1>2 DEF Snapshot
<1>4. new[active'] # "gone" /\ active' \in Panes
  BY <1>2, <1>3
<1>5. touched \in SUBSET Regions /\ touched # {}
      /\ \A q \in Regions \ touched : new[q] = page[q]
  BY <1>2, <1>3
<1>6. UNCHANGED <<check, paint, now, before, late>>
  BY DEF Navigate
<1>7. Show(new, touched)
  BY <1>1
<1> HIDE DEF new, touched
<1> QED
  BY <1>3, <1>4, <1>5, <1>6, <1>7, ShowMoves

(* The page moves while the loop does nothing.                             *)
LEMMA MovedKeeps ==
  ASSUME OutcomeInv, Moved, UNCHANGED Loop, FrameCommitted, pc # "done",
         changes < MaxChanges, changes' = changes + 1
  PROVE  OutcomeInv'
<1> USE TimesAreNaturals
<1>1. /\ scope' = scope /\ after' = after /\ window' = window /\ lastFull' = lastFull
      /\ revealed' = revealed /\ lastSnapshot' = lastSnapshot /\ eventDriven' = eventDriven
      /\ wakeAt' = wakeAt /\ outcome' = outcome /\ pc' = pc
      /\ check' = check /\ paint' = paint /\ now' = now /\ before' = before /\ late' = late
  BY DEF Loop, Moved
<1>2. /\ frames \in Nat /\ changes \in Nat /\ now \in Nat /\ outcome = "none"
      /\ changes' \in 0..MaxChanges /\ revealed \in BOOLEAN
  BY DEF OutcomeInv, TypeOK
<1>3. frames' \in Nat /\ frames' <= frames + 1
  BY <1>2 DEF FrameCommitted
<1>4. Framed'
  BY <1>1, <1>2, <1>3 DEF OutcomeInv, Framed
<1>5. frames' \in 0..(MaxChanges + 1)
  BY <1>1, <1>2, <1>3, <1>4 DEF Framed
<1>6. TypeOK'
  <2>1. TypeOK
    BY DEF OutcomeInv
  <2>2. (window # NoWindow => Passes(window.of) /\ window.since <= now)'
    BY <1>1, <2>1 DEF TypeOK, Passes
  <2> QED
    BY <1>1, <1>2, <1>5, <2>1, <2>2 DEF TypeOK, Snapshot, Moved
<1>7. Waiting'
  BY <1>1 DEF OutcomeInv, Waiting, EndsInTime
<1>8. Evidenced' /\ Scoped'
  BY <1>1 DEF OutcomeInv, Evidenced, EvidenceKept, Scoped
<1>9. Aged'
  <2>1. Dated'
    BY <1>1 DEF OutcomeInv, Aged, Dated, Regions, Moved, TypeOK, Snapshot
  <2>2. (window # NoWindow =>
          /\ window.of \in Snapshot /\ Passes(window.of)
          /\ window.since \in Nat /\ window.since <= now
          /\ \A r \in Regions : firstShown[r][window.of[r]] <= window.since)'
    BY <1>1, MovedAges DEF OutcomeInv, Aged, Passes
  <2> QED
    BY <2>1, <2>2 DEF Aged
<1>10. Prompt'
  BY <1>1 DEF OutcomeInv, Prompt, InFlight, Budget
<1>11. PICK r \in Regions : since'[r] = now
  BY DEF Moved
<1>12. Probed'
  <2>1. lastFull \in Nat /\ lastFull <= now + 1
    BY DEF OutcomeInv, Probed, TypeOK
  <2>2. lastFull # 0 => ~(now < lastFull - 1)
    BY <1>2, <2>1
  <2> QED
    BY <1>1, <1>11, <2>1, <2>2 DEF Probed, Regions
<1>13. Blind'
  <2>1. pc = "wait" /\ ~eventDriven => ~(now + Poll < wakeAt)
    BY <1>2 DEF OutcomeInv, Waiting, TypeOK
  <2> QED
    BY <1>1, <1>11, <2>1 DEF Blind, Regions
<1>14. PassIsStable' /\ SeenWhenPolling'
  BY <1>1, <1>2 DEF PassIsStable, SeenWhenPolling, RestedPageIsSeen
<1> QED
  BY <1>4, <1>6, <1>7, <1>8, <1>9, <1>10, <1>12, <1>13, <1>14 DEF OutcomeInv
(* The scroll moved the subject and the loop asked for the next sample.    *)
LEMMA ScrolledKeeps ==
  ASSUME OutcomeInv, pc = "scroll", Moved, FrameCommitted, lastSnapshot' = after,
         Requested(IF scope = Document THEN "whole" ELSE "pane", after),
         UNCHANGED <<active, changes, scope, after, window, lastFull, revealed,
                     eventDriven, wakeAt>>
  PROVE  OutcomeInv'
<1> USE TimesAreNaturals
<1>1. /\ scope' = scope /\ after' = after /\ window' = window /\ lastFull' = lastFull
      /\ revealed' = revealed /\ lastSnapshot' = after /\ eventDriven' = eventDriven
      /\ wakeAt' = wakeAt /\ active' = active /\ changes' = changes
      /\ check' = check /\ paint' = paint /\ now' = now /\ before' = before /\ late' = late
  BY DEF Moved
<1>2. /\ pc' \in {"whole", "pane", "done"} /\ outcome' \in Outcomes
      /\ (outcome' = "none" <=> pc' # "done")
      /\ pc' = "pane" => scope # Document
      /\ pc' # "done" => Budget
      /\ outcome' = "timeout" => after = NoSample
      /\ outcome' = "absent" => ~Budget
      /\ outcome' # "pass"
  BY TimedOutSays DEF Requested, Outcomes, OutcomeInv, TypeOK
<1>3. /\ frames \in Nat /\ changes \in 0..MaxChanges /\ now \in Nat
      /\ frames <= changes /\ revealed = TRUE
  BY DEF OutcomeInv, TypeOK, Framed
<1>4. frames' \in Nat /\ frames' <= frames + 1
  BY <1>3 DEF FrameCommitted
<1>5. Framed' /\ frames' \in 0..(MaxChanges + 1)
  BY <1>1, <1>2, <1>3, <1>4 DEF Framed
<1>6. TypeOK'
  <2>1. TypeOK
    BY DEF OutcomeInv
  <2>2. (window # NoWindow => Passes(window.of) /\ window.since <= now)'
    BY <1>1, <2>1 DEF TypeOK, Passes
  <2>3. lastSnapshot' \in Snapshot \cup {NoSample}
    BY <1>1, <2>1 DEF TypeOK
  <2>4. pc' \in Requests \cup {"start", "wait", "done"}
    BY <1>2 DEF Requests
  <2> QED
    BY <1>1, <1>2, <1>5, <2>1, <2>2, <2>3, <2>4 DEF TypeOK, Snapshot, Moved
<1>7. Waiting' /\ Scoped' /\ Blind'
  BY <1>1, <1>2 DEF OutcomeInv, Waiting, EndsInTime, Scoped, Blind
<1>8. Evidenced'
  BY <1>1, <1>2 DEF Evidenced, EvidenceKept
<1>9. Aged'
  <2>1. Dated'
    BY <1>1 DEF OutcomeInv, Aged, Dated, Regions, Moved, TypeOK, Snapshot
  <2>2. (window # NoWindow =>
          /\ window.of \in Snapshot /\ Passes(window.of)
          /\ window.since \in Nat /\ window.since <= now
          /\ \A r \in Regions : firstShown[r][window.of[r]] <= window.since)'
    BY <1>1, MovedAges DEF OutcomeInv, Aged, Passes
  <2> QED
    BY <2>1, <2>2 DEF Aged
<1>10. Prompt'
  BY <1>1, <1>2 DEF Prompt, InFlight, Requests, Budget
<1>11. Probed'
  <2>1. PICK r \in Regions : since'[r] = now
    BY DEF Moved
  <2>2. lastFull \in Nat /\ lastFull <= now + 1
    BY DEF OutcomeInv, Probed, TypeOK
  <2>3. lastFull # 0 => ~(now < lastFull - 1)
    BY <1>3, <2>2
  <2> QED
    BY <1>1, <2>1, <2>2, <2>3 DEF Probed, Regions
<1>12. PassIsStable' /\ SeenWhenPolling'
  <2>1. outcome' = "absent" => late # 0
    BY <1>2 DEF OutcomeInv, Prompt, InFlight, Requests
  <2> QED
    BY <1>1, <1>2, <2>1 DEF PassIsStable, SeenWhenPolling, RestedPageIsSeen
<1> QED
  BY <1>5, <1>6, <1>7, <1>8, <1>9, <1>10, <1>11, <1>12 DEF OutcomeInv

LEMMA ScrollKeeps == ASSUME OutcomeInv, ScrollReply PROVE OutcomeInv'
<1>1. /\ pc = "scroll" /\ lastSnapshot' = after
      /\ UNCHANGED <<check, paint, now, active, changes, before, late, scope, after,
                     window, lastFull, revealed, eventDriven, wakeAt>>
      /\ Requested(IF scope = Document THEN "whole" ELSE "pane", after)
  BY NextSampleDecides DEF ScrollReply
<1>2. CASE UNCHANGED <<staged, frames>>
  <2>1. frames' = frames /\ eventDriven' \in BOOLEAN
    BY <1>1, <1>2 DEF OutcomeInv, TypeOK
  <2>2. UNCHANGED <<still, scope, after, window, lastFull, revealed>>
    BY <1>1, <1>2 DEF still, world
  <2>3. Asked
    BY <1>1, <2>1, <2>2, NextReads, SamplingAsks
  <2> QED
    BY <2>3, AskedKeeps
<1>3. ASSUME NEW r \in Regions, NEW look \in Painted, page[r] = "below",
             Show([page EXCEPT ![r] = look], {r}), FrameCommitted
      PROVE  OutcomeInv'
  <2> DEFINE new == [page EXCEPT ![r] = look]
  <2>1. /\ page \in Snapshot /\ active \in Regions /\ page[active] # "gone"
        /\ look \in Contents /\ look # "gone" /\ active' = active /\ active \in Panes
    BY <1>1 DEF OutcomeInv, TypeOK, Contents, Mounted, Subject, Painted, Regions
  <2>2. new \in Snapshot /\ \A q \in Regions : new[q] = IF q = r THEN look ELSE page[q]
    BY <2>1 DEF Snapshot
  <2>3. new[active'] # "gone" /\ active' \in Panes
    BY <2>1, <2>2
  <2>4. Show(new, {r})
    BY <1>3
  <2> HIDE DEF new
  <2>5. Moved
    BY <1>1, <2>2, <2>3, <2>4, ShowMoves
  <2> QED
    BY <1>1, <1>3, <2>5, ScrolledKeeps
<1> QED
  BY <1>2, <1>3 DEF ScrollReply
-----------------------------------------------------------------------------
(* The clock.                                                              *)

LEMMA TimeoutKeeps == ASSUME OutcomeInv, ExchangeTimesOut PROVE OutcomeInv'
<1> USE TimesAreNaturals
<1> DEFINE last == IF pc \in {"probe", "scroll"} THEN after ELSE lastSnapshot
<1>1. /\ now' = Deadline /\ late' = late + (Deadline - now) /\ pc' = "done"
      /\ outcome' = TimedOut(last) /\ pc # "done" /\ pc # "start" /\ InFlight
      /\ check' = check /\ paint' = paint /\ page' = page /\ active' = active
      /\ since' = since /\ firstShown' = firstShown
      /\ changes' = changes /\ before' = before /\ scope' = scope /\ after' = after
      /\ window' = window /\ lastFull' = lastFull /\ revealed' = revealed
      /\ lastSnapshot' = lastSnapshot /\ frames' = frames /\ wakeAt' = wakeAt
  BY DEF ExchangeTimesOut, Return, ExchangeEnd, InFlight, Requests, world, staged
<1>2. now \in Nat /\ now <= Deadline /\ late \in Nat /\ last = after
  BY <1>1 DEF OutcomeInv, TypeOK, Waiting, EndsInTime, Evidenced, InFlight, Requests
<1>3. /\ outcome' \in {"timeout", "unstable", "absent"}
      /\ outcome' = "timeout" => after = NoSample
  BY <1>1, <1>2, TimedOutSays
<1>4. late' \in Nat /\ late' # 0
  <2>1. late = 0 => now + MinBudget <= Deadline
    BY <1>1 DEF OutcomeInv, Prompt, Budget
  <2> QED
    BY <1>1, <1>2, <2>1
<1>5. TypeOK'
  <2>1. TypeOK /\ eventDriven' \in BOOLEAN
    BY DEF OutcomeInv, ExchangeTimesOut
  <2>2. (window # NoWindow => Passes(window.of) /\ window.since <= now)'
    BY <1>1, <1>2 DEF OutcomeInv, Aged, Passes
  <2> QED
    BY <1>1, <1>3, <1>4, <2>1, <2>2 DEF TypeOK, Snapshot, Outcomes
<1>6. Waiting' /\ Framed' /\ Scoped' /\ Blind'
  BY <1>1 DEF OutcomeInv, Waiting, EndsInTime, Framed, Scoped, Blind
<1>7. Evidenced'
  BY <1>1, <1>3 DEF Evidenced, EvidenceKept
<1>8. Aged'
  <2>1. Dated'
    <3>1. /\ \A r \in Regions : /\ since[r] \in Nat /\ page[r] \in Contents
                                /\ before[r] \in Contents
          /\ \A r \in Regions, c \in Contents : firstShown[r][c] \in Nat
      BY TimesAreNaturals DEF OutcomeInv, TypeOK, Snapshot, Never
    <3> QED
      BY <1>1, <1>2, <3>1 DEF OutcomeInv, Aged, Dated, Regions, Contents, Never
  <2>2. (window # NoWindow =>
          /\ window.of \in Snapshot /\ Passes(window.of)
          /\ window.since \in Nat /\ window.since <= now
          /\ \A r \in Regions : firstShown[r][window.of[r]] <= window.since)'
    BY <1>1, <1>2 DEF OutcomeInv, Aged, Passes, Snapshot, Regions
  <2> QED
    BY <2>1, <2>2 DEF Aged
<1>9. Prompt'
  BY <1>1 DEF Prompt, InFlight, Requests
<1>10. Probed'
  <2>1. lastFull \in Nat /\ lastFull <= now + 1
    BY DEF OutcomeInv, Probed, TypeOK
  <2>2. lastFull' <= now' + 1
    BY <1>1, <1>2, <2>1
  <2> QED
    BY <1>1, <2>2 DEF OutcomeInv, Probed, Passes
<1>11. PassIsStable' /\ SeenWhenPolling'
  BY <1>3, <1>4 DEF PassIsStable, SeenWhenPolling, RestedPageIsSeen
<1> QED
  BY <1>5, <1>6, <1>7, <1>8, <1>9, <1>10, <1>11 DEF OutcomeInv

LEMMA TickKeeps == ASSUME OutcomeInv, Tick PROVE OutcomeInv'
<1> USE TimesAreNaturals
<1>1. /\ now' = now + 1 /\ late' = (IF InFlight THEN late + 1 ELSE late)
      /\ check' = check /\ paint' = paint /\ page' = page /\ active' = active
      /\ since' = since /\ firstShown' = firstShown
      /\ changes' = changes /\ before' = before /\ scope' = scope /\ after' = after
      /\ window' = window /\ lastFull' = lastFull /\ revealed' = revealed
      /\ lastSnapshot' = lastSnapshot /\ frames' = frames /\ wakeAt' = wakeAt
      /\ pc' = pc /\ outcome' = outcome /\ eventDriven' = eventDriven
  BY DEF Tick, Loop, world, staged
<1>2. /\ now \in Nat /\ late \in Nat /\ wakeAt \in Nat /\ outcome = "none" /\ pc # "done"
      /\ (pc = "wait" \/ InFlight)
  BY DEF OutcomeInv, TypeOK, Tick, Due, InFlight
<1>3. now + 1 <= Deadline /\ (pc = "wait" => now + 1 <= wakeAt)
  <2>1. CASE pc = "wait"
    <3>1. now < wakeAt /\ wakeAt <= Deadline
      BY <1>2, <2>1 DEF Tick, Due, OutcomeInv, Waiting
    <3> QED
      BY <1>2, <3>1
  <2>2. CASE InFlight
    <3>1. now < Deadline /\ pc # "wait"
      BY <1>2, <2>2 DEF Tick, Due, ExchangeEnd, InFlight, Requests
    <3> QED
      BY <1>2, <3>1
  <2> QED
    BY <1>2, <2>1, <2>2
<1>4. TypeOK'
  <2>1. TypeOK
    BY DEF OutcomeInv
  <2>2. (window # NoWindow => Passes(window.of) /\ window.since <= now)'
    BY <1>1, <1>2 DEF OutcomeInv, Aged, Passes
  <2> QED
    BY <1>1, <1>2, <2>1, <2>2 DEF TypeOK, Snapshot
<1>5. Waiting'
  <2>1. pc = "wait" /\ ~eventDriven => wakeAt <= now + 1 + Poll
    BY <1>2 DEF OutcomeInv, Waiting
  <2>2. pc = "wait" => wakeAt <= Deadline
    BY DEF OutcomeInv, Waiting
  <2> QED
    BY <1>1, <1>3, <2>1, <2>2 DEF Waiting, EndsInTime
<1>6. Framed' /\ Scoped'
  BY <1>1 DEF OutcomeInv, Framed, Scoped
<1>7. Evidenced'
  BY <1>1 DEF OutcomeInv, Evidenced, EvidenceKept
<1>8. Aged'
  <2>1. Dated'
    <3>1. /\ \A r \in Regions : /\ since[r] \in Nat /\ page[r] \in Contents
                                /\ before[r] \in Contents
          /\ \A r \in Regions, c \in Contents : firstShown[r][c] \in Nat
      BY TimesAreNaturals DEF OutcomeInv, TypeOK, Snapshot, Never
    <3> QED
      BY <1>1, <1>2, <3>1 DEF OutcomeInv, Aged, Dated, Regions, Contents, Never
  <2>2. (window # NoWindow =>
          /\ window.of \in Snapshot /\ Passes(window.of)
          /\ window.since \in Nat /\ window.since <= now
          /\ \A r \in Regions : firstShown[r][window.of[r]] <= window.since)'
    BY <1>1, <1>2 DEF OutcomeInv, Aged, Passes, Snapshot, Regions
  <2> QED
    BY <2>1, <2>2 DEF Aged
<1>9. Prompt'
  BY <1>1, <1>2 DEF Prompt, InFlight
<1>10. Probed'
  <2>1. lastFull \in Nat /\ lastFull <= now + 1
    BY DEF OutcomeInv, Probed, TypeOK
  <2>2. lastFull' <= now' + 1
    BY <1>1, <1>2, <2>1
  <2> QED
    BY <1>1, <2>2 DEF OutcomeInv, Probed, Passes
<1>11. Blind'
  BY <1>1 DEF OutcomeInv, Blind, Passes, Regions
<1>12. PassIsStable' /\ SeenWhenPolling'
  BY <1>1, <1>2 DEF PassIsStable, SeenWhenPolling, RestedPageIsSeen
<1> QED
  BY <1>4, <1>5, <1>6, <1>7, <1>8, <1>9, <1>10, <1>11, <1>12 DEF OutcomeInv
-----------------------------------------------------------------------------
LEMMA InitHolds == ASSUME Init PROVE OutcomeInv
<1> USE TimesAreNaturals
<1>1. /\ pc = "start" /\ now = 0 /\ changes = 0 /\ late = 0 /\ frames = 0 /\ wakeAt = 0
      /\ outcome = "none" /\ after = NoSample /\ lastSnapshot = NoSample
      /\ window = NoWindow /\ lastFull = 0 /\ revealed = FALSE /\ before = page
      /\ scope = PollScope /\ eventDriven \in BOOLEAN
      /\ check \in [expect : Expectations, stable : StableChoices] /\ paint \in PaintKinds
  BY DEF Init, Streams
<1>2. active \in Panes /\ active \in Regions /\ active # Chrome
  BY RegionsAssumption DEF Init, Regions
<1>3. page \in [Regions -> {"gone", "empty"} \cup FirstLooks]
      /\ since = [r \in Regions |-> 0]
      /\ firstShown = [r \in Regions |-> [c \in Contents |-> IF c = page[r] THEN 0 ELSE Never]]
  BY DEF Init
<1>4. /\ page \in Snapshot /\ Dated
      /\ since \in [Regions -> 0..Deadline] /\ firstShown \in [Regions -> [Contents -> 0..Never]]
  <2>1. page \in Snapshot
    BY <1>3, RegionsAssumption DEF Snapshot, Contents, Mounted, Subject, Painted
  <2>2. 0 \in 0..Never /\ Never \in 0..Never /\ 0 \in 0..Deadline
    BY DEF Never
  <2>3. since \in [Regions -> 0..Deadline] /\ firstShown \in [Regions -> [Contents -> 0..Never]]
    BY <1>3, <2>2
  <2>4. /\ \A r \in Regions : /\ since[r] = 0 /\ page[r] \in Contents
                              /\ firstShown[r][page[r]] = 0 /\ before[r] = page[r]
        /\ \A r \in Regions, c \in Contents : firstShown[r][c] = 0 \/ firstShown[r][c] = Never
    BY <1>1, <1>3, <2>1 DEF Snapshot
  <2> QED
    BY <1>1, <2>1, <2>3, <2>4 DEF Dated
<1>5. page[active] # "gone"
  BY <1>2 DEF Init
<1>6. TypeOK
  <2>1. /\ now \in Nat /\ changes \in 0..MaxChanges /\ late \in Nat
        /\ lastFull \in 0..(Deadline + 1) /\ wakeAt \in 0..(Deadline + Poll)
        /\ frames \in 0..(MaxChanges + 1)
    BY <1>1
  <2>2. /\ pc \in Requests \cup {"start", "wait", "done"}
        /\ outcome \in Outcomes /\ (outcome = "none" <=> pc # "done")
        /\ revealed \in BOOLEAN /\ ~(window # NoWindow)
    BY <1>1 DEF Outcomes
  <2>3. scope \in Marked \cup {Document} /\ after \in {NoSample} /\ before \in Snapshot
    BY <1>1, <1>4, PollScopeIsAScope
  <2> QED
    BY <1>1, <1>2, <1>4, <1>5, <2>1, <2>2, <2>3 DEF TypeOK
<1>7. Waiting /\ Framed /\ Evidenced /\ Scoped /\ Prompt /\ Probed /\ Blind
  BY <1>1 DEF Waiting, EndsInTime, Framed, Evidenced, EvidenceKept, Scoped, Prompt,
              InFlight, Requests, Probed, Blind
<1>8. Aged
  BY <1>1, <1>4 DEF Aged
<1>9. PassIsStable /\ SeenWhenPolling
  BY <1>1 DEF PassIsStable, SeenWhenPolling, RestedPageIsSeen
<1> QED
  BY <1>6, <1>7, <1>8, <1>9 DEF OutcomeInv

LEMMA StutterKeeps == ASSUME OutcomeInv, UNCHANGED vars PROVE OutcomeInv'
<1>1. /\ now' = now /\ late' = late /\ check' = check /\ paint' = paint /\ page' = page
      /\ since' = since /\ firstShown' = firstShown
      /\ active' = active /\ changes' = changes /\ before' = before /\ scope' = scope
      /\ after' = after /\ window' = window /\ lastFull' = lastFull /\ revealed' = revealed
      /\ lastSnapshot' = lastSnapshot /\ frames' = frames /\ wakeAt' = wakeAt
      /\ pc' = pc /\ outcome' = outcome /\ eventDriven' = eventDriven
  BY DEF vars, world, staged
<1>2. TypeOK' /\ Aged'
  BY <1>1 DEF OutcomeInv, TypeOK, Aged, Dated, Passes, Snapshot, Regions, Contents, Never
<1>3. Waiting' /\ Framed' /\ Evidenced' /\ Scoped' /\ Prompt'
  BY <1>1 DEF OutcomeInv, Waiting, EndsInTime, Framed, Evidenced, EvidenceKept, Scoped,
              Prompt, InFlight, Budget
<1>4. Probed' /\ Blind'
  BY <1>1 DEF OutcomeInv, Probed, Blind, Passes, Regions
<1>5. PassIsStable'
  BY <1>1 DEF OutcomeInv, PassIsStable, Polled, Regions
<1>6. SeenWhenPolling'
  BY <1>1 DEF OutcomeInv, SeenWhenPolling, RestedPageIsSeen, RestedEarly, Passes, Regions
<1> QED
  BY <1>2, <1>3, <1>4, <1>5, <1>6 DEF OutcomeInv

LEMMA StepKeeps == ASSUME OutcomeInv, [Next]_vars PROVE OutcomeInv'
<1>1. CASE Start
  BY <1>1, StartAsks, AskedKeeps
<1>2. CASE ArmReply
  BY <1>2, ArmReplyAsks, AskedKeeps
<1>3. CASE PaneReply
  BY <1>3, PaneKeeps
<1>4. CASE PaneRefused
  BY <1>4, PaneRefusedAsks, AskedKeeps
<1>5. CASE WholeReply
  BY <1>5, WholeKeeps
<1>6. CASE ProbeReply
  BY <1>6, ProbeKeeps
<1>7. CASE Refused
  BY <1>7, RefusedAsks, AskedKeeps
<1>8. CASE ScrollReply
  BY <1>8, ScrollKeeps
<1>9. CASE ExchangeTimesOut
  BY <1>9, TimeoutKeeps
<1>10. CASE Disconnected
  BY <1>10, DisconnectedAsks, AskedKeeps
<1>11. CASE Wake
  BY <1>11, WakeAsks, AskedKeeps
<1>12. ASSUME NEW r \in Regions, Change(r) PROVE OutcomeInv'
  BY <1>12, ChangeMoves, MovedKeeps DEF Change
<1>13. ASSUME NEW pane \in Panes, Navigate(pane) PROVE OutcomeInv'
  BY <1>13, NavigateMoves, MovedKeeps DEF Navigate
<1>14. CASE Tick
  BY <1>14, TickKeeps
<1>15. CASE Finished \/ UNCHANGED vars
  BY <1>15, StutterKeeps DEF Finished
<1> QED
  BY <1>1, <1>2, <1>3, <1>4, <1>5, <1>6, <1>7, <1>8, <1>9, <1>10, <1>11, <1>12, <1>13,
     <1>14, <1>15 DEF Next

(* The invariant holds throughout every run of the loop.                   *)
THEOREM Invariance == Spec => []OutcomeInv
<1>1. Init => OutcomeInv
  BY InitHolds
<1>2. OutcomeInv /\ [Next]_vars => OutcomeInv'
  BY StepKeeps
<1> QED
  BY <1>1, <1>2, PTL DEF Spec

(* settle_for_outcome never waits past the deadline of the check, and a    *)
(* check that ran out of time is decided by its last completed sample: a   *)
(* timeout is reported only when there is none.                            *)
THEOREM EndsOnEvidence == Spec => []ConcludesInTime
<1>1. OutcomeInv => ConcludesInTime
  BY DEF OutcomeInv, Waiting, Evidenced, ConcludesInTime
<1> QED
  BY <1>1, Invariance, PTL

(* A pass of OutcomeStability: what each polled region shows at the pass   *)
(* was on the page stable_for_ms before, whatever probes, scrolls, refusals*)
(* and frames came in between.  The window holds what was read and the     *)
(* invariant dates it: each part was first shown no later than the window  *)
(* opened.                                                                 *)
THEOREM PassRests == Spec => []PassIsStable
<1>1. OutcomeInv => PassIsStable
  BY DEF OutcomeInv
<1> QED
  BY <1>1, Invariance, PTL

(* A loop that polls is not blind for a whole deadline: a page that came to*)
(* rest early enough for a probe and a poll is not reported to lack the    *)
(* result it shows.                                                        *)
THEOREM RestedIsSeen == Spec => []SeenWhenPolling
<1>1. OutcomeInv => SeenWhenPolling
  BY DEF OutcomeInv
<1> QED
  BY <1>1, Invariance, PTL
=============================================================================
