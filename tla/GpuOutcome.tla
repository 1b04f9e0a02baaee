----------------------------- MODULE GpuOutcome -----------------------------
(***************************************************************************)
(* The outcome of a check about WebGPU: what a report or a sample of a     *)
(* buffer proves (gpu_verdict, gpu_buffer.rs) and how long it must prove   *)
(* it before the check passes (wait_for_gpu, wait_for_gpu_buffer).  The    *)
(* page draws and writes between two looks.                                *)
(***************************************************************************)
EXTENDS Integers, Sequences, Functions, Positions

CONSTANTS
  Asked,        \* the checks: [expect, subject, stable, ...]
  States,       \* what a page may report: [errors, resources, frame, buffer]
  Lowest, Largest, \* the range of each whole-number format
  Grain,        \* the distance of two neighbours among f32 numbers
  Timeout,      \* outcome_timeout_ms, in ticks
  MinBudget,    \* MIN_REQUEST_BUDGET, in ticks
  Poll,         \* the sleep between two looks (25 ms), in ticks
  Slow          \* the most ticks an answer takes

TimesAreWellFormed ==
  /\ {Timeout, MinBudget, Poll, Slow} \subseteq Nat
  /\ \A asked \in Asked : asked.stable \in Nat

VARIABLES
  check,        \* the check waited for
  page,         \* what the page would report now
  now,
  since,        \* passing_since: None, or <<when the passing looks began>>
  baseline,     \* None, or <<the sample a change is measured from>>
  evidence,     \* last_failure: whether a completed look failed or was young
  looks,        \* the completed looks: [at, held, sample]
  result        \* "waiting", "pass", "fail", "timeout" or "error"

vars == <<check, page, now, since, baseline, evidence, looks, result>>
None == <<>>

(******************************** what is read *****************************)

(* A word of a buffer is what each format makes of its four bytes; None is *)
(* a number that is not finite.                                            *)
Elements(sample, format) ==
  IF format = "u8" THEN Joined([i \in DOMAIN sample.words |-> sample.words[i].u8])
                   ELSE [i \in DOMAIN sample.words |-> sample.words[i][format]]

(* A bound is rounded to the numbers of the format it is compared in.      *)
Rounded(format, value) == IF format = "f32" THEN (value \div Grain) * Grain ELSE value
Scalar(format, value) == format = "f32" \/ value \in Lowest[format]..Largest[format]

(* What the host returns must be the span that was asked for.              *)
SpanAsked(offset, length) == offset % 4 = 0 /\ length % 4 = 0
Decodable(buffer) ==
  /\ SpanAsked(check.offset, check.length)
  /\ buffer.offset = check.offset /\ check.offset + check.length <= buffer.size
  /\ 4 * Len(buffer.words) = check.length

InRange(sample) ==
  LET within(e) == IF e = None THEN check.nonFinite
                   ELSE Rounded(check.format, check.min) <= e[1] /\ e[1] <= Rounded(check.format, check.max)
  IN  \A i \in DOMAIN Elements(sample, check.format) : within(Elements(sample, check.format)[i])

(* Only the first element is compared.                                     *)
Compares(sample, atLeast) ==
  LET elements == Elements(sample, check.format)
      required == Rounded(check.format, check.value)
  IN  /\ Scalar(check.format, check.value) /\ elements # <<>> /\ elements[1] # None
      /\ IF atLeast THEN elements[1][1] >= required ELSE elements[1][1] = required

Identity(sample) == <<sample.label, sample.size, sample.usage, sample.offset>>

Changes(sample, before) ==
  /\ Identity(sample) = Identity(before)
  /\ before.submit # 0 /\ sample.submit # 0 /\ before.submit # sample.submit
  /\ before.words # sample.words

(* A label with "*" in it stands for any label that fills the gaps.        *)
GlobMatches(pattern, text) ==
  LET from[p \in 1..Len(pattern) + 1, t \in 1..Len(text) + 1] ==
        IF p > Len(pattern) THEN t > Len(text)
        ELSE IF pattern[p] = "*" THEN \E next \in t..Len(text) + 1 : from[p + 1, next]
        ELSE t <= Len(text) /\ pattern[p] = text[t] /\ from[p + 1, t + 1]
  IN  from[1, 1]

(* A canvas is named exactly, a texture by its label.                      *)
DrawsInto(target) ==
  IF target.canvas THEN check.subject = target.label ELSE GlobMatches(check.subject, target.label)

(* What the last complete frame drew into the target of the check.         *)
Drawn(frame) ==
  LET into == SelectSeq(frame.passes, LAMBDA pass : \E target \in pass.targets : DrawsInto(target))
  IN  SumFunction([i \in DOMAIN into |-> into[i].draws])

(* gpu_verdict, over one report of the whole page.                         *)
ReportHolds(report) ==
  \/ check.expect = "GpuNoErrors" /\ report.errors = 0
  \/ /\ check.expect = "GpuHasResource"
     /\ \E r \in report.resources : r.kind = check.kind /\ GlobMatches(check.subject, r.label)
  \/ /\ check.expect = "GpuDraws"
     /\ report.frame # None /\ report.frame[1].complete /\ Drawn(report.frame[1]) >= check.draws

(* The verdict on one sample; a change is measured from the first sample   *)
(* that a completed write filled.                                          *)
Unmeasured == baseline = None \/ baseline[1].submit = 0
SampleHolds(sample) ==
  \/ check.expect = "GpuBufferRange" /\ InRange(sample)
  \/ check.expect = "GpuBufferEquals" /\ Compares(sample, FALSE)
  \/ check.expect = "GpuBufferAtLeast" /\ Compares(sample, TRUE)
  \/ check.expect = "GpuBufferChanges" /\ ~Unmeasured /\ Changes(sample, baseline[1])

AboutBuffer == check.expect \in {"GpuBufferRange", "GpuBufferEquals", "GpuBufferAtLeast", "GpuBufferChanges"}

(******************************** the waiting ******************************)

Deadline == Timeout
Budget == Deadline - now >= MinBudget
Remaining == Deadline - now

Init ==
  /\ check \in Asked /\ page \in States
  /\ now = 0 /\ since = None /\ baseline = None /\ evidence = FALSE
  /\ looks = <<>> /\ result = "waiting"

PassNow(held, at) == held /\ at <= Deadline /\ at - since'[1] >= check.stable

(* After a completed look: a failure ends the run of passing looks, a pass *)
(* starts or continues one; then the budget for another look, and a sleep. *)
Weigh(held, at, sample) ==
  /\ looks' = Append(looks, [at |-> at, held |-> held, sample |-> sample])
  /\ since' = IF ~held THEN None ELSE IF since = None THEN <<at>> ELSE since
  /\ evidence' = TRUE
  /\ IF PassNow(held, at) THEN result' = "pass" /\ now' = at
     ELSE IF ~held /\ check.expect = "GpuNoErrors" THEN result' = "fail" /\ now' = at
     ELSE IF Deadline - at < MinBudget THEN result' = "fail" /\ now' = at
     ELSE result' = "waiting" /\ now' = IF at + Poll < Deadline THEN at + Poll ELSE Deadline

LookAtReport ==
  /\ result = "waiting" /\ ~AboutBuffer /\ Budget
  /\ \E delay \in 0..Slow :
       /\ delay < Remaining
       /\ Weigh(ReportHolds(page), now + delay, None)
  /\ UNCHANGED <<check, page, baseline>>

(* A buffer without a completed write is pending: no failure is noted.     *)
LookPending ==
  /\ result = "waiting" /\ AboutBuffer /\ Budget
  /\ page.buffer = None
  /\ \E delay \in 0..Slow :
       /\ delay < Remaining
       /\ IF Deadline - (now + delay) < MinBudget
          THEN result' = (IF evidence THEN "fail" ELSE "timeout") /\ now' = now + delay
          ELSE /\ UNCHANGED result
               /\ now' = IF now + delay + Poll < Deadline THEN now + delay + Poll ELSE Deadline
  /\ since' = None
  /\ UNCHANGED <<check, page, baseline, evidence, looks>>

LookAtBuffer ==
  /\ result = "waiting" /\ AboutBuffer /\ Budget
  /\ page.buffer # None
  /\ LET sample == page.buffer[1]
     IN  IF ~Decodable(sample)
         THEN result' = "error" /\ UNCHANGED <<now, since, baseline, evidence, looks>>
         ELSE /\ baseline' = IF check.expect = "GpuBufferChanges" /\ Unmeasured THEN <<sample>> ELSE baseline
              /\ \E delay \in 0..Slow :
                   delay < Remaining /\ Weigh(SampleHolds(sample), now + delay, <<sample>>)
  /\ UNCHANGED <<check, page>>

(* The answer does not come within what is left, or there is too little    *)
(* left to ask: the last completed look decides.                           *)
TimesOut ==
  /\ result = "waiting"
  /\ Budget => Slow >= Remaining
  /\ result' = IF evidence THEN "fail" ELSE "timeout"
  /\ now' = IF Budget THEN Deadline ELSE now
  /\ UNCHANGED <<check, page, since, baseline, evidence, looks>>

(* The host answers with something else, or not at all.                    *)
ReadFails ==
  /\ result = "waiting" /\ Budget
  /\ result' = "error"
  /\ UNCHANGED <<check, page, now, since, baseline, evidence, looks>>

(* A page counts its errors and the submits to a buffer upwards, until the *)
(* buffer is replaced.                                                     *)
Follows(before, after) ==
  /\ before.errors <= after.errors
  /\ (before.buffer # None /\ after.buffer # None /\ before.buffer[1].label = after.buffer[1].label
        /\ before.buffer[1].size = after.buffer[1].size) =>
       \/ before.buffer[1].submit < after.buffer[1].submit
       \/ before.buffer[1].submit = after.buffer[1].submit /\ before.buffer[1].words = after.buffer[1].words

PageMoves ==
  /\ result = "waiting"
  /\ \E next \in States : Follows(page, next) /\ page' = next
  /\ UNCHANGED <<check, now, since, baseline, evidence, looks, result>>

Next == LookAtReport \/ LookPending \/ LookAtBuffer \/ TimesOut \/ ReadFails \/ PageMoves
Spec == Init /\ [][Next]_vars
-----------------------------------------------------------------------------
(* A pass has held: it was reached in time, and every look of the stable   *)
(* time before it passed, the first of them at least that long ago         *)
(* (wait_for_gpu, wait_for_gpu_buffer, stable_for_ms).                     *)
HeldForStable ==
  result = "pass" =>
    /\ now <= Deadline
    /\ \E first \in DOMAIN looks :
         /\ now - looks[first].at >= check.stable
         /\ \A i \in first..Len(looks) : looks[i].held

(* "Changes keeps its first completed submit" (README.md:450): a passing   *)
(* change is between two completed writes of one and the same buffer, the  *)
(* first of them the first that any look saw.                              *)
Sample(i) == looks[i].sample[1]
FirstWritten(i) == Sample(i).submit # 0 /\ \A j \in 1..(i - 1) : Sample(j).submit = 0

ChangesMeansTwoWrites ==
  (result = "pass" /\ check.expect = "GpuBufferChanges") =>
    \E first \in DOMAIN looks :
      LET last == Len(looks)
      IN  /\ FirstWritten(first)
          /\ Sample(last).submit # 0 /\ Sample(first).submit # Sample(last).submit
          /\ Identity(Sample(first)) = Identity(Sample(last))
          /\ Sample(first).words # Sample(last).words

-----------------------------------------------------------------------------
(* Why they hold.                                                          *)

LookType ==
  [at : Nat, held : BOOLEAN,
   sample : {None} \cup {<<state.buffer[1]>> : state \in {s \in States : s.buffer # None}}]

TypeOK ==
  /\ check \in Asked /\ page \in States
  /\ now \in Nat /\ evidence \in BOOLEAN
  /\ since # None => Len(since) = 1 /\ since[1] \in Nat
  /\ looks \in Seq(LookType)
  /\ result \in {"waiting", "pass", "fail", "timeout", "error"}

(* The passing looks go on since the first of them.                        *)
HeldSince ==
  /\ since # None =>
       \E first \in DOMAIN looks :
         looks[first].at = since[1] /\ \A i \in first..Len(looks) : looks[i].held
  /\ result = "pass" => since # None /\ now <= Deadline /\ now - since[1] >= check.stable

(* A change is measured from the first completed write that was seen.      *)
MeasuredFromFirst ==
  check.expect = "GpuBufferChanges" =>
    /\ Unmeasured => \A i \in DOMAIN looks : Sample(i).submit = 0
    /\ ~Unmeasured => \E first \in DOMAIN looks : FirstWritten(first) /\ Sample(first) = baseline[1]
    /\ result = "pass" => ~Unmeasured /\ looks # <<>> /\ Changes(Sample(Len(looks)), baseline[1])

OutcomeInv == TypeOK /\ HeldSince /\ MeasuredFromFirst
=============================================================================
