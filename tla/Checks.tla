------------------------------- MODULE Checks -------------------------------
(***************************************************************************)
(* From check files to the order the checks run in: what a file may say,   *)
(* how several files become one manifest, how one run selects and orders   *)
(* it, and on which surface each check then runs.                          *)
(***************************************************************************)
EXTENDS Shapes, Positions, Integers, Sequences, FiniteSets, Functions

CONSTANTS
  Manifests,      \* the sets of files to read, each a sequence of files in name order
  Groups,         \* the --group arguments, "*" for none
  Supplied,       \* what a plan may supply: None, or <<[binding -> subject]>>
  Credentials,    \* the session credentials a run may hold: None, or <<[input -> subject]>>
  DefaultTimeout, \* the outcome budget a check has that declares none, in ms (900)
  SpanLimit       \* the largest byte offset, 2^64 - 1 in the code

VARIABLES
  phase,        \* "load", "refused", "loaded", "run", "over"
  files,        \* the files as parsed
  group,        \* the group or check asked for
  values, secrets, \* the assertion values and the credentials of the run
  file, place,  \* the check to be validated next
  established,  \* <<>>, or <<the file, the opener>> that set a surface last
  all,          \* the manifest: the checks read so far, each with its file
  queue,        \* what is left to run
  surface,      \* <<>>, or the file that opened the surface in front
  done          \* the checks run, each with the file whose surface it ran on

(* The files hold sequences of checks, each a record as Shapes lists it.   *)
Parsed == UNION {UNION {Range(m[f]) : f \in DOMAIN m} : m \in Manifests}
ManifestsAreWellFormed ==
  /\ \A m \in Manifests : DOMAIN m = 1..Len(m) /\ \A f \in DOMAIN m : DOMAIN m[f] = 1..Len(m[f])
  /\ \A check \in Parsed : {"open", "navigate", "subject", "setupText"} \subseteq DOMAIN check

inputs == <<files, group, values, secrets>>
vars == <<inputs, phase, file, place, established, all, queue, surface, done>>

Given(field) == field # None

(*********************************** rules *********************************)

EffectiveTimeout(check) == IF check.timeout = 0 THEN DefaultTimeout ELSE check.timeout
DrivesNothing(check) == ~Given(check.click) /\ ~Given(check.key) /\ ~Given(check.keys)

HoldsPastItsBudget(check) == check.stable >= EffectiveTimeout(check)

(* A key that replaces the opening press is skipped when the subject       *)
(* already paints, and nothing else then opens it.                         *)
PassesUnopened(check) ==
  /\ check.expect = "Vanishes" /\ Given(check.prepareKey)
  /\ check.prepareUnless = <<check.subject>>
  /\ DrivesNothing(check) /\ ~Given(check.typeInto)

PreparesHalf(check) ==
  \/ check.prepareWait > 0 /\ ~(Given(check.prepare) /\ Given(check.prepareUntil))
  \/ Given(check.prepareUntil) /\ ~Given(check.prepare)

SetupValues(check) ==
  Cardinality({f \in {"setupText", "setupEnv", "setupSecret"} : Given(check[f])})
SetsUpHalf(check) == SetupValues(check) # IF Given(check.setupInto) THEN 1 ELSE 0

Alternative(expect) == expect \in {"Present", "Paints", "PaintsNamed", "Absent"}
OffersBadly(check) ==
  /\ Given(check.anyOf)
  /\ \/ Len(check.anyOf) > 16 \/ check.subject = "" \/ ~Alternative(check.expect)
     \/ \E i \in DOMAIN check.anyOf : check.anyOf[i].subject = "" \/ ~Alternative(check.anyOf[i].expect)

BindsTwice(check) == Given(check.subjectEnv) /\ Given(check.subjectSecret)

(* Where a check that navigates waits to have arrived.                     *)
Arrival(check) ==
  LET stated == check.arrival \o check.open \o check.hover \o check.prepare \o check.click
                \o check.typeInto \o check.keyOn \o <<check.subject>>
  IN  stated[1]
ArrivesNowhere(check) ==
  \/ check.arrival = <<"">>
  \/ Given(check.navigate) /\ check.expect = "Absent" /\ Arrival(check) = check.subject

(* The field a check typed its own setup value into proves nothing.        *)
ProvesItself(check) ==
  /\ check.expect \in {"ValueChanges", "NameChanges", "SelectionChanges", "FocusMoves"}
  /\ check.setupInto = <<check.subject>>
  /\ DrivesNothing(check) /\ ~Given(check.text) /\ ~Given(check.scrollOver)

MovesNothing(check) ==
  \/ Given(check.scrollOver) /\ (check.scrollTicks = 0 \/ check.scrollDelta = 0)
  \/ /\ Given(check.drag) /\ Given(check.drag[1].to)
     /\ (check.drag[1].to = <<"">> \/ check.drag[1].dx # 0 \/ check.drag[1].dy # 0)

SizesText(check) == check.textSized /\ check.expect \notin {"Enabled", "Disabled"}

(* A GPU buffer expectation is [named, offset, length, min, max, fits]:    *)
(* whether its subject names a buffer, and whether its value fits its      *)
(* format.                                                                 *)
BufferWrong(check) ==
  /\ Given(check.buffer)
  /\ LET b == check.buffer[1]
     IN  \/ ~b.named \/ ~b.fits \/ b.min > b.max
         \/ b.offset % 4 # 0 \/ b.length % 4 # 0 \/ b.length = 0
         \/ b.offset + b.length > SpanLimit

(* The other GPU subjects: a kind and a label, a target, a texture or a    *)
(* canvas.                                                                 *)
GpuTargetWrong(check) ==
  \/ check.expect = "GpuHasResource" /\ check.subject \notin {"buffer:b", "texture:t"}
  \/ check.expect = "GpuDraws" /\ check.subject = ""
  \/ check.expect = "GpuTextureInk" /\ check.subject \notin {"texture:t", "canvas:#c"}

CountsOrValues(check) ==
  \/ check.expect = "Count" /\ ~Given(check.count)
  \/ (check.expect = "ValueIs") # Given(check.value)

(* Every target a check names must be one the selector grammar reads; the  *)
(* GPU subjects and subjects bound later are not selectors.                *)
Misread == {"", "div.row", "a]"}
MisreadTarget(check) ==
  LET subject == IF Given(check.subjectEnv) \/ Given(check.subjectSecret) \/ Given(check.buffer)
                    \/ check.expect \in {"GpuNoErrors", "GpuHasResource", "GpuDraws", "GpuTextureInk"}
                 THEN {} ELSE {check.subject}
      named == UNION {Range(check[f]) : f \in {"arrival", "open", "prepare", "prepareUnless", "prepareUntil",
                  "hover", "setupInto", "click", "typeInto", "keyOn", "scrollOver", "compare"}}
      ends == IF Given(check.drag) THEN {check.drag[1].from} \cup Range(check.drag[1].to) ELSE {}
      others == {check.anyOf[i].subject : i \in DOMAIN check.anyOf}
  IN  (subject \cup named \cup ends \cup others) \cap Misread # {}

Valid(check) ==
  /\ ~HoldsPastItsBudget(check) /\ ~PassesUnopened(check) /\ ~PreparesHalf(check)
  /\ ~SetsUpHalf(check) /\ ~OffersBadly(check) /\ ~BindsTwice(check) /\ ~ArrivesNowhere(check)
  /\ ~ProvesItself(check) /\ ~MovesNothing(check) /\ ~SizesText(check) /\ ~BufferWrong(check)
  /\ ~GpuTargetWrong(check) /\ ~CountsOrValues(check) /\ ~MisreadTarget(check)

(******************************* the manifest ******************************)

Opener(check) == check.open \o check.navigate

Init ==
  /\ phase = "load" /\ files \in Manifests /\ group \in Groups
  /\ values \in Supplied /\ secrets \in Credentials
  /\ file = 1 /\ place = 1 /\ established = None
  /\ all = <<>> /\ queue = <<>> /\ surface = None /\ done = <<>>

(* The first check of a file must say where it starts, once another file   *)
(* has opened something.                                                   *)
\* Mutation: a file may start on whatever surface is in front.
InheritsUnchecked == FALSE
Inherits == place = 1 /\ Opener(files[file][place]) = None /\ established # None

(* One check of the manifest, in file and place order.                     *)
ReadCheck ==
  /\ phase = "load" /\ file <= Len(files) /\ place <= Len(files[file])
  /\ LET check == files[file][place]
         accepted == Valid(check) /\ (\A i \in DOMAIN all : all[i].check.id # check.id) /\ ~Inherits
     IN  /\ phase' = IF accepted THEN "load" ELSE "refused"
         /\ all' = IF accepted THEN Append(all, [file |-> file, check |-> check]) ELSE all
         /\ established' = IF Opener(check) # None THEN <<file, Opener(check)[1]>> ELSE established
  /\ place' = place + 1
  /\ UNCHANGED <<inputs, file, queue, surface, done>>

NextFile ==
  /\ phase = "load" /\ file <= Len(files) /\ place > Len(files[file])
  /\ file' = file + 1 /\ place' = 1
  /\ UNCHANGED <<inputs, phase, established, all, queue, surface, done>>

(* A group, or one check by its id; destructive checks last, everything    *)
(* else as declared.                                                       *)
OrderedChecks(manifest) ==
  LET wanted == {i \in DOMAIN manifest : group \in {"*", manifest[i].check.group, manifest[i].check.id}}
      last == {i \in wanted : manifest[i].check.destructive}
  IN  AtPositions(manifest, wanted \ last) \o AtPositions(manifest, last)

(* The bindings of a plan become subjects and setup values; without a plan *)
(* a bound check keeps what its file says.                                 *)
Unknown(check) ==
  /\ values # None
  /\ Range(check.subjectEnv \o check.setupEnv) \ DOMAIN values[1] # {}
ResolvedAssertion(check) ==
  LET of(binding, default) == IF values # None /\ Given(binding) THEN values[1][binding[1]] ELSE default
  IN  [check EXCEPT !.subject = of(check.subjectEnv, @),
                    !.setupText = IF values # None /\ Given(check.setupEnv) THEN <<values[1][check.setupEnv[1]]>> ELSE @]

(* A credential is only there for a run that holds some.                   *)
Unsigned(check) == secrets = None /\ (Given(check.subjectSecret) \/ Given(check.setupSecret))
ResolvedSecret(check) ==
  IF Given(check.subjectSecret) THEN [check EXCEPT !.subject = secrets[1][check.subjectSecret[1]]] ELSE check

(* The order is decided, then what was selected is bound, or the run is    *)
(* refused: nothing selected, an unknown binding, no credentials.          *)
Loaded ==
  /\ phase = "load" /\ file > Len(files)
  /\ LET selected == OrderedChecks(all)
         usable == selected # <<>> /\ \A i \in DOMAIN selected :
                     ~Unknown(selected[i].check) /\ ~Unsigned(selected[i].check)
     IN  IF usable
         THEN phase' = "run" /\ queue' = [i \in DOMAIN selected |->
                [selected[i] EXCEPT !.check = ResolvedSecret(ResolvedAssertion(@))]]
         ELSE phase' = "refused" /\ queue' = <<>>
  /\ UNCHANGED <<inputs, file, place, established, all, surface, done>>

(* A check opens its own surface or runs on the one in front.              *)
RunCheck ==
  /\ phase = "run" /\ queue # <<>>
  /\ LET entry == queue[1]
         on == IF Opener(entry.check) # None THEN <<entry.file>> ELSE surface
     IN  /\ surface' = on
         /\ done' = Append(done, [entry |-> entry, on |-> on])
  /\ queue' = Tail(queue)
  /\ UNCHANGED <<inputs, phase, file, place, established, all>>

Finish ==
  /\ phase = "run" /\ queue = <<>>
  /\ phase' = "over"
  /\ UNCHANGED <<inputs, file, place, established, all, queue, surface, done>>

Next == ReadCheck \/ NextFile \/ Loaded \/ RunCheck \/ Finish
Spec == Init /\ [][Next]_vars
-----------------------------------------------------------------------------
OnForeign == \E i \in DOMAIN done : done[i].on # None /\ done[i].on[1] # done[i].entry.file

(* "A file may not inherit another file's surface in silence" (qa.rs:944): *)
(* in a whole run without destructive checks no check runs on a surface    *)
(* that another file opened.                                               *)
InheritsNoSurface ==
  (group = "*" /\ \A i \in DOMAIN all : ~all[i].check.destructive) => ~OnForeign

-----------------------------------------------------------------------------
(* Why it holds.                                                           *)

EntryType == [file : Nat, check : Parsed]

TypeOK ==
  /\ phase \in {"load", "refused", "run", "over"} /\ files \in Manifests
  /\ file \in Nat \ {0} /\ place \in Nat \ {0}
  /\ all \in Seq(EntryType)

Opens(i) == Opener(all[i].check) # None

(* Between a check that opens a surface and a later one of another file    *)
(* there is one that opens another surface.                                *)
FilesAreOpened ==
  \A i \in DOMAIN all : \A j \in 1..(i - 1) :
    Opens(j) => all[j].file = all[i].file \/ \E m \in (j + 1)..i : Opens(m)

ReadSoFar ==
  phase = "load" =>
    /\ place > 1 => all # <<>> /\ all[Len(all)].file = file
    /\ established = None => \A i \in DOMAIN all : ~Opens(i)

(* A whole run without destructive checks keeps the order of the manifest, *)
(* and the surface in front is the one that was opened last.               *)
Whole == group = "*" /\ \A i \in DOMAIN all : ~all[i].check.destructive
Same(entry, i) == entry.file = all[i].file /\ Opener(entry.check) = Opener(all[i].check)
OpenedLast(on, n) ==
  IF on = None THEN \A j \in 1..n : ~Opens(j)
  ELSE \E j \in 1..n : Opens(j) /\ on = <<all[j].file>> /\ \A m \in (j + 1)..n : ~Opens(m)

RunsInOrder ==
  Whole =>
    IF phase \in {"run", "over"}
    THEN /\ Len(queue) \in Nat /\ Len(done) \in Nat /\ Len(queue) + Len(done) = Len(all)
         /\ queue \in Seq(Range(queue)) /\ done \in Seq(Range(done))
         /\ \A k \in 1..Len(queue) : Same(queue[k], Len(done) + k)
         /\ OpenedLast(surface, Len(done))
         /\ \A k \in DOMAIN done : done[k].on = None \/ done[k].on[1] = done[k].entry.file
    ELSE done = <<>> /\ surface = None

LoadInv == TypeOK /\ FilesAreOpened /\ ReadSoFar /\ RunsInOrder
=============================================================================
