------------------------------ MODULE CheckRun ------------------------------
(***************************************************************************)
(* The body of one check in ps-qa (run_qa_inner in runner.rs): navigate,   *)
(* open, establish a value, expose the target, hover, prepare, linger,     *)
(* take the baseline, drive the declared actions, judge.                   *)
(*                                                                         *)
(* The page is what it has carried out: a gesture the host accepted is in  *)
(* flight until the page renders it, because an acknowledgement and the    *)
(* semantic tree are separate observations.  A request is answered "ok",   *)
(* "refused" (not carried out: a rejection, or no control to aim at),      *)
(* "gone" (the text carries a marker of host_gave_up: it may have been     *)
(* carried out), "silent" (the same, and the marker is "inspector did not  *)
(* answer within") or "lost" (the client's own timeout or a closed socket: *)
(* the client is terminal from then on).  A read that fails inside the     *)
(* body abandons the check.                                                *)
(*                                                                         *)
(* The words of a silent answer stay in the text of the step that failed,  *)
(* and decide the verdict: such a check is judged on what is rendered.     *)
(* This client words its own timeout otherwise, so only the text of a host *)
(* can bring them.                                                         *)
(***************************************************************************)
EXTENDS Naturals, Sequences

CONSTANT Checks  \* the shapes of declared check the model drives

VARIABLES
  check,     \* the check being driven
  pc,        \* the step of the body
  error,     \* the step that failed: open_error, then action_error
  verdict,   \* "none" until the body ends
  flying,    \* gestures the page has accepted and not rendered
  landed,    \* gestures the semantic tree shows
  base,      \* landed, when the baseline was read
  ran,       \* how often the page carried out each gesture (up to 2)
  acked,     \* the gestures acknowledged to the harness
  opening,   \* which attempt at the opener, and whether the first one failed
  todo,      \* the declared actions still to drive
  pixels,    \* the pixel outcome: "none", "ok" or "failed"
  terminal   \* the client refuses every later exchange

page == <<flying, landed, ran, acked, terminal>>
vars == <<check, pc, error, verdict, flying, landed, base, ran, acked,
          opening, todo, pixels, terminal>>

Acts == {"text", "click", "press", "drag", "key", "keys", "scroll"}
Gestures == Acts \cup {"navigate", "open", "home", "setup", "expand",
                       "reveal", "hover", "prepare", "linger"}
Answers == {"ok", "refused", "gone", "silent", "lost"}
GaveUp  == {"gone", "silent"}   \* host_gave_up: a marker is in the text
Range(s) == {s[i] : i \in DOMAIN s}
Clicks == {"click", "press"}

Init ==
  /\ check \in Checks
  /\ pc = "navigate" /\ error = "none" /\ verdict = "none"
  /\ flying = {}
  /\ landed \in SUBSET {"open", "prepare"}  \* what an earlier check left
  /\ base = {}
  /\ ran = [g \in Gestures |-> 0]
  /\ acked = {}
  /\ opening = [turn |-> "none", failed |-> FALSE]
  /\ todo = <<>> /\ pixels = "none" /\ terminal = FALSE

-----------------------------------------------------------------------------
(* What the page shows.                                                    *)

\* What must be rendered before the target of a step has a painted box.
Needs(step) ==
  {g \in {"navigate", "open", "expand", "reveal", "hover", "prepare"} :
     \/ g = "navigate" /\ check.navigate
     \/ g = "open" /\ check.open # "no"
     \/ g = "expand" /\ check.exposed = "collapsed"
     \/ g = "reveal" /\ check.exposed = "deferred"
     \/ g = "hover" /\ check.hover > 0 /\ step \in {"prepare", "act"}
     \/ g = "prepare" /\ check.prepare /\ step = "act"}

Painted(step) == Needs(step) \subseteq landed

\* A gesture is aimed at a node of the tree, so its target has to be there.
Aimed(g) ==
  CASE g \in {"hover", "prepare"} -> Painted(g)
    [] g \in {"text", "click", "press", "drag", "linger"} -> Painted("act")
    [] OTHER -> TRUE

\* The target the setup chain starts from, and the one after the hover.
First == IF check.hover > 0 THEN "hover"
         ELSE IF check.prepare THEN "prepare" ELSE "act"
NextTarget == IF check.prepare THEN "prepare" ELSE "act"

-----------------------------------------------------------------------------
(* Requests.                                                               *)

\* One gesture and its answer.  A terminal client sends nothing.
Ask(g, a) ==
  \E done \in CASE terminal \/ a = "refused" -> {FALSE}
                [] a = "ok" -> {TRUE}
                [] OTHER -> BOOLEAN :
    /\ terminal => a = "lost"
    /\ done => Aimed(g)
    /\ flying' = IF done THEN flying \cup {g} ELSE flying
    /\ ran' = IF done /\ ran[g] < 2 THEN [ran EXCEPT ![g] = @ + 1] ELSE ran
    /\ acked' = IF a = "ok" THEN acked \cup {g} ELSE acked
    /\ terminal' = (terminal \/ a = "lost")
    /\ landed' = landed

Quiet == UNCHANGED page  \* no gesture, only reads that succeed
Read == ~terminal        \* inspect(client).await? returns a tree

\* A bounded wait: it can run out however long the target has been painted.
Waited(arrived, shown) == arrived => shown

\* What a failed request leaves in the error of its step.
Unprepared(step, a) == IF a = "silent" THEN "setupUnanswered" ELSE step
Undriven(a) == IF a = "ok" THEN "none" ELSE IF a = "silent" THEN "actUnanswered" ELSE "act"

Continue(p, e) ==
  /\ pc' = p /\ error' = e
  /\ UNCHANGED <<check, verdict, base, opening, todo, pixels>>

Stop(v) ==
  /\ pc' = "done" /\ verdict' = v
  /\ UNCHANGED <<check, error, base, opening, todo, pixels>>

-----------------------------------------------------------------------------
(* The order of the body, and when a step applies.                         *)

After == [navigate |-> "open", open |-> "setup", setup |-> "expand",
          capture |-> "hover", hover |-> "prepare", next |-> "prepare", prepare |-> "linger",
          until |-> "pause", linger |-> "leak", leak |-> "subject",
          subject |-> "locate", locate |-> "baseline"]

Declared(step) ==
  CASE step = "navigate" -> check.navigate
    [] step = "open" -> check.open # "no"
    [] step = "setup" -> check.setup
    [] step = "capture" -> check.reveal
    [] step = "hover" -> check.hover > 0
    [] step = "next" -> check.prepare \/ Clicks \cap Range(check.acts) # {}
    [] step = "prepare" -> check.prepare
    [] step = "until" -> check.until
    [] step = "linger" -> check.linger
    [] step = "leak" -> check.hover > 1
    [] step = "subject" -> check.expect = "change" /\ ~check.linger
    [] step = "locate" -> "click" \in Range(check.acts)

At(step) == pc = step /\ Declared(step) /\ error = "none"

SkipStep ==
  /\ pc \in DOMAIN After
  /\ ~Declared(pc) \/ error # "none"
  /\ Quiet /\ Continue(After[pc], error)

\* The steps that read the tree with "?": a failed read abandons the check.
Reading ==
  {"arrive", "there", "value", "expand", "defer", "next", "next2", "recover",
   "until", "pause", "baseline"} \cup
  {s \in {"open", "capture", "hover", "prepare", "leak"} : Declared(s) /\ error = "none"}

ReadFails ==
  /\ pc \in Reading
  /\ terminal' \in {terminal, TRUE}
  /\ UNCHANGED <<flying, landed, ran, acked>>
  /\ Stop("abandoned")

-----------------------------------------------------------------------------
(* Reaching the surface.                                                   *)

Navigate ==
  /\ At("navigate")
  /\ \E a \in Answers :
       /\ Ask("navigate", a)
       /\ \/ a = "ok" /\ Continue("arrive", "none")
          \/ a \in GaveUp /\ Stop("abandoned")
          \/ a \in {"refused", "lost"} /\ Continue("open", "navigate")

Arrive ==
  /\ pc = "arrive" /\ Read /\ Quiet
  /\ \E there \in BOOLEAN :
       /\ Waited(there, "navigate" \in landed)
       /\ Continue("open", IF there THEN "none" ELSE "navigate")

\* A surface that is already in front needs no gesture.
AlreadyThere ==
  /\ At("open") /\ Read /\ Quiet
  /\ "open" \in landed
  /\ Continue("setup", "none")

BeginOpening ==
  /\ At("open") /\ Read /\ Quiet
  /\ "open" \notin landed
  /\ pc' = "opener"
  /\ opening' = [turn |-> IF check.open = "document" THEN "tab" ELSE "click",
                 failed |-> FALSE]
  /\ UNCHANGED <<check, error, verdict, base, todo, pixels>>

Attempt(p, turn, failed) ==
  /\ pc' = p /\ opening' = [turn |-> turn, failed |-> failed]
  /\ UNCHANGED <<check, error, verdict, base, todo, pixels>>

\* click_opener_quiet: a document's tab first, then the opener by its name.
\* Only a first answer that the host gave up ends the attempts.
FirstClick ==
  /\ pc = "opener" /\ opening.turn \in {"tab", "click"}
  /\ \E a \in Answers :
       /\ Ask("open", a)
       /\ \/ a = "ok" /\ Attempt("there", "click", FALSE)
          \/ a \in GaveUp /\ Stop("abandoned")
          \/ /\ a \in {"refused", "lost"}
             /\ IF opening.turn = "tab" THEN Attempt("opener", "click", FALSE)
                ELSE Attempt("there", "click", TRUE)

ClickAgain ==
  /\ pc = "opener" /\ opening.turn = "again"
  /\ \E a \in Answers : Ask("open", a)
  /\ Attempt("there", "again", FALSE)

\* Mutation: The failure of the last attempt is dropped.
DoubleClickDroppingError ==
  /\ pc = "opener" /\ opening.turn \in {"double", "last"}
  /\ \E a \in Answers :
       /\ Ask("open", a)
       /\ \/ a = "ok" /\ Attempt("there", opening.turn, FALSE)
          \/ a # "ok" /\ opening.turn = "double"
             /\ Attempt("opener", "home", FALSE)
          \/ a # "ok" /\ opening.turn = "last" /\ Continue("setup", "none")

DoubleClick ==
  /\ pc = "opener" /\ opening.turn \in {"double", "last"}
  /\ \E a \in Answers :
       /\ Ask("open", a)
       /\ \/ a = "ok" /\ Attempt("there", opening.turn, FALSE)
          \/ a # "ok" /\ opening.turn = "double"
             /\ Attempt("opener", "home", FALSE)
          \/ a # "ok" /\ opening.turn = "last" /\ Continue("setup", Unprepared("open", a))

\* The configured home opener, best effort.
GoHome ==
  /\ pc = "opener" /\ opening.turn = "home"
  /\ \E a \in Answers : Ask("home", a)
  /\ Attempt("opener", "last", FALSE)

\* wait_for_navigation_arrival, and the gesture to escalate to when it fails.
There ==
  /\ pc = "there" /\ Read /\ Quiet
  /\ \E there \in BOOLEAN :
       /\ Waited(there, "open" \in landed)
       /\ \/ there /\ Continue("setup", "none")
          \/ ~there /\ opening.turn = "click"
               /\ Attempt("opener", IF opening.failed THEN "again" ELSE "double", FALSE)
          \/ ~there /\ opening.turn = "again" /\ Attempt("opener", "double", FALSE)
          \/ ~there /\ opening.turn = "double" /\ Attempt("opener", "home", FALSE)
          \/ ~there /\ opening.turn = "last" /\ Continue("setup", "open")

-----------------------------------------------------------------------------
(* Establishing the precondition.                                          *)

\* The text of a failed secret is withheld, whatever it says.
TypeSetup ==
  /\ At("setup")
  /\ \E a \in Answers :
       /\ Ask("setup", a)
       /\ \/ a = "ok" /\ Continue("value", "none")
          \/ /\ a # "ok"
             /\ \E e \in {"setup", Unprepared("setup", a)} : Continue("expand", e)

\* wait_for_semantic_condition on the id that SetValue addressed.
ValueLands ==
  /\ pc = "value" /\ Read /\ Quiet
  /\ \E there \in BOOLEAN :
       /\ Waited(there, "setup" \in landed)
       /\ Continue("expand", IF there THEN "none" ELSE "setup")

\* expand_everything, when the first target is not painted.  It runs also
\* when the setup has failed, and drops the answers to its clicks.
Expand ==
  /\ pc = "expand" /\ Read
  /\ \/ Painted(First) /\ Quiet /\ Continue("defer", error)
     \/ ~Painted(First) /\ Quiet /\ Continue("defer", error)  \* no surface
     \/ /\ ~Painted(First)
        /\ \E a \in Answers :
             /\ Ask("expand", a)
             /\ IF a = "lost" THEN Stop("abandoned") ELSE Continue("defer", error)

Defer ==
  /\ pc = "defer" /\ Read
  /\ \/ Quiet /\ Continue("capture", error)
     \/ /\ error = "none" /\ ~Painted(First)
        /\ \E a \in Answers :
             /\ Ask("reveal", a)
             /\ Continue("capture", IF a = "ok" THEN "none" ELSE Unprepared("reveal", a))

\* reveal_before_capture: the subject arrives and is scrolled into place.
RevealBeforeCapture ==
  /\ At("capture") /\ Read /\ Quiet
  /\ \E shown \in BOOLEAN, a \in {"refused", "silent"} :
       /\ Waited(shown, Painted(First))
       /\ Continue("hover", IF shown THEN "none" ELSE Unprepared("capture", a))

\* hover_unless: the declared revealed state is already established.
HoverUnless ==
  /\ At("hover") /\ check.unless /\ Read /\ Quiet
  /\ Painted("prepare")
  /\ Continue("prepare", "none")

\* repeat_hover; a repeated hover reads the tree after the first one.
Hover ==
  /\ At("hover")
  /\ check.unless => Read /\ ~Painted("prepare")
  /\ \E a \in Answers :
       /\ Ask("hover", a)
       /\ CASE a # "ok" -> Continue("prepare", Unprepared("hover", a))
            [] a = "ok" /\ check.hover > 1 -> Continue("hover2", "none")
            [] OTHER -> Continue("next", "none")

HoverRest ==
  /\ pc \in {"hover2", "rehover"}
  /\ \E a \in Answers :
       /\ Ask("hover", a)
       /\ IF a # "ok" THEN Continue("prepare", Unprepared("hover", a))
          ELSE Continue(IF pc = "hover2" THEN "next" ELSE "next2", "none")

\* A row can reconcile and lose its hover: it is reacquired once.
NextAppears ==
  /\ pc = "next2" \/ At("next")
  /\ Read /\ Quiet
  /\ \E there \in BOOLEAN :
       /\ Waited(there, Painted(NextTarget))
       /\ \/ there /\ Continue("prepare", "none")
          \/ ~there /\ pc = "next" /\ Continue("rehover", "none")
          \/ ~there /\ pc = "next2" /\ Continue("prepare", "hover")

PrepareUnless ==
  /\ At("prepare") /\ check.unless /\ Read /\ Quiet
  /\ "prepare" \in landed
  /\ Continue("until", "none")

Prepare ==
  /\ At("prepare")
  /\ check.unless => Read /\ "prepare" \notin landed
  /\ \E a \in Answers :
       /\ Ask("prepare", a)
       /\ \/ a = "ok" /\ Continue("until", "none")
          \/ a \in GaveUp /\ Stop("abandoned")
          \/ a \in {"refused", "lost"} /\ Continue("recover", "none")

\* A failed preparation exposes its target on the declared surface.
Recover ==
  /\ pc = "recover" /\ Read
  /\ \/ Quiet /\ Continue("linger", "prepare")  \* no surface
     \/ \E a \in Answers :
          /\ Ask("expand", a)
          /\ IF a = "lost" THEN Stop("abandoned") ELSE Continue("again", "none")

PrepareAgain ==
  /\ pc = "again"
  /\ \E a \in Answers :
       /\ Ask("prepare", a)
       /\ IF a = "ok" THEN Continue("until", "none")
          ELSE Continue("linger", Unprepared("prepare", a))

\* prepare_until: the precondition must be visible.
Until ==
  /\ At("until") /\ Read /\ Quiet
  /\ \E there \in BOOLEAN :
       /\ Waited(there, "prepare" \in landed)
       /\ Continue("pause", IF there THEN "none" ELSE "prepare")

\* The wait for the next target is not decisive, nor is prepare_wait_ms.
Pause == pc = "pause" /\ Read /\ Quiet /\ Continue("linger", error)

\* after_prepare_hover: a measured block for a pixel expectation.
Linger ==
  /\ At("linger")
  /\ \E a \in Answers, held \in BOOLEAN :
       /\ Ask("linger", a)
       /\ IF check.expect \in {"change", "hold"}
          THEN /\ pc' = "leak"
               /\ pixels' = IF a = "ok" /\ held THEN "ok" ELSE "failed"
               /\ UNCHANGED <<check, error, verdict, base, opening, todo>>
          ELSE /\ held
               /\ Continue("leak", IF a = "ok" THEN "none" ELSE Unprepared("linger", a))

\* Repeated hovers that leave extra copies of nodes fail the check.
Leak ==
  /\ At("leak") /\ Read /\ Quiet
  /\ \E leaked \in BOOLEAN : Continue("subject", IF leaked THEN "leak" ELSE "none")

\* The subject is scrolled into view before its pixels are taken.
RevealSubject ==
  /\ At("subject") /\ Quiet
  /\ \E shown \in BOOLEAN, a \in {"refused", "silent"} :
       /\ shown => Read
       /\ Continue("locate", IF shown THEN "none" ELSE Unprepared("subject", a))

\* The click target is resolved before the baseline and the outcome clock.
Locate ==
  /\ At("locate") /\ Quiet
  /\ \E found \in BOOLEAN, a \in {"refused", "silent"} :
       /\ found => Read /\ Painted("act")
       /\ Continue("baseline", IF found THEN "none" ELSE Unprepared("locate", a))

\* The baseline; a tree that is mostly dead nodes fails the check.
Baseline ==
  /\ pc = "baseline" /\ Read /\ Quiet
  /\ base' = landed /\ todo' = check.acts /\ pc' = "act"
  /\ error' \in {error, "bloated"}
  /\ pixels' \in IF error = "none" /\ Declared("subject") THEN {pixels, "failed"}
                 ELSE {pixels}
  /\ UNCHANGED <<check, verdict, opening>>

-----------------------------------------------------------------------------
(* The measured actions and the verdict.                                   *)

Act ==
  /\ pc = "act" /\ error = "none" /\ todo # <<>>
  /\ \E a \in Answers :
       /\ Ask(Head(todo), a)
       /\ todo' = Tail(todo)
       /\ error' = Undriven(a)
       /\ UNCHANGED <<check, pc, verdict, base, opening, pixels>>

\* A click refused as notInteractable was not carried out: the hover is
\* restored, and the target clicked once more.
NotInteractable ==
  /\ pc = "act" /\ error = "none" /\ todo # <<>> /\ Head(todo) = "click"
  /\ Ask("click", "refused")
  /\ Continue(IF check.hover > 0 THEN "restore" ELSE "reclick", "none")

Restore ==
  /\ pc = "restore"
  /\ \E a \in Answers :
       /\ Ask("hover", a)
       /\ Continue(IF a = "ok" THEN "reclick" ELSE "act", Undriven(a))

ClickCurrent ==
  /\ pc = "reclick"
  /\ \E a \in Answers :
       /\ Ask("click", a)
       /\ pc' = "act" /\ todo' = Tail(todo)
       /\ error' = Undriven(a)
       /\ UNCHANGED <<check, verdict, base, opening, pixels>>

\* What the declared expectation can be satisfied by; the subject of a
\* painted one need not be a target.
Satisfied ==
  CASE check.expect = "differs" -> landed # base
    [] check.expect = "paints" -> TRUE
    [] check.expect = "change" /\ ~check.linger -> pixels = "none" /\ landed # base
    [] check.expect \in {"change", "hold"} -> pixels = "ok"
    [] check.expect = "live" -> TRUE

\* transport_timed_out, for an expectation that is read off the tree.
Excused ==
  /\ error \in {"setupUnanswered", "actUnanswered"}
  /\ check.expect \in {"differs", "paints"}

\* The verdict: the rendered outcome decides when nothing failed, and when the
\* failure is an inspector that did not answer; any other error, a failed read
\* after the actions or the verdict budget make it a failure.
Judge ==
  /\ pc = "act" /\ Quiet
  /\ error # "none" \/ todo = <<>>
  /\ \/ /\ error = "none" \/ Excused
        /\ Read /\ Satisfied /\ Stop("pass")
     \/ Stop("fail")

-----------------------------------------------------------------------------
(* The page.                                                               *)

Render ==
  /\ pc # "done"
  /\ \E g \in flying : flying' = flying \ {g} /\ landed' = landed \cup {g}
  /\ UNCHANGED <<ran, acked, terminal>>
  /\ UNCHANGED <<check, pc, error, verdict, base, opening, todo, pixels>>

\* A virtualized row reconciles and loses the hover.
Reconcile ==
  /\ pc \in {"next", "locate", "act"} /\ "hover" \in landed
  /\ landed' = landed \ {"hover"}
  /\ UNCHANGED <<flying, ran, acked, terminal>>
  /\ UNCHANGED <<check, pc, error, verdict, base, opening, todo, pixels>>

Next ==
  \/ SkipStep \/ ReadFails
  \/ Navigate \/ Arrive \/ AlreadyThere \/ BeginOpening \/ FirstClick
  \/ ClickAgain \/ DoubleClick \/ GoHome \/ There
  \/ TypeSetup \/ ValueLands \/ Expand \/ Defer \/ RevealBeforeCapture
  \/ HoverUnless \/ Hover \/ HoverRest \/ NextAppears
  \/ PrepareUnless \/ Prepare \/ Recover \/ PrepareAgain \/ Until \/ Pause
  \/ Linger \/ Leak \/ RevealSubject \/ Locate \/ Baseline
  \/ Act \/ NotInteractable \/ Restore \/ ClickCurrent \/ Judge
  \/ Render \/ Reconcile

Spec == Init /\ [][Next]_vars

-----------------------------------------------------------------------------
(* A passing check has earned it.  Every gesture it declares was           *)
(* acknowledged (or its effect was already in front of the harness), none  *)
(* was dropped by a retry or a skipped step, and a comparing expectation   *)
(* saw the page differ from the baseline.  An inspector that did not answer*)
(* excuses less than it may seem: one action at most, and then the others  *)
(* were acknowledged or never carried out; or a step of the setup, and then*)
(* no action was carried out at all and what the setup rendered is judged. *)
SetupEarned ==
  /\ check.navigate => "navigate" \in acked \cap landed
  /\ check.open # "no" => "open" \in landed
  /\ check.setup => "setup" \in acked \cap landed
  /\ check.hover > 0 => check.unless \/ "hover" \in acked
  /\ check.prepare => check.unless \/ "prepare" \in acked
ActsEarned ==
  IF error = "none" THEN Range(check.acts) \subseteq acked
  ELSE \E g \in Range(check.acts) :
         \A h \in Range(check.acts) \ {g} : h \in acked \/ ran[h] = 0
PassIsEarned ==
  verdict = "pass" =>
    /\ \/ SetupEarned /\ ActsEarned
       \/ error = "setupUnanswered" /\ \A h \in Range(check.acts) : ran[h] = 0
    /\ check.expect = "differs" => landed # base

(* What a step of the setup waited for is in the baseline: a value, a      *)
(* route or a declared precondition that landed later would be measured as *)
(* the work of the action.                                                 *)
BaselineFollowsSetup ==
  pc \in {"act", "restore", "reclick"} /\ error = "none" =>
    /\ check.navigate => "navigate" \in base
    /\ check.open # "no" => "open" \in base
    /\ check.setup => "setup" \in base
    /\ check.prepare /\ check.until => "prepare" \in base

(* The page never carries out twice a gesture that is not idempotent (a    *)
(* preparation, an action), whatever the retries do.                       *)
CarriedOutOnce == \A g \in Acts \cup {"prepare", "setup", "navigate"} : ran[g] <= 1

-----------------------------------------------------------------------------
(* Why they hold: the inductive invariant of the body.                     *)

\* What a check declares, as validate_check leaves it: every kind of action
\* at most once (each is one optional field of Check, qa.rs 503).
ChecksAreWellFormed ==
  \A c \in Checks :
    /\ c.acts \in Seq(Acts)
    /\ \A i, j \in DOMAIN c.acts : c.acts[i] = c.acts[j] => i = j

Reaching == {"navigate", "arrive"}
Opening == Reaching \cup {"open", "opener", "there"}
Setting == Opening \cup {"setup", "value"}
Hovering == Setting \cup {"expand", "defer", "capture", "hover"}
Hovered == Hovering \cup {"hover2", "next", "rehover", "next2"}
Preparing == Hovered \cup {"prepare", "recover", "again"}
Prepared == Preparing \cup {"until"}
Measuring == {"act", "restore", "reclick"}
Before == Prepared \cup {"pause", "linger", "leak", "subject", "locate", "baseline"}

TypeOK ==
  /\ check \in Checks
  /\ pc \in Before \cup Measuring \cup {"done"}
  /\ todo \in Seq(Acts)
  /\ ran \in [Gestures -> 0..2]
  /\ terminal \in BOOLEAN
  /\ pc # "done" => verdict = "none"

\* The second and later requests of a step are made while nothing has failed,
\* and no action fails before one is driven.
InStep ==
  /\ pc \in {"arrive", "opener", "there", "value", "hover2", "rehover", "next2",
            "recover", "again", "restore", "reclick"} => error = "none"
  /\ pc \in Before => error \notin {"act", "actUnanswered"}

\* What each step has left behind, as long as nothing has failed.
Earned ==
  error = "none" /\ pc # "done" =>
    /\ check.navigate /\ pc # "navigate" => "navigate" \in acked
    /\ check.navigate /\ pc \notin Reaching => "navigate" \in landed
    /\ check.open # "no" /\ pc \notin Opening => "open" \in landed
    /\ check.setup /\ pc \notin Opening \cup {"setup"} => "setup" \in acked
    /\ check.setup /\ pc \notin Setting => "setup" \in landed
    /\ check.hover > 0 /\ pc \notin Hovering => check.unless \/ "hover" \in acked
    /\ check.prepare /\ pc \notin Preparing => check.unless \/ "prepare" \in acked
    /\ check.prepare /\ check.until /\ pc \notin Prepared => "prepare" \in landed

\* What the actions have left behind: of those driven, all were acknowledged
\* but the one that failed; after a failed setup none is driven.
Driving ==
  pc \in Measuring =>
    /\ Range(todo) \subseteq Range(check.acts)
    /\ error = "none" => Range(check.acts) \subseteq acked \cup Range(todo)
    /\ IF error \in {"none", "act", "actUnanswered"} THEN SetupEarned
       ELSE todo = check.acts
    /\ error \in {"act", "actUnanswered"} =>
         \E g \in Range(check.acts) : Range(check.acts) \subseteq acked \cup Range(todo) \cup {g}

\* What has not been asked for has not been carried out.
Unasked ==
  /\ pc = "navigate" => ran["navigate"] = 0
  /\ pc \in Opening \cup {"setup"} => ran["setup"] = 0
  /\ pc \in Hovered \cup {"prepare", "again"} => ran["prepare"] = 0
  /\ pc = "again" => ~terminal
  /\ pc = "recover" /\ ~terminal => ran["prepare"] = 0
  /\ pc \in Before => \A g \in Acts : ran[g] = 0
  /\ pc \in Measuring =>
       /\ \A i, j \in DOMAIN todo : todo[i] = todo[j] => i = j
       /\ \A i \in DOMAIN todo : ran[todo[i]] = 0
  /\ pc \in {"restore", "reclick"} => todo # <<>> /\ Head(todo) = "click"

BodyInv ==
  /\ TypeOK /\ InStep /\ Earned /\ Driving /\ Unasked
  /\ PassIsEarned /\ BaselineFollowsSetup /\ CarriedOutOnce
=============================================================================
