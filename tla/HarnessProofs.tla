---------------------------- MODULE HarnessProofs ----------------------------
(***************************************************************************)
(* What is proved of the parts of MCHarness, for every value of the        *)
(* constants it declares: that a passing check has earned it; that waits   *)
(* and WebGPU checks are honest; that suites and plans run as declared;    *)
(* that a counted surface is whole; that dead buttons fail; that the books *)
(* of a coverage run balance; the invariants of the suite loop, by way of  *)
(* QaSuiteProofs; and that the host processes leak nothing, by way of      *)
(* HostProcessesProofs.                                                    *)
(***************************************************************************)
EXTENDS MCHarness, TLAPS, FiniteSetTheorems

-----------------------------------------------------------------------------
(* The body of a check, proved here on the instance Check of CheckRun.     *)
(* The names of its variables, for the slots they are laid over, and the   *)
(* sets of its places are expanded in every proof.                         *)

check == s1
pc == s2
error == s3
verdict == s4
landed == s6
base == s7
ran == s8
acked == s9
opening == s10
todo == s11
terminal == s13

USE DEF check, pc, error, verdict, landed, base, ran, acked, opening, todo, terminal,
        Check!Reaching, Check!Opening, Check!Setting, Check!Hovering, Check!Hovered,
        Check!Preparing, Check!Prepared, Check!Measuring, Check!Before

\* What one request does to what the invariant counts: an "ok" is
\* acknowledged, a refused gesture and one of a terminal client are not
\* carried out, and every other gesture has been carried out as often as
\* before.
LEMMA RequestAsked ==
  ASSUME Check!TypeOK, NEW g \in Check!Gestures, NEW a \in Check!Answers, Check!Ask(g, a)
  PROVE  /\ ran' \in [Check!Gestures -> 0..2] /\ terminal' \in BOOLEAN /\ landed' = landed
         /\ \A h \in Check!Gestures : h # g => ran'[h] = ran[h]
         /\ ran[g] = 0 => ran'[g] <= 1
         /\ terminal \/ a = "refused" => ran' = ran
         /\ terminal' = (terminal \/ a = "lost")
         /\ acked \subseteq acked'
         /\ a = "ok" => g \in acked'
<1>1. PICK done \in BOOLEAN :
         /\ terminal \/ a = "refused" => done = FALSE
         /\ ran' = IF done /\ ran[g] < 2 THEN [ran EXCEPT ![g] = @ + 1] ELSE ran
         /\ acked' = IF a = "ok" THEN acked \cup {g} ELSE acked
         /\ terminal' = (terminal \/ a = "lost")
         /\ landed' = landed
    BY DEF Check!Ask, Check!Answers
<1>2. ran' \in [Check!Gestures -> 0..2] /\ terminal' \in BOOLEAN
    BY <1>1 DEF Check!TypeOK
<1>3. \A h \in Check!Gestures : h # g => ran'[h] = ran[h]
    BY <1>1 DEF Check!TypeOK
<1>4. ran[g] = 0 => ran'[g] <= 1
    BY <1>1 DEF Check!TypeOK
<1>5. terminal \/ a = "refused" => ran' = ran
    BY <1>1
<1> QED BY <1>1, <1>2, <1>3, <1>4, <1>5

\* Nothing is carried out twice when what must not be is asked for only
\* while it has not been carried out.
LEMMA AskedOnce ==
  ASSUME Check!TypeOK, Check!CarriedOutOnce, NEW g \in Check!Gestures,
         NEW a \in Check!Answers, Check!Ask(g, a),
         g \in Check!Acts \cup {"prepare", "setup", "navigate"} => ran[g] = 0
  PROVE  Check!CarriedOutOnce'
<1>1. /\ \A h \in Check!Gestures : h # g => ran'[h] = ran[h]
      /\ ran[g] = 0 => ran'[g] <= 1
      /\ ran \in [Check!Gestures -> 0..2] /\ ran' \in [Check!Gestures -> 0..2]
    BY RequestAsked DEF Check!TypeOK
<1>2. SUFFICES ASSUME NEW h \in Check!Acts \cup {"prepare", "setup", "navigate"}
               PROVE  ran'[h] <= 1
    BY DEF Check!CarriedOutOnce
<1>3. h \in Check!Gestures /\ ran[h] <= 1
    BY DEF Check!CarriedOutOnce, Check!Gestures
<1>4. CASE h = g
    BY <1>1, <1>4
<1>5. CASE h # g
    BY <1>1, <1>3, <1>5
<1> QED BY <1>4, <1>5

\* What is left to drive after the next action: a sequence of the others.
LEMMA RestOfTodo ==
  ASSUME NEW q \in Seq(Check!Acts), q # <<>>, \A i, j \in DOMAIN q : q[i] = q[j] => i = j
  PROVE  /\ Head(q) \in Check!Acts /\ Tail(q) \in Seq(Check!Acts) /\ Tail(q) # q
         /\ Head(q) = q[1] /\ 1 \in DOMAIN q
         /\ \A i, j \in DOMAIN Tail(q) : Tail(q)[i] = Tail(q)[j] => i = j
         /\ \A i \in DOMAIN Tail(q) : Tail(q)[i] \in Check!Acts /\ Tail(q)[i] # Head(q)
         /\ \A i \in DOMAIN Tail(q) : i + 1 \in DOMAIN q /\ Tail(q)[i] = q[i + 1]
         /\ Check!Range(q) = {Head(q)} \cup Check!Range(Tail(q))
<1>1. /\ Head(q) = q[1] /\ 1 \in DOMAIN q
      /\ Head(q) \in Check!Acts /\ Tail(q) \in Seq(Check!Acts)
      /\ \A i \in DOMAIN Tail(q) : i \in Nat /\ i + 1 \in DOMAIN q /\ Tail(q)[i] = q[i + 1]
    OBVIOUS
<1>2. \A i, j \in DOMAIN Tail(q) : Tail(q)[i] = Tail(q)[j] => i = j
    BY <1>1
<1>3. \A i \in DOMAIN Tail(q) : Tail(q)[i] \in Check!Acts /\ Tail(q)[i] # Head(q)
  <2> SUFFICES ASSUME NEW i \in DOMAIN Tail(q)
               PROVE  Tail(q)[i] \in Check!Acts /\ Tail(q)[i] # Head(q)
      OBVIOUS
  <2>1. i \in Nat /\ i \in 1..Len(Tail(q)) /\ i + 1 # 1
      BY <1>1
  <2> QED BY <1>1, <2>1
<1>4. Check!Range(q) = {Head(q)} \cup Check!Range(Tail(q))
  <2>1. \A i \in DOMAIN q : i = 1 \/ (i - 1 \in DOMAIN Tail(q) /\ Tail(q)[i - 1] = q[i])
      OBVIOUS
  <2>2. ASSUME NEW i \in DOMAIN q PROVE q[i] \in {Head(q)} \cup Check!Range(Tail(q))
      <3>1. CASE i = 1
          BY <1>1, <3>1
      <3>2. CASE i # 1
          BY <2>1, <3>2 DEF Check!Range
      <3> QED BY <3>1, <3>2
  <2>3. {Head(q)} \cup Check!Range(Tail(q)) \subseteq Check!Range(q)
      BY <1>1 DEF Check!Range
  <2> QED BY <2>2, <2>3 DEF Check!Range
<1>5. Tail(q) # q
    OBVIOUS
<1> QED BY <1>1, <1>2, <1>3, <1>4, <1>5

LEMMA BodyInitInv == Check!Init => Check!BodyInv
<1> SUFFICES ASSUME Check!Init PROVE Check!BodyInv
    OBVIOUS
<1>1. Check!TypeOK
  <2>1. <<>> \in Seq(Check!Acts) /\ ran \in [Check!Gestures -> 0..2]
      BY DEF Check!Init
  <2> QED BY <2>1 DEF Check!Init, Check!TypeOK
<1>2. Check!Unasked
    BY DEF Check!Init, Check!Unasked, Check!Gestures, Check!Acts
<1>3. Check!CarriedOutOnce
    BY DEF Check!Init, Check!CarriedOutOnce, Check!Gestures
<1>4. /\ Check!InStep /\ Check!Earned /\ Check!Driving /\ Check!PassIsEarned
      /\ Check!BaselineFollowsSetup
    BY DEF Check!Init, Check!InStep, Check!Earned, Check!Driving, Check!PassIsEarned,
       Check!BaselineFollowsSetup
<1> QED BY <1>1, <1>2, <1>3, <1>4 DEF Check!BodyInv

-----------------------------------------------------------------------------
(* The steps before the measured actions.  A step looks, or it asks for    *)
(* one gesture; either way it goes on to a later step or ends the check.   *)

\* A step that goes on without reaching back: a place from which the setup
\* or the preparation is still to be asked for is left for another of them.
GoesOn ==
  /\ pc \in Check!Before /\ pc' \in Check!Before
  /\ UNCHANGED <<check, base, todo, verdict>>
  /\ pc' # "navigate"
  /\ pc' \in Check!Opening \cup {"setup"} => pc \in Check!Opening \cup {"setup"}
  /\ pc' \in Check!Hovered \cup {"prepare"} => pc \in Check!Hovered \cup {"prepare"}

EndsHere ==
  /\ pc \in Check!Before /\ pc' = "done" /\ verdict' # "pass"
  /\ UNCHANGED <<check, base, todo>>

LEMMA Onward ==
  ASSUME Check!BodyInv, GoesOn \/ EndsHere,
         ran' \in [Check!Gestures -> 0..2], terminal' \in BOOLEAN,
         Check!InStep', Check!Earned', Check!Unasked', Check!CarriedOutOnce'
  PROVE  Check!BodyInv'
<1>1. Check!TypeOK'
    BY DEF Check!BodyInv, Check!TypeOK, GoesOn, EndsHere
<1>2. Check!PassIsEarned' /\ Check!BaselineFollowsSetup' /\ Check!Driving'
    BY DEF Check!BodyInv, Check!TypeOK, Check!PassIsEarned, Check!BaselineFollowsSetup,
       Check!Driving, GoesOn, EndsHere
<1> QED BY <1>1, <1>2 DEF Check!BodyInv

LEMMA OnwardLooking ==
  ASSUME Check!BodyInv, GoesOn, Check!Quiet, pc' \notin {"recover", "again"},
         Check!InStep', Check!Earned'
  PROVE  Check!BodyInv'
<1>1. ran' = ran /\ terminal' = terminal
    BY DEF Check!Quiet, Check!page
<1>2. Check!Unasked'
    BY <1>1 DEF Check!BodyInv, Check!Unasked, GoesOn
<1>3. Check!CarriedOutOnce' /\ ran' \in [Check!Gestures -> 0..2] /\ terminal' \in BOOLEAN
    BY <1>1 DEF Check!BodyInv, Check!TypeOK, Check!CarriedOutOnce
<1> QED BY <1>2, <1>3, Onward

\* A step that asks for g: the setup and the preparation are asked for where
\* they have not been carried out, and not from where they still may be.
Asks(g) ==
  \E a \in Check!Answers :
    /\ Check!Ask(g, a)
    /\ GoesOn \/ EndsHere
    /\ g = "setup" => pc' \notin Check!Opening \cup {"setup"}
    /\ g = "prepare" => pc' \notin Check!Hovered \cup {"prepare", "again"}
    /\ pc' = "recover" => pc = "prepare" /\ a \in {"refused", "lost"}
    /\ pc' = "again" => pc = "recover" /\ a # "lost" /\ ~terminal

LEMMA OnwardAsking ==
  ASSUME Check!BodyInv, NEW g \in Check!Gestures \ Check!Acts, Asks(g), Check!InStep',
         Check!Earned',
         g \in {"navigate", "setup", "prepare"} => ran[g] = 0
  PROVE  Check!BodyInv'
<1>1. PICK a \in Check!Answers :
        /\ Check!Ask(g, a)
        /\ GoesOn \/ EndsHere
        /\ g = "setup" => pc' \notin Check!Opening \cup {"setup"}
        /\ g = "prepare" => pc' \notin Check!Hovered \cup {"prepare", "again"}
        /\ pc' = "recover" => pc = "prepare" /\ a \in {"refused", "lost"}
        /\ pc' = "again" => pc = "recover" /\ a # "lost" /\ ~terminal
    BY DEF Asks
<1>2. /\ ran' \in [Check!Gestures -> 0..2] /\ terminal' \in BOOLEAN
      /\ \A h \in Check!Gestures : h # g => ran'[h] = ran[h]
      /\ a = "refused" => ran' = ran
      /\ terminal' = (terminal \/ a = "lost")
    BY <1>1, RequestAsked DEF Check!BodyInv
<1>3. Check!CarriedOutOnce'
    BY <1>1, AskedOnce DEF Check!BodyInv
<1>4. Check!Unasked'
  <2>1. {"navigate", "setup", "prepare"} \cup Check!Acts \subseteq Check!Gestures
      BY DEF Check!Gestures
  <2>2. pc' # "navigate" /\ pc' \notin Check!Measuring
      BY <1>1 DEF GoesOn, EndsHere
  <2>3. pc' \in Check!Opening \cup {"setup"} => ran'["setup"] = 0
      BY <1>1, <1>2, <2>1 DEF Check!BodyInv, Check!Unasked, GoesOn, EndsHere
  <2>4. pc' \in Check!Hovered \cup {"prepare"} => ran'["prepare"] = 0
      BY <1>1, <1>2, <2>1 DEF Check!BodyInv, Check!Unasked, GoesOn, EndsHere
  <2>5. pc' = "again" => ~terminal' /\ ran'["prepare"] = 0
      BY <1>1, <1>2, <2>1 DEF Check!BodyInv, Check!Unasked
  <2>6. pc' = "recover" /\ ~terminal' => ran'["prepare"] = 0
      BY <1>1, <1>2, <2>1 DEF Check!BodyInv, Check!Unasked
  <2>7. \A h \in Check!Acts : ran'[h] = 0
      BY <1>1, <1>2, <2>1 DEF Check!BodyInv, Check!Unasked, GoesOn, EndsHere
  <2> QED BY <2>2, <2>3, <2>4, <2>5, <2>6, <2>7 DEF Check!Unasked
<1> QED BY <1>1, <1>2, <1>3, <1>4, Onward

\* A step that is not declared, or comes after a failure, is passed over.
LEMMA SkippingInv == ASSUME Check!BodyInv, Check!SkipStep PROVE Check!BodyInv'
<1>1. pc \in {"navigate", "open", "setup", "capture", "hover", "next", "prepare", "until",
              "linger", "leak", "subject", "locate"}
    BY DEF Check!SkipStep, Check!After
<1>2. /\ Check!Quiet /\ pc' = Check!After[pc]
      /\ UNCHANGED <<error, check, base, todo, verdict>>
      /\ ~Check!Declared(pc) \/ error # "none"
    BY DEF Check!SkipStep, Check!Continue
<1>3. /\ Check!After["navigate"] = "open" /\ Check!After["open"] = "setup"
      /\ Check!After["setup"] = "expand" /\ Check!After["capture"] = "hover"
      /\ Check!After["hover"] = "prepare" /\ Check!After["next"] = "prepare"
      /\ Check!After["prepare"] = "linger" /\ Check!After["until"] = "pause"
      /\ Check!After["linger"] = "leak" /\ Check!After["leak"] = "subject"
      /\ Check!After["subject"] = "locate" /\ Check!After["locate"] = "baseline"
    BY DEF Check!After
<1>4. GoesOn /\ pc' \notin {"recover", "again"}
    BY <1>1, <1>2, <1>3 DEF GoesOn
<1>5. Check!InStep'
    <2>1. pc' \notin {"arrive", "opener", "there", "value", "hover2", "rehover", "next2",
                     "recover", "again", "restore", "reclick"}
        <3>1. pc' \in {"open", "setup", "expand", "hover", "prepare", "linger", "pause", "leak",
                      "subject", "locate", "baseline"}
            BY <1>1, <1>2, <1>3
        <3> QED BY <3>1
    <2>2. error' \notin {"act", "actUnanswered"}
        BY <1>1, <1>2 DEF Check!BodyInv, Check!InStep
    <2> QED BY <2>1, <2>2 DEF Check!InStep
<1>6. Check!Earned'
    <2> SUFFICES ASSUME error' = "none" PROVE Check!Earned'
        BY DEF Check!Earned
    <2>1. error = "none" /\ ~Check!Declared(pc) /\ acked' = acked /\ landed' = landed
        BY <1>2 DEF Check!Quiet, Check!page
    <2>2. /\ check.navigate /\ pc' # "navigate" => "navigate" \in acked
          /\ check.navigate /\ pc' \notin Check!Reaching => "navigate" \in landed
        BY <1>1, <1>2, <1>3, <2>1 DEF Check!BodyInv, Check!Earned, Check!Declared
    <2>3. /\ check.open # "no" /\ pc' \notin Check!Opening => "open" \in landed
          /\ check.setup /\ pc' \notin Check!Opening \cup {"setup"} => "setup" \in acked
        BY <1>1, <1>2, <1>3, <2>1 DEF Check!BodyInv, Check!Earned, Check!Declared
    <2>4. /\ check.setup /\ pc' \notin Check!Setting => "setup" \in landed
          /\ check.hover > 0 /\ pc' \notin Check!Hovering => check.unless \/ "hover" \in acked
        BY <1>1, <1>2, <1>3, <2>1 DEF Check!BodyInv, Check!Earned, Check!Declared
    <2>5. check.prepare /\ pc' \notin Check!Preparing => check.unless \/ "prepare" \in acked
        BY <1>1, <1>2, <1>3, <2>1 DEF Check!BodyInv, Check!Earned, Check!Declared
    <2>6. check.prepare /\ check.until /\ pc' \notin Check!Prepared => "prepare" \in landed
        BY <1>1, <1>2, <1>3, <2>1 DEF Check!BodyInv, Check!Earned, Check!Declared
    <2> QED BY <1>2, <2>1, <2>2, <2>3, <2>4, <2>5, <2>6 DEF Check!Earned
<1> QED BY <1>2, <1>4, <1>5, <1>6, OnwardLooking

\* A failed read abandons the check.
LEMMA ReadFailsInv == ASSUME Check!BodyInv, Check!ReadFails PROVE Check!BodyInv'
<1>1. EndsHere /\ ran' = ran /\ terminal' \in BOOLEAN
    BY DEF Check!ReadFails, Check!Reading, Check!Stop, Check!BodyInv, Check!TypeOK,
       EndsHere
<1>2. Check!InStep' /\ Check!Earned' /\ Check!Unasked'
    BY <1>1 DEF EndsHere, Check!InStep, Check!Earned, Check!Unasked
<1>3. Check!CarriedOutOnce' /\ ran' \in [Check!Gestures -> 0..2]
    BY <1>1 DEF Check!BodyInv, Check!CarriedOutOnce, Check!TypeOK
<1> QED BY <1>1, <1>2, <1>3, Onward

\* The waits of reaching the surface.
LEMMA ReachedInv ==
  ASSUME Check!BodyInv, Check!Arrive \/ Check!AlreadyThere \/ Check!BeginOpening
         \/ Check!There
  PROVE  Check!BodyInv'
<1>1. GoesOn /\ Check!Quiet /\ pc' \notin {"recover", "again"}
    BY DEF GoesOn, Check!Arrive, Check!AlreadyThere, Check!BeginOpening, Check!There,
       Check!At, Check!Continue, Check!Attempt
<1>2. Check!InStep' /\ Check!Earned'
    BY DEF Check!BodyInv, Check!InStep, Check!Earned, Check!Arrive, Check!AlreadyThere,
       Check!BeginOpening, Check!There, Check!At, Check!Declared, Check!Continue,
       Check!Attempt, Check!Waited, Check!Quiet, Check!page
<1> QED BY <1>1, <1>2, OnwardLooking

\* The waits of establishing the precondition.
LEMMA ShownInv ==
  ASSUME Check!BodyInv, Check!ValueLands \/ Check!RevealBeforeCapture \/ Check!HoverUnless
         \/ Check!NextAppears
  PROVE  Check!BodyInv'
<1>1. GoesOn /\ Check!Quiet /\ pc' \notin {"recover", "again"}
    BY DEF GoesOn, Check!ValueLands, Check!RevealBeforeCapture, Check!HoverUnless,
       Check!NextAppears, Check!At, Check!Continue, Check!Attempt
<1>2. Check!InStep' /\ Check!Earned'
    BY DEF Check!BodyInv, Check!InStep, Check!Earned, Check!Unprepared,
           Check!ValueLands,
       Check!RevealBeforeCapture, Check!HoverUnless, Check!NextAppears, Check!At,
       Check!Declared, Check!Continue, Check!Attempt, Check!Waited, Check!Quiet,
       Check!page
<1> QED BY <1>1, <1>2, OnwardLooking

\* The waits from the preparation to the baseline.
LEMMA PreparedInv ==
  ASSUME Check!BodyInv, Check!PrepareUnless \/ Check!Until \/ Check!Pause \/ Check!Leak
         \/ Check!RevealSubject \/ Check!Locate
  PROVE  Check!BodyInv'
<1>1. GoesOn /\ Check!Quiet /\ pc' \notin {"recover", "again"}
    BY DEF GoesOn, Check!PrepareUnless, Check!Until, Check!Pause, Check!Leak,
       Check!RevealSubject, Check!Locate, Check!At, Check!Continue, Check!Attempt
<1>2. Check!InStep' /\ Check!Earned'
    BY DEF Check!BodyInv, Check!InStep, Check!Earned, Check!Unprepared,
           Check!PrepareUnless, Check!Until,
       Check!Pause, Check!Leak, Check!RevealSubject, Check!Locate, Check!At,
       Check!Declared, Check!Continue, Check!Attempt, Check!Waited, Check!Quiet,
       Check!page
<1> QED BY <1>1, <1>2, OnwardLooking

\* The gestures of reaching the surface.
LEMMA ReachingInv ==
  ASSUME Check!BodyInv, Check!Navigate \/ Check!FirstClick \/ Check!ClickAgain
         \/ Check!DoubleClick \/ Check!GoHome
  PROVE  Check!BodyInv'
<1>0. {"navigate", "open", "home"} \subseteq Check!Gestures \ Check!Acts
    BY DEF Check!Gestures, Check!Acts
<1>1. CASE Check!Navigate
    <2>1. Asks("navigate")
        BY <1>1 DEF Asks, GoesOn, EndsHere, Check!Navigate, Check!At, Check!Answers, Check!GaveUp,
           Check!BodyInv, Check!TypeOK, Check!Continue, Check!Attempt, Check!Stop
    <2>2. Check!InStep' /\ Check!Earned'
        BY <1>1 DEF Check!BodyInv, Check!InStep, Check!Earned, Check!Unprepared,
           Check!Navigate, Check!At,
           Check!Declared, Check!Ask, Check!Continue, Check!Attempt, Check!Stop
    <2>3. ran["navigate"] = 0
        BY <1>1 DEF Check!BodyInv, Check!Unasked, Check!Navigate, Check!At
    <2> QED BY <1>0, <2>1, <2>2, <2>3, OnwardAsking
<1>2. CASE Check!FirstClick \/ Check!ClickAgain \/ Check!DoubleClick
    <2>1. Asks("open")
        BY <1>2 DEF Asks, GoesOn, EndsHere, Check!FirstClick, Check!ClickAgain,
           Check!DoubleClick, Check!At, Check!Answers, Check!GaveUp, Check!BodyInv, Check!TypeOK,
           Check!Continue, Check!Attempt, Check!Stop
    <2>2. Check!InStep' /\ Check!Earned'
        BY <1>2 DEF Check!BodyInv, Check!InStep, Check!Earned, Check!Unprepared,
           Check!FirstClick,
           Check!ClickAgain, Check!DoubleClick, Check!At, Check!Declared, Check!Ask,
           Check!Continue, Check!Attempt, Check!Stop
    <2> QED BY <1>0, <2>1, <2>2, OnwardAsking
<1>3. CASE Check!GoHome
    <2>1. Asks("home")
        BY <1>3 DEF Asks, GoesOn, EndsHere, Check!GoHome, Check!At, Check!Answers, Check!GaveUp,
           Check!BodyInv, Check!TypeOK, Check!Continue, Check!Attempt, Check!Stop
    <2>2. Check!InStep' /\ Check!Earned'
        BY <1>3 DEF Check!BodyInv, Check!InStep, Check!Earned, Check!Unprepared,
           Check!GoHome, Check!At,
           Check!Declared, Check!Ask, Check!Continue, Check!Attempt, Check!Stop
    <2> QED BY <1>0, <2>1, <2>2, OnwardAsking
<1> QED BY <1>1, <1>2, <1>3

\* The gestures that establish the precondition.
LEMMA PreparingInv ==
  ASSUME Check!BodyInv, Check!TypeSetup \/ Check!Hover \/ Check!HoverRest \/ Check!Prepare
         \/ Check!PrepareAgain \/ Check!Linger
  PROVE  Check!BodyInv'
<1>0. {"setup", "hover", "prepare", "linger"} \subseteq Check!Gestures \ Check!Acts
    BY DEF Check!Gestures, Check!Acts
<1>1. CASE Check!TypeSetup
    <2>1. Asks("setup")
        BY <1>1 DEF Asks, GoesOn, EndsHere, Check!TypeSetup, Check!At, Check!Answers, Check!GaveUp,
           Check!BodyInv, Check!TypeOK, Check!Continue, Check!Attempt, Check!Stop
    <2>2. Check!InStep' /\ Check!Earned'
        BY <1>1 DEF Check!BodyInv, Check!InStep, Check!Earned, Check!Unprepared,
           Check!TypeSetup,
           Check!At, Check!Declared, Check!Ask, Check!Continue, Check!Attempt,
           Check!Stop
    <2>3. ran["setup"] = 0
        BY <1>1 DEF Check!BodyInv, Check!Unasked, Check!TypeSetup, Check!At
    <2> QED BY <1>0, <2>1, <2>2, <2>3, OnwardAsking
<1>2. CASE Check!Hover \/ Check!HoverRest
    <2>1. Asks("hover")
        BY <1>2 DEF Asks, GoesOn, EndsHere, Check!Hover, Check!HoverRest, Check!At,
           Check!Answers, Check!GaveUp, Check!BodyInv, Check!TypeOK, Check!Continue, Check!Attempt,
           Check!Stop
    <2>2. Check!InStep' /\ Check!Earned'
        BY <1>2 DEF Check!BodyInv, Check!InStep, Check!Earned, Check!Unprepared,
           Check!Hover,
           Check!HoverRest, Check!At, Check!Declared, Check!Ask, Check!Continue,
           Check!Attempt, Check!Stop
    <2> QED BY <1>0, <2>1, <2>2, OnwardAsking
<1>3. CASE Check!Prepare \/ Check!PrepareAgain
    <2>1. Asks("prepare")
        BY <1>3 DEF Asks, GoesOn, EndsHere, Check!Prepare, Check!PrepareAgain, Check!At,
           Check!Answers, Check!GaveUp, Check!BodyInv, Check!TypeOK, Check!Continue, Check!Attempt,
           Check!Stop
    <2>2. Check!InStep'
        BY <1>3 DEF Check!BodyInv, Check!InStep, Check!Unprepared, Check!Prepare,
           Check!PrepareAgain,
           Check!At, Check!Continue, Check!Stop
    <2>3. Check!Earned'
        BY <1>3 DEF Check!BodyInv, Check!InStep, Check!Earned, Check!Unprepared,
           Check!Prepare,
           Check!PrepareAgain, Check!At, Check!Declared, Check!Ask, Check!Continue,
           Check!Stop
    <2>4. ran["prepare"] = 0
        BY <1>3 DEF Check!BodyInv, Check!Unasked, Check!Prepare, Check!PrepareAgain,
           Check!At
    <2> QED BY <1>0, <2>1, <2>2, <2>3, <2>4, OnwardAsking
<1>4. CASE Check!Linger
    <2>1. Asks("linger")
        BY <1>4 DEF Asks, GoesOn, EndsHere, Check!Linger, Check!At, Check!Answers, Check!GaveUp,
           Check!BodyInv, Check!TypeOK, Check!Continue, Check!Attempt, Check!Stop
    <2>2. Check!InStep' /\ Check!Earned'
        BY <1>4 DEF Check!BodyInv, Check!InStep, Check!Earned, Check!Unprepared,
           Check!Linger, Check!At,
           Check!Declared, Check!Ask, Check!Continue, Check!Attempt, Check!Stop
    <2> QED BY <1>0, <2>1, <2>2, OnwardAsking
<1> QED BY <1>1, <1>2, <1>3, <1>4

\* The expansions and the deferred reveal, which may have nothing to ask for.
LEMMA ExposingInv ==
  ASSUME Check!BodyInv, Check!Expand \/ Check!Defer \/ Check!Recover
  PROVE  Check!BodyInv'
<1>0. {"expand", "reveal"} \subseteq Check!Gestures \ Check!Acts
    BY DEF Check!Gestures, Check!Acts
<1>1. Check!InStep'
    BY DEF Check!BodyInv, Check!InStep, Check!Unprepared, Check!Expand, Check!Defer, Check!Recover,
       Check!Continue, Check!Stop
<1>2. Check!Earned'
    <2>1. CASE Check!Expand
        BY <2>1 DEF Check!BodyInv, Check!Earned, Check!Expand, Check!Ask, Check!Quiet,
           Check!page, Check!Continue, Check!Stop
    <2>2. CASE Check!Defer \/ Check!Recover
        BY <2>2 DEF Check!BodyInv, Check!InStep, Check!Earned, Check!Unprepared,
           Check!Defer,
           Check!Recover, Check!Ask, Check!Quiet, Check!page, Check!Continue, Check!Stop
    <2> QED BY <2>1, <2>2
<1>3. \/ GoesOn /\ Check!Quiet /\ pc' \notin {"recover", "again"}
      \/ Asks("expand") \/ Asks("reveal")
    BY DEF Asks, GoesOn, EndsHere, Check!Expand, Check!Defer, Check!Recover, Check!Read,
       Check!Answers, Check!GaveUp, Check!BodyInv, Check!TypeOK, Check!Continue, Check!Stop
<1> QED BY <1>0, <1>1, <1>2, <1>3, OnwardLooking, OnwardAsking

-----------------------------------------------------------------------------
(* The baseline, the measured actions, the verdict and the page.           *)

LEMMA Undecided == Check!BodyInv /\ pc # "done" => verdict = "none"
BY DEF Check!BodyInv, Check!TypeOK

\* With the baseline every declared action is still to be driven, and none
\* has been; what the setup waited for is in it.
LEMMA BaselineInv == ASSUME Check!BodyInv, Check!Baseline PROVE Check!BodyInv'
<1>1. /\ pc = "baseline" /\ pc' = "act" /\ base' = landed /\ todo' = check.acts
      /\ error' \in {error, "bloated"} /\ UNCHANGED <<check, verdict>>
      /\ ran' = ran /\ terminal' = terminal /\ acked' = acked /\ landed' = landed
    BY DEF Check!Baseline, Check!Quiet, Check!page
<1>2. /\ check \in DeclaredChecks /\ check.acts \in Seq(Check!Acts)
      /\ \A i, j \in DOMAIN check.acts : check.acts[i] = check.acts[j] => i = j
    BY DeclaredShapes DEF Check!BodyInv, Check!TypeOK, Check!ChecksAreWellFormed
<1>3. Check!TypeOK' /\ Check!InStep' /\ Check!CarriedOutOnce'
    BY <1>1, <1>2 DEF Check!BodyInv, Check!TypeOK, Check!InStep, Check!CarriedOutOnce
<1>4. Check!Earned' /\ Check!BaselineFollowsSetup'
    <2> SUFFICES ASSUME error' = "none" PROVE Check!Earned' /\ Check!BaselineFollowsSetup'
        BY DEF Check!Earned, Check!BaselineFollowsSetup
    <2>1. error = "none"
        BY <1>1
    <2>2. Check!Earned'
        BY <1>1, <2>1 DEF Check!BodyInv, Check!Earned
    <2>3. Check!BaselineFollowsSetup'
        BY <1>1, <2>1 DEF Check!BodyInv, Check!Earned, Check!BaselineFollowsSetup
    <2> QED BY <2>2, <2>3
<1>5. Check!Unasked'
    <2>1. \A i \in DOMAIN check.acts :
            check.acts[i] \in Check!Acts /\ ran[check.acts[i]] = 0
        BY <1>1, <1>2 DEF Check!BodyInv, Check!Unasked
    <2> QED BY <1>1, <1>2, <2>1 DEF Check!Unasked
<1>6. Check!PassIsEarned'
    BY <1>1, Undecided DEF Check!PassIsEarned
<1>7. Check!Driving'
    <2>1. error' \notin {"act", "actUnanswered"}
        BY <1>1 DEF Check!BodyInv, Check!InStep
    <2>2. error' = "none" => Check!SetupEarned'
        BY <1>1 DEF Check!BodyInv, Check!Earned, Check!SetupEarned
    <2> QED BY <1>1, <2>1, <2>2 DEF Check!Driving
<1> QED BY <1>3, <1>4, <1>5, <1>6, <1>7 DEF Check!BodyInv

\* The next declared action is asked for, once: it had not been carried out,
\* and the driving goes on only when it is acknowledged.
LEMMA Driven ==
  ASSUME Check!BodyInv, NEW a \in Check!Answers, Check!Ask(Head(todo), a), todo # <<>>,
         todo' = Tail(todo),
         pc \in Check!Measuring, pc' = "act", error = "none",
         error' = Check!Undriven(a), UNCHANGED <<check, base, verdict>>
  PROVE  Check!BodyInv'
<1> DEFINE g == Head(todo)
<1>1. /\ todo \in Seq(Check!Acts) /\ \A i, j \in DOMAIN todo : todo[i] = todo[j] => i = j
      /\ \A i \in DOMAIN todo : ran[todo[i]] = 0
    BY DEF Check!BodyInv, Check!TypeOK, Check!Unasked
<1>2. /\ g \in Check!Acts /\ Tail(todo) \in Seq(Check!Acts)
      /\ g = todo[1] /\ 1 \in DOMAIN todo
      /\ \A i, j \in DOMAIN Tail(todo) : Tail(todo)[i] = Tail(todo)[j] => i = j
      /\ \A i \in DOMAIN Tail(todo) : Tail(todo)[i] \in Check!Acts /\ Tail(todo)[i] # g
      /\ \A i \in DOMAIN Tail(todo) : i + 1 \in DOMAIN todo /\ Tail(todo)[i] = todo[i + 1]
      /\ Check!Range(todo) = {g} \cup Check!Range(Tail(todo))
    BY <1>1, RestOfTodo
<1>3. g \in Check!Gestures /\ ran[g] = 0 /\ Check!Acts \subseteq Check!Gestures
    BY <1>1, <1>2 DEF Check!Gestures
<1> HIDE DEF g
<1>4. Check!Ask(g, a)
    BY DEF g
<1>5. /\ ran' \in [Check!Gestures -> 0..2] /\ terminal' \in BOOLEAN /\ landed' = landed
      /\ \A h \in Check!Gestures : h # g => ran'[h] = ran[h]
      /\ acked \subseteq acked'
      /\ a = "ok" => g \in acked'
    BY <1>3, <1>4, RequestAsked DEF Check!BodyInv
<1>6. Check!CarriedOutOnce'
    BY <1>3, <1>4, AskedOnce DEF Check!BodyInv
<1>7. Check!TypeOK' /\ Check!InStep'
    BY <1>2, <1>5 DEF Check!BodyInv, Check!TypeOK, Check!InStep
<1>8. Check!Earned' /\ Check!Driving'
    <2>1. Check!Earned'
        BY <1>5 DEF Check!BodyInv, Check!Earned
    <2>2. /\ Check!Range(check.acts) \subseteq acked \cup Check!Range(todo)
          /\ Check!Range(todo) \subseteq Check!Range(check.acts)
          /\ Check!SetupEarned
        BY DEF Check!BodyInv, Check!Driving
    <2>3. /\ g \in Check!Range(check.acts)
          /\ Check!Range(todo') \subseteq Check!Range(check.acts)
          /\ Check!Range(check.acts) \subseteq acked' \cup Check!Range(todo') \cup {g}
          /\ a = "ok" => Check!Range(check.acts) \subseteq acked' \cup Check!Range(todo')
        BY <1>2, <1>5, <2>2
    <2>4. Check!SetupEarned'
        BY <1>5, <2>2 DEF Check!SetupEarned
    <2>5. /\ error' \in {"none", "act", "actUnanswered"}
          /\ error' = "none" => a = "ok"
        BY DEF Check!Undriven
    <2> QED BY <2>1, <2>3, <2>4, <2>5 DEF Check!Driving
<1>9. Check!Unasked'
    <2>1. \A i, j \in DOMAIN todo' : todo'[i] = todo'[j] => i = j
        BY <1>2
    <2>2. \A i \in DOMAIN todo' : ran'[todo'[i]] = 0
        BY <1>1, <1>2, <1>3, <1>5
    <2> QED BY <2>1, <2>2 DEF Check!Unasked
<1>10. Check!PassIsEarned' /\ Check!BaselineFollowsSetup'
    BY Undecided DEF Check!BodyInv, Check!PassIsEarned, Check!BaselineFollowsSetup
<1> QED BY <1>6, <1>7, <1>8, <1>9, <1>10 DEF Check!BodyInv

\* A refused click, or the hover restored for it, drives no action: the click
\* is still to do.
LEMMA Retried ==
  ASSUME Check!BodyInv, NEW g \in {"click", "hover"}, NEW a \in Check!Answers,
         Check!Ask(g, a),
         g = "click" => a = "refused", todo # <<>>, Head(todo) = "click",
         pc \in Check!Measuring, pc' \in Check!Measuring, error = "none",
         pc' # "act" => error' = "none", error' \in {"none", "act", "actUnanswered"},
         UNCHANGED <<check, base, verdict, todo>>
  PROVE  Check!BodyInv'
<1>1. /\ g \in Check!Gestures /\ Check!Acts \subseteq Check!Gestures
      /\ "hover" \notin Check!Acts
      /\ "hover" \notin {"prepare", "setup", "navigate"}
    BY DEF Check!Gestures, Check!Acts
<1>2. /\ ran' \in [Check!Gestures -> 0..2] /\ terminal' \in BOOLEAN /\ landed' = landed
      /\ \A h \in Check!Gestures : h # g => ran'[h] = ran[h]
      /\ a = "refused" => ran' = ran
      /\ acked \subseteq acked'
    BY <1>1, RequestAsked DEF Check!BodyInv
<1>3. \A h \in Check!Acts \cup {"prepare", "setup", "navigate"} : ran'[h] = ran[h]
    BY <1>1, <1>2 DEF Check!Gestures
<1>4. Check!TypeOK' /\ Check!InStep'
    BY <1>2 DEF Check!BodyInv, Check!TypeOK, Check!InStep
<1>5. Check!Earned' /\ Check!Driving'
    <2>1. Check!Earned'
        BY <1>2 DEF Check!BodyInv, Check!Earned
    <2>2. /\ Check!Range(check.acts) \subseteq acked \cup Check!Range(todo)
          /\ Check!Range(todo) \subseteq Check!Range(check.acts)
          /\ Check!SetupEarned
        BY DEF Check!BodyInv, Check!Driving
    <2>3. Check!SetupEarned'
        BY <1>2, <2>2 DEF Check!SetupEarned
    <2>4. \E h \in Check!Range(check.acts) : TRUE
        <3>1. Head(todo) \in Check!Range(todo)
            BY RestOfTodo DEF Check!BodyInv, Check!TypeOK, Check!Unasked
        <3> QED BY <2>2, <3>1
    <2>5. Check!Range(check.acts) \subseteq acked' \cup Check!Range(todo')
        BY <1>2, <2>2
    <2> QED BY <2>1, <2>2, <2>3, <2>4, <2>5 DEF Check!Driving
<1>6. Check!Unasked'
    <2>1. \A i \in DOMAIN todo : todo[i] \in Check!Acts /\ ran'[todo[i]] = ran[todo[i]]
        BY <1>3 DEF Check!BodyInv, Check!TypeOK
    <2> QED BY <2>1 DEF Check!BodyInv, Check!Unasked
<1>7. Check!CarriedOutOnce'
    BY <1>3 DEF Check!BodyInv, Check!CarriedOutOnce
<1>8. Check!PassIsEarned' /\ Check!BaselineFollowsSetup'
    BY Undecided DEF Check!BodyInv, Check!PassIsEarned, Check!BaselineFollowsSetup
<1> QED BY <1>4, <1>5, <1>6, <1>7, <1>8 DEF Check!BodyInv

LEMMA ActingInv ==
  ASSUME Check!BodyInv, Check!Act \/ Check!NotInteractable \/ Check!Restore
         \/ Check!ClickCurrent
  PROVE  Check!BodyInv'
<1>1. CASE Check!Act
    <2>1. PICK a \in Check!Answers :
            /\ Check!Ask(Head(todo), a) /\ todo # <<>> /\ todo' = Tail(todo)
            /\ pc = "act" /\ pc' = "act" /\ error = "none"
            /\ error' = Check!Undriven(a)
            /\ UNCHANGED <<check, base, verdict>>
        BY <1>1 DEF Check!Act
    <2> QED BY <2>1, Driven
<1>2. CASE Check!NotInteractable
    <2>1. /\ Check!Ask("click", "refused") /\ todo # <<>> /\ Head(todo) = "click"
          /\ pc = "act" /\ pc' \in {"restore", "reclick"}
          /\ error = "none" /\ error' = "none"
          /\ UNCHANGED <<check, base, verdict, todo>>
        BY <1>2 DEF Check!NotInteractable, Check!Continue
    <2> QED BY <2>1, Retried DEF Check!Answers
<1>3. CASE Check!Restore
    <2>1. PICK a \in Check!Answers :
            /\ Check!Ask("hover", a) /\ pc = "restore"
            /\ \/ a = "ok" /\ error' = "none" /\ pc' = "reclick"
               \/ a # "ok" /\ error' \in {"act", "actUnanswered"} /\ pc' = "act"
            /\ UNCHANGED <<check, base, verdict, todo>>
        BY <1>3 DEF Check!Restore, Check!Continue, Check!Undriven
    <2>2. error = "none" /\ todo # <<>> /\ Head(todo) = "click"
        BY <2>1 DEF Check!BodyInv, Check!InStep, Check!Unasked
    <2> QED BY <2>1, <2>2, Retried
<1>4. CASE Check!ClickCurrent
    <2>1. PICK a \in Check!Answers :
            /\ Check!Ask("click", a) /\ todo' = Tail(todo)
            /\ pc = "reclick" /\ pc' = "act"
            /\ error' = Check!Undriven(a)
            /\ UNCHANGED <<check, base, verdict>>
        BY <1>4 DEF Check!ClickCurrent
    <2>2. error = "none" /\ todo # <<>> /\ Head(todo) = "click"
        BY <2>1 DEF Check!BodyInv, Check!InStep, Check!Unasked
    <2> QED BY <2>1, <2>2, Driven
<1> QED BY <1>1, <1>2, <1>3, <1>4

\* The verdict: a pass is given with nothing failed and nothing left to do,
\* or by what the page rendered after an inspector did not answer.
LEMMA JudgeInv == ASSUME Check!BodyInv, Check!Judge PROVE Check!BodyInv'
<1>1. /\ pc = "act" /\ pc' = "done" /\ UNCHANGED <<check, error, base, todo>>
      /\ landed' = landed /\ ran' = ran /\ acked' = acked /\ terminal' = terminal
      /\ error # "none" \/ todo = <<>>
      /\ \/ /\ verdict' = "pass" /\ Check!Satisfied
            /\ error = "none" \/ Check!Excused
         \/ verdict' = "fail"
    BY DEF Check!Judge, Check!Stop, Check!Quiet, Check!page
<1>2. Check!PassIsEarned'
    <2> SUFFICES ASSUME verdict' = "pass" PROVE Check!PassIsEarned'
        BY DEF Check!PassIsEarned
    <2>1. check.expect = "differs" => landed # base
        BY <1>1 DEF Check!Satisfied
    <2>2. CASE error = "none"
        <3>1. Check!Range(todo) = {}
            BY <1>1, <2>2 DEF Check!Range
        <3>2. Check!SetupEarned' /\ Check!ActsEarned'
            BY <1>1, <2>2, <3>1 DEF Check!BodyInv, Check!Driving, Check!SetupEarned,
               Check!ActsEarned
        <3> QED BY <1>1, <2>1, <3>2 DEF Check!PassIsEarned
    <2>3. CASE error = "setupUnanswered"
        <3>1. todo = check.acts
            BY <1>1, <2>3 DEF Check!BodyInv, Check!Driving
        <3>2. \A h \in Check!Range(check.acts) : ran[h] = 0
            BY <1>1, <3>1 DEF Check!BodyInv, Check!Unasked, Check!Range
        <3> QED BY <1>1, <2>1, <2>3, <3>2 DEF Check!PassIsEarned
    <2>4. CASE error = "actUnanswered"
        <3>1. PICK g \in Check!Range(check.acts) :
                Check!Range(check.acts) \subseteq acked \cup Check!Range(todo) \cup {g}
            BY <1>1, <2>4 DEF Check!BodyInv, Check!Driving
        <3>2. \A h \in Check!Range(todo) : ran[h] = 0
            BY <1>1 DEF Check!BodyInv, Check!Unasked, Check!Range
        <3>3. Check!ActsEarned'
            BY <1>1, <2>4, <3>1, <3>2 DEF Check!ActsEarned
        <3>4. Check!SetupEarned'
            BY <1>1, <2>4 DEF Check!BodyInv, Check!Driving, Check!SetupEarned
        <3> QED BY <1>1, <2>1, <3>3, <3>4 DEF Check!PassIsEarned
    <2> QED BY <1>1, <2>2, <2>3, <2>4 DEF Check!Excused
<1>3. Check!TypeOK' /\ Check!CarriedOutOnce'
    BY <1>1 DEF Check!BodyInv, Check!TypeOK, Check!CarriedOutOnce
<1>4. /\ Check!InStep' /\ Check!Earned' /\ Check!Driving' /\ Check!Unasked'
      /\ Check!BaselineFollowsSetup'
    BY <1>1 DEF Check!InStep, Check!Earned, Check!Driving, Check!Unasked,
       Check!BaselineFollowsSetup
<1> QED BY <1>2, <1>3, <1>4 DEF Check!BodyInv

\* Nothing the invariant speaks of is ever taken back by the page.
LEMMA PageInv ==
  ASSUME Check!BodyInv, Check!Render \/ Check!Reconcile
  PROVE  Check!BodyInv'
<1>1. /\ pc # "done" /\ landed \ {"hover"} \subseteq landed'
      /\ UNCHANGED <<ran, acked, terminal, check, pc, error, verdict, base, todo>>
    BY DEF Check!Render, Check!Reconcile
<1>2. /\ Check!TypeOK' /\ Check!InStep' /\ Check!Earned' /\ Check!Unasked'
      /\ Check!CarriedOutOnce' /\ Check!BaselineFollowsSetup' /\ Check!Driving'
    BY <1>1 DEF Check!BodyInv, Check!TypeOK, Check!InStep, Check!Earned, Check!Unasked,
       Check!CarriedOutOnce, Check!BaselineFollowsSetup, Check!Driving, Check!SetupEarned
<1>3. Check!PassIsEarned'
    BY <1>1, Undecided DEF Check!PassIsEarned
<1> QED BY <1>2, <1>3 DEF Check!BodyInv

LEMMA BodyNextInv == Check!BodyInv /\ Check!Next => Check!BodyInv'
BY SkippingInv, ReadFailsInv, ReachedInv, ShownInv, PreparedInv, ReachingInv,
   PreparingInv,
   ExposingInv, BaselineInv, ActingInv, JudgeInv, PageInv DEF Check!Next

\* The invariant of the body of a check, while it is the part that runs.
BodyPartInv == part = "check" => Check!BodyInv

LEMMA BodyPartInit == Init => BodyPartInv
BY BodyInitInv DEF Init, BodyPartInv

LEMMA BodyPartNext == BodyPartInv /\ [Next]_vars => BodyPartInv'
<1> SUFFICES ASSUME BodyPartInv, [Next]_vars, part' = "check"
             PROVE  Check!BodyInv'
    BY DEF BodyPartInv
<1>1. part = "check" /\ Check!BodyInv
    BY DEF BodyPartInv, Next, vars
<1>2. CASE Check!Next
    BY <1>1, <1>2, BodyNextInv
<1>3. CASE UNCHANGED slots
    BY <1>1, <1>3 DEF slots, Check!BodyInv, Check!TypeOK, Check!InStep, Check!Earned,
       Check!Unasked, Check!CarriedOutOnce, Check!PassIsEarned, Check!BaselineFollowsSetup,
       Check!Driving, Check!SetupEarned, Check!ActsEarned
<1> QED BY <1>1, <1>2, <1>3 DEF Next, vars

\* Whatever checks are declared, however the host answers and the page
\* renders: a pass was earned by every gesture the check declares, but for
\* what an inspector that did not answer excuses, and a comparing expectation
\* saw the page differ from the baseline (run_qa_inner, drive_check_action).
THEOREM PassEarned == Spec => []PassIsEarned
<1>1. BodyPartInv => PassIsEarned
    BY DEF BodyPartInv, PassIsEarned, Check!BodyInv
<1> QED BY <1>1, BodyPartInit, BodyPartNext, PTL DEF Spec

-----------------------------------------------------------------------------
(* The waits on a page, on the instance Wait of Waits.                     *)

kind == s1
phase == s2
result == s3
frame == s4
drawn == s5
marker == s6
chrome == s7
moves == s8
now == s9
deadline == s10
root == s11
streak == s12
samples == s13
armed == s14
pending == s15
seen == s16
timely == s17
previous == s18

USE DEF kind, phase, result, frame, drawn, marker, chrome, moves, now, deadline,
        root, streak, samples, armed, pending, seen, timely, previous, Wait!None

LEMMA WaitInitInv == Wait!Init => Wait!WaitInv
<1> SUFFICES ASSUME Wait!Init PROVE Wait!WaitInv
    OBVIOUS
<1> USE WaitBounds DEF Wait!BoundsAreWellFormed, Wait!Init
<1>1. Wait!FlagsOK
    BY DEF Wait!FlagsOK
<1>2. Wait!TypeOK
    BY <1>1 DEF Wait!TypeOK
<1>3. Wait!StreakIsHeld
    BY DEF Wait!StreakIsHeld, Wait!Showed
<1>4. Wait!FramesAreAnnounced
    BY DEF Wait!FramesAreAnnounced
<1>5. Wait!CapturesAreEqual
    BY DEF Wait!CapturesAreEqual, Wait!Showed
<1> QED BY <1>2, <1>3, <1>4, <1>5 DEF Wait!WaitInv

\* The page commits a frame: a pending event announces it.
LEMMA CommitKeeps ==
  ASSUME Wait!WaitInv, Wait!Remount \/ Wait!ChromeChanges \/ Wait!Redraw
  PROVE  Wait!WaitInv'
<1> USE WaitBounds DEF Wait!BoundsAreWellFormed, Wait!WaitInv
<1>1. Wait!Commit
    BY DEF Wait!Remount, Wait!ChromeChanges, Wait!Redraw
<1>2. Wait!FlagsOK'
    BY <1>1 DEF Wait!TypeOK, Wait!FlagsOK, Wait!Commit, Wait!Remount, Wait!ChromeChanges,
       Wait!Redraw
<1>3. frame' \in Nat /\ marker' \in Nat /\ drawn' \in {1, 2}
    BY <1>1 DEF Wait!TypeOK, Wait!Commit, Wait!Remount, Wait!ChromeChanges, Wait!Redraw
<1>4. Wait!TypeOK'
    BY <1>1, <1>2, <1>3 DEF Wait!TypeOK, Wait!Commit
<1>5. Wait!StreakIsHeld'
    BY <1>1 DEF Wait!StreakIsHeld, Wait!Showed, Wait!Commit
<1>6. Wait!FramesAreAnnounced'
    BY <1>1 DEF Wait!TypeOK, Wait!FlagsOK, Wait!FramesAreAnnounced, Wait!Commit,
       Wait!Early, Wait!HasBudget
<1>7. Wait!CapturesAreEqual'
    BY <1>1 DEF Wait!TypeOK, Wait!CapturesAreEqual, Wait!Showed, Wait!Commit
<1> QED BY <1>4, <1>5, <1>6, <1>7

LEMMA BeginKeeps ==
  ASSUME Wait!WaitInv, Wait!Begin PROVE Wait!WaitInv'
<1> USE WaitBounds DEF Wait!BoundsAreWellFormed, Wait!WaitInv, Wait!Begin, Wait!page, Wait!clock
<1>1. Wait!FlagsOK'
    BY DEF Wait!TypeOK, Wait!FlagsOK
<1>2. Wait!TypeOK'
    BY <1>1 DEF Wait!TypeOK
<1>3. Wait!StreakIsHeld'
    BY DEF Wait!TypeOK, Wait!StreakIsHeld, Wait!Showed
<1>4. Wait!FramesAreAnnounced'
    BY DEF Wait!TypeOK, Wait!FramesAreAnnounced, Wait!Early, Wait!HasBudget
<1>5. Wait!CapturesAreEqual'
    BY DEF Wait!TypeOK, Wait!CapturesAreEqual, Wait!Showed
<1> QED BY <1>2, <1>3, <1>4, <1>5

\* One more sample: the last n + 1 of them are the new one and the last n.
LEMMA OneMoreSample ==
  ASSUME NEW q \in Seq(Wait!SampleType), NEW e \in Wait!SampleType, NEW n \in Nat, n <= Len(q)
  PROVE  /\ Append(q, e) \in Seq(Wait!SampleType) /\ n + 1 <= Len(Append(q, e))
         /\ \A i \in (Len(Append(q, e)) - (n + 1) + 1)..Len(Append(q, e)) :
              \/ Append(q, e)[i] = e
              \/ i \in (Len(q) - n + 1)..Len(q) /\ Append(q, e)[i] = q[i]
OBVIOUS

\* A sample of an arrival: it lengthens the streak when it showed the surface
\* or the node that is watched, and begins it again when it did not.
LEMMA SampleKeeps ==
  ASSUME Wait!WaitInv, Wait!SampleArrival \/ Wait!SampleVisible PROVE Wait!WaitInv'
<1> USE WaitBounds DEF Wait!BoundsAreWellFormed, Wait!WaitInv, Wait!page, Wait!clock,
         Wait!Conclude
<1>1. Wait!FlagsOK'
    BY DEF Wait!TypeOK, Wait!FlagsOK, Wait!SampleArrival, Wait!SampleVisible
<1>2. /\ kind \in {"arrival", "tab", "visible"} /\ phase = "sample" /\ result = "none"
           /\ marker \in Nat
      /\ samples \in Seq(Wait!SampleType) /\ streak \in Nat /\ streak <= Len(samples)
           /\ root \in Nat
    BY DEF Wait!TypeOK, Wait!StreakIsHeld, Wait!SampleArrival, Wait!SampleVisible
<1>9. UNCHANGED <<kind, frame, armed, seen, timely>> /\ phase' \in {"sleep", "done"}
    BY DEF Wait!SampleArrival, Wait!SampleVisible
<1>3. PICK arrived \in BOOLEAN :
        /\ samples' = Append(samples, [arrived |-> arrived, node |-> marker]) /\ root' \in Nat
        /\ ~arrived => streak' = 0
        /\ arrived => \E n \in {0, streak} : streak' = n + 1 /\ (kind # "visible" /\ n # 0
             => root \in {0, root'})
        /\ arrived /\ kind # "visible" => marker = root'
        /\ result' = "arrived" => streak' >= Streak
  <2>1. CASE Wait!SampleVisible
      BY <1>2, <2>1 DEF Wait!SampleVisible, Wait!StableArrival, Wait!ArrivalAnchor
  <2>2. CASE Wait!SampleArrival
    <3>1. PICK stale \in IF root \in {0, marker} THEN {FALSE} ELSE BOOLEAN :
            LET scoped == root # 0 /\ ~ stale
                kept == IF stale THEN Wait!StreakAfterStale ELSE streak
                arrived == IF scoped THEN root = marker ELSE Wait!OnSurface
            IN  /\ root' = IF arrived THEN (IF scoped THEN root ELSE Wait!ArrivalAnchor) ELSE 0
                /\ streak' = Wait!StableArrival(kept, arrived)
                /\ samples' = Append(samples, [arrived |-> arrived, node |-> marker])
                /\ result' = "arrived" => streak' >= Streak
        BY <1>2, <2>2 DEF Wait!SampleArrival
    <3>2. CASE root # 0 /\ ~ stale
        BY <1>2, <3>1, <3>2 DEF Wait!StableArrival
    <3>3. CASE root = 0 \/ stale
      <4>1. Wait!OnSurface \in BOOLEAN
          BY DEF Wait!OnSurface, Wait!TypeOK, Wait!FlagsOK
      <4> QED BY <1>2, <3>1, <3>3, <4>1 DEF Wait!StableArrival, Wait!ArrivalAnchor,
               Wait!StreakAfterStale
    <3> QED BY <3>2, <3>3
  <2> QED BY <2>1, <2>2
<1>4. [arrived |-> arrived, node |-> marker] \in Wait!SampleType
    BY <1>2 DEF Wait!SampleType
<1>5. Wait!TypeOK'
  <2>1. samples' \in Seq(Wait!SampleType)
      BY <1>2, <1>3, <1>4
  <2>2. streak' \in Nat
      BY <1>2, <1>3
  <2> QED BY <1>1, <1>3, <2>1, <2>2 DEF Wait!TypeOK, Wait!SampleArrival, Wait!SampleVisible
<1>6. Wait!StreakIsHeld'
  <2>1. CASE ~arrived
      BY <1>2, <1>3, <2>1 DEF Wait!StreakIsHeld, Wait!Showed
  <2>2. CASE arrived
    <3>1. PICK n \in {0, streak} : streak' = n + 1 /\ (kind # "visible" /\ n # 0
               => root \in {0, root'})
        BY <1>3, <2>2
    <3>2. /\ n \in Nat /\ n <= Len(samples)
          /\ \A i \in (Len(samples) - n + 1)..Len(samples) : samples[i].arrived
               /\ (kind # "visible" => samples[i].node \in {0, root'})
        BY <1>2, <3>1 DEF Wait!StreakIsHeld, Wait!Showed
    <3>3. /\ streak' <= Len(samples')
          /\ \A i \in (Len(samples') - streak' + 1)..Len(samples') :
              \/ samples'[i] = [arrived |-> arrived, node |-> marker]
              \/ i \in (Len(samples) - n + 1)..Len(samples) /\ samples'[i] = samples[i]
        BY <1>2, <1>3, <1>4, <3>1, <3>2, OneMoreSample
    <3>4. \A i \in (Len(samples') - streak' + 1)..Len(samples') :
             samples'[i].arrived /\ (kind # "visible" => samples'[i].node \in {0, root'})
      <4>1. arrived = TRUE /\ (kind # "visible" => marker = root')
          BY <1>3, <2>2
      <4>2. /\ [arrived |-> arrived, node |-> marker].arrived
            /\ [arrived |-> arrived, node |-> marker].node = marker
          BY <4>1
      <4> QED BY <3>2, <3>3, <4>1, <4>2
    <3>5. kind # "visible" => \A i \in (Len(samples') - streak' + 1)..Len(samples') :
               samples'[i].node \in {0, root'}
        BY <3>4
    <3>6. Wait!Showed(streak)'
        BY <3>4 DEF Wait!Showed
    <3> QED BY <1>3, <1>9, <3>3, <3>5, <3>6 DEF Wait!StreakIsHeld
  <2> QED BY <2>1, <2>2
<1>7. Wait!FramesAreAnnounced'
    BY <1>2, <1>9 DEF Wait!TypeOK, Wait!FramesAreAnnounced
<1>8. Wait!CapturesAreEqual'
    BY <1>2 DEF Wait!CapturesAreEqual, Wait!SampleArrival, Wait!SampleVisible
<1> QED BY <1>5, <1>6, <1>7, <1>8

\* What is in time before a request is still in time when it is answered.
LEMMA StillInTime ==
  ASSUME NEW before \in Nat, NEW took \in Nat, NEW least \in Nat, NEW end \in Nat,
         NEW after \in Nat, after <= before + took,
         before + took + least <= end, before + took + took <= end
  PROVE  after + least <= end /\ after + took <= end /\ ~(after + least > end)
OBVIOUS

\* The steps of a wait for a condition, and the sleep between two samples.
LEMMA ConditionKeeps ==
  ASSUME Wait!WaitInv,
         Wait!Sleep \/ Wait!SampleCondition \/ Wait!AnswerCondition \/ Wait!PaintComes
           \/ Wait!TimePasses
  PROVE  Wait!WaitInv'
<1> USE WaitBounds DEF Wait!BoundsAreWellFormed, Wait!WaitInv, Wait!page, Wait!clock
<1>1. /\ UNCHANGED <<kind, frame, drawn, marker, chrome, moves, deadline, root, streak,
           samples, armed, timely>>
      /\ phase \notin {"begin", "done"} /\ result = "none"
    BY DEF Wait!TypeOK, Wait!Sleep, Wait!SampleCondition, Wait!AnswerCondition, Wait!PaintComes,
       Wait!TimePasses
<1>2. Wait!FlagsOK'
    BY <1>1 DEF Wait!TypeOK, Wait!FlagsOK, Wait!Sleep, Wait!SampleCondition, Wait!AnswerCondition,
       Wait!PaintComes, Wait!TimePasses
<1>3. Wait!TypeOK'
  <2>1. now' \in Nat /\ seen' \in Nat /\ previous' \in Nat
      BY <1>1 DEF Wait!TypeOK, Wait!Sleep, Wait!SampleCondition, Wait!AnswerCondition,
         Wait!PaintComes, Wait!TimePasses
  <2>2. /\ phase' \in {"sample", "sleep", "answer", "paint", "done"}
             /\ result' \in {"none", "arrived", "absent"}
        /\ phase' # "done" => result' = "none"
        /\ phase' \in {"answer", "paint"} => kind = "condition"
      BY <1>1 DEF Wait!TypeOK, Wait!Sleep, Wait!SampleCondition, Wait!AnswerCondition,
           Wait!PaintComes,
         Wait!TimePasses
  <2> QED BY <1>1, <1>2, <2>1, <2>2 DEF Wait!TypeOK
<1>4. kind = "condition" \/ Wait!Sleep
    BY DEF Wait!TypeOK, Wait!SampleCondition, Wait!AnswerCondition, Wait!PaintComes,
         Wait!TimePasses
<1>5. Wait!StreakIsHeld'
    BY <1>1, <1>4 DEF Wait!StreakIsHeld, Wait!Showed, Wait!Sleep
<1>6. Wait!FramesAreAnnounced'
  <2>1. CASE Wait!Sleep
      BY <1>1, <2>1 DEF Wait!TypeOK, Wait!FlagsOK, Wait!FramesAreAnnounced, Wait!Sleep
  <2>2. CASE Wait!SampleCondition
      BY <1>1, <2>2 DEF Wait!TypeOK, Wait!FlagsOK, Wait!FramesAreAnnounced, Wait!SampleCondition,
         Wait!Early, Wait!HasBudget
  <2>3. CASE Wait!AnswerCondition
    <3>1. phase = "answer" /\ kind = "condition" /\ UNCHANGED <<pending, seen>>
        BY <1>1, <2>3 DEF Wait!TypeOK, Wait!AnswerCondition
    <3>2. phase' \in {"done", "paint", "sleep"} /\ (armed => phase' # "sleep")
        BY <1>1, <2>3 DEF Wait!AnswerCondition
    <3>3. now \in Nat /\ deadline \in Nat /\ now' \in Nat /\ now' <= now + MaxAnswer
        BY <2>3 DEF Wait!TypeOK, Wait!AnswerCondition
    <3>4. result' = "absent" => now' + MinBudget > deadline
        BY <1>1, <2>3 DEF Wait!AnswerCondition
    <3>5. ASSUME armed, seen < timely
          PROVE  /\ pending /\ now' + MinBudget <= deadline /\ now' + MaxAnswer <= deadline
                 /\ result' # "absent"
      <4>1. /\ pending /\ now + MaxAnswer + MinBudget <= deadline
            /\ now + MaxAnswer + MaxAnswer <= deadline
          BY <3>1, <3>5 DEF Wait!FramesAreAnnounced, Wait!Early
      <4>2. /\ now' + MinBudget <= deadline /\ now' + MaxAnswer <= deadline
            /\ ~(now' + MinBudget > deadline)
          BY <3>3, <4>1, StillInTime
      <4> QED BY <3>4, <4>1, <4>2
    <3> QED BY <1>1, <3>1, <3>2, <3>5 DEF Wait!FramesAreAnnounced, Wait!HasBudget
  <2>4. CASE Wait!PaintComes
      BY <1>1, <2>4 DEF Wait!TypeOK, Wait!FlagsOK, Wait!FramesAreAnnounced, Wait!PaintComes,
         Wait!Early, Wait!HasBudget
  <2>5. CASE Wait!TimePasses
      BY <1>1, <2>5 DEF Wait!TypeOK, Wait!FlagsOK, Wait!FramesAreAnnounced, Wait!TimePasses,
         Wait!Early, Wait!HasBudget
  <2> QED BY <2>1, <2>2, <2>3, <2>4, <2>5
<1>7. Wait!CapturesAreEqual'
    BY <1>1, <1>4 DEF Wait!CapturesAreEqual, Wait!Sleep
<1> QED BY <1>3, <1>5, <1>6, <1>7

\* A capture equal to the one before lengthens the run of equal ones.
LEMMA CaptureKeeps ==
  ASSUME Wait!WaitInv, Wait!SampleCapture PROVE Wait!WaitInv'
<1> USE WaitBounds DEF Wait!BoundsAreWellFormed, Wait!WaitInv, Wait!page
<1>1. /\ UNCHANGED <<kind, frame, drawn, marker, chrome, moves, root, armed, pending, seen,
           timely>>
      /\ kind = "stable" /\ phase = "sample" /\ result = "none"
      /\ samples \in Seq(Wait!SampleType) /\ streak \in Nat \ {0}
           /\ streak - 1 <= Len(samples) /\ streak < StillCaptures
      /\ drawn \in {1, 2} /\ now \in Nat /\ deadline \in Nat
    BY DEF Wait!TypeOK, Wait!CapturesAreEqual, Wait!SampleCapture
<1>2. PICK took \in 0..MaxCapture :
        LET tick == now + 1
            held == drawn = previous
        IN  IF tick >= deadline
              THEN phase' = "done" /\ result' = "absent" /\ now' = tick
                   /\ UNCHANGED <<deadline, streak, samples, previous>>
              ELSE /\ now' = tick + took /\ deadline' = deadline + took
                   /\ streak' = IF held THEN streak + 1 ELSE 1
                   /\ samples' = Append(samples, [arrived |-> held, node |-> drawn])
                   /\ previous' = drawn
                   /\ IF streak' >= StillCaptures THEN phase' = "done" /\ result' = "arrived"
                      ELSE IF now' >= deadline' THEN phase' = "done" /\ result' = "absent"
                      ELSE UNCHANGED <<phase, result>>
    BY DEF Wait!SampleCapture, Wait!Extended
<1>3. [arrived |-> drawn = previous, node |-> drawn] \in Wait!SampleType
    BY <1>1 DEF Wait!SampleType
<1>4. Wait!FlagsOK'
    BY <1>1 DEF Wait!TypeOK, Wait!FlagsOK
<1>5. Wait!TypeOK'
  <2>1. samples' \in Seq(Wait!SampleType)
      BY <1>1, <1>2, <1>3
  <2>2. now' \in Nat /\ deadline' \in Nat /\ streak' \in Nat /\ previous' \in Nat
      BY <1>1, <1>2 DEF Wait!TypeOK
  <2>3. phase' \in {"sample", "done"} /\ result' \in {"none", "arrived", "absent"}
             /\ (phase' # "done" => result' = "none")
      BY <1>1, <1>2
  <2> QED BY <1>1, <1>4, <2>1, <2>2, <2>3 DEF Wait!TypeOK
<1>6. Wait!StreakIsHeld' /\ Wait!FramesAreAnnounced'
  <2>1. ~armed
      BY <1>1 DEF Wait!FramesAreAnnounced
  <2>2. Wait!FramesAreAnnounced'
      BY <1>1, <2>1 DEF Wait!FramesAreAnnounced, Wait!SampleCapture
  <2> QED BY <1>1, <2>2 DEF Wait!StreakIsHeld
<1>7. streak' >= 1 /\ streak' - 1 <= Len(samples') /\ Wait!Showed(streak - 1)'
  <2>1. CASE now + 1 >= deadline
      BY <1>1, <1>2, <2>1 DEF Wait!CapturesAreEqual, Wait!Showed
  <2>2. CASE now + 1 < deadline /\ drawn # previous
      BY <1>1, <1>2, <1>3, <2>2 DEF Wait!Showed
  <2>3. CASE now + 1 < deadline /\ drawn = previous
    <3>1. /\ streak' - 1 = (streak - 1) + 1 /\ streak - 1 \in Nat
          /\ samples' = Append(samples, [arrived |-> drawn = previous, node |-> drawn])
      <4>1. ~(now + 1 >= deadline)
          BY <1>1, <2>3
      <4>2. streak' = streak + 1
          BY <1>2, <2>3, <4>1
      <4>3. samples' = Append(samples, [arrived |-> drawn = previous, node |-> drawn])
          BY <1>2, <4>1
      <4> QED BY <1>1, <4>2, <4>3
    <3>2. \A i \in (Len(samples) - (streak - 1) + 1)..Len(samples) : samples[i].arrived
        BY <1>1 DEF Wait!CapturesAreEqual, Wait!Showed
    <3>3. /\ streak' - 1 <= Len(samples')
          /\ \A i \in (Len(samples') - (streak' - 1) + 1)..Len(samples') :
              \/ samples'[i] = [arrived |-> drawn = previous, node |-> drawn]
              \/ i \in (Len(samples) - (streak - 1) + 1)..Len(samples) /\ samples'[i] = samples[i]
        BY <1>1, <1>3, <3>1, OneMoreSample
    <3>4. \A i \in (Len(samples') - (streak' - 1) + 1)..Len(samples') : samples'[i].arrived
      <4>1. [arrived |-> drawn = previous, node |-> drawn].arrived
          BY <2>3
      <4> QED BY <3>2, <3>3, <4>1
    <3> QED BY <1>1, <1>2, <2>3, <3>3, <3>4 DEF Wait!Showed
  <2> QED BY <1>1, <2>1, <2>2, <2>3
<1>8. phase' = "sample" => streak' < StillCaptures
    BY <1>1, <1>2
<1>9. result' = "arrived" => streak' >= StillCaptures
    BY <1>1, <1>2
<1>10. ASSUME moves' = 0
       PROVE  /\ drawn' = 1 /\ result' # "absent"
              /\ phase' = "sample" => previous' = drawn'
                   /\ streak' + deadline' = now' + WaitBudget + 1
  <2>1. moves = 0 /\ drawn = 1 /\ previous = drawn /\ streak + deadline = now + WaitBudget + 1
      BY <1>1, <1>10 DEF Wait!CapturesAreEqual
  <2>2. ~(now + 1 >= deadline)
      BY <1>1, <2>1
  <2> QED BY <1>1, <1>2, <2>1, <2>2
<1>11. Wait!CapturesAreEqual'
    BY <1>1, <1>2, <1>7, <1>8, <1>9, <1>10 DEF Wait!CapturesAreEqual
<1> QED BY <1>5, <1>6, <1>11

LEMMA WaitNextInv == Wait!WaitInv /\ [Wait!Next]_(Wait!vars) => Wait!WaitInv'
<1>1. ASSUME Wait!WaitInv, Wait!Next PROVE Wait!WaitInv'
    BY <1>1, CommitKeeps, BeginKeeps, SampleKeeps, ConditionKeeps, CaptureKeeps
       DEF Wait!Next, Wait!Step
<1>2. ASSUME Wait!WaitInv, UNCHANGED Wait!vars PROVE Wait!WaitInv'
    BY <1>2 DEF Wait!vars, Wait!page, Wait!clock, Wait!WaitInv, Wait!TypeOK, Wait!FlagsOK,
       Wait!StreakIsHeld, Wait!FramesAreAnnounced, Wait!CapturesAreEqual, Wait!Showed,
       Wait!Early, Wait!HasBudget
<1> QED BY <1>1, <1>2

\* The last samples of a sequence, as SubSeq numbers them.
LEMMA LastOnes ==
  ASSUME NEW q \in Seq(Wait!SampleType), NEW n \in Nat, n <= Len(q)
  PROVE  \A i \in 1..n :
           /\ Len(q) - n + i \in (Len(q) - n + 1)..Len(q)
           /\ SubSeq(q, Len(q) - n + 1, Len(q))[i] = q[Len(q) - n + i]
OBVIOUS

LEMMA WaitInvIsHonest ==
  Wait!WaitInv => Wait!ArrivalIsHeld /\ Wait!NoFrameMissed /\ Wait!StillnessIsProved
<1> SUFFICES ASSUME Wait!WaitInv
             PROVE  Wait!ArrivalIsHeld /\ Wait!NoFrameMissed /\ Wait!StillnessIsProved
    OBVIOUS
<1> USE WaitBounds DEF Wait!BoundsAreWellFormed, Wait!WaitInv
<1>1. samples \in Seq(Wait!SampleType) /\ streak \in Nat
    BY DEF Wait!TypeOK
<1>2. ASSUME result = "arrived", kind \in {"arrival", "tab", "visible"}
      PROVE  Wait!ArrivalIsHeld
  <2>1. /\ Streak <= streak /\ streak <= Len(samples)
        /\ \A i \in (Len(samples) - streak + 1)..Len(samples) : samples[i].arrived
        /\ kind # "visible" => \A i \in (Len(samples) - streak + 1)..Len(samples) :
             samples[i].node \in {0, root}
      BY <1>1, <1>2 DEF Wait!StreakIsHeld, Wait!Showed
  <2>2. \A i \in 1..Streak :
          /\ Len(samples) - Streak + i \in (Len(samples) - streak + 1)..Len(samples)
          /\ Wait!LastSamples(Streak)[i] = samples[Len(samples) - Streak + i]
      BY <1>1, <2>1, LastOnes DEF Wait!LastSamples
  <2>3. \A i \in 1..Streak : Wait!LastSamples(Streak)[i].arrived
      BY <2>1, <2>2
  <2>4. kind # "visible" => \A i \in 1..Streak : Wait!LastSamples(Streak)[i].node \in {0, root}
      BY <2>1, <2>2
  <2> QED BY <1>1, <2>1, <2>3, <2>4 DEF Wait!ArrivalIsHeld
<1>3. Wait!NoFrameMissed
  <2> SUFFICES ASSUME result = "absent", armed PROVE seen >= timely
      BY DEF Wait!NoFrameMissed
  <2> QED BY DEF Wait!FramesAreAnnounced, Wait!TypeOK
<1>4. ASSUME kind = "stable", result = "arrived"
      PROVE  \A i \in 1..(StillCaptures - 1) : Wait!LastSamples(StillCaptures - 1)[i].arrived
  <2>1. /\ StillCaptures <= streak /\ streak - 1 <= Len(samples)
        /\ \A i \in (Len(samples) - (streak - 1) + 1)..Len(samples) : samples[i].arrived
      BY <1>1, <1>4 DEF Wait!CapturesAreEqual, Wait!Showed, Wait!TypeOK
  <2>2. \A i \in 1..(StillCaptures - 1) :
          /\ Len(samples) - (StillCaptures - 1) + i \in (Len(samples) - (streak - 1) + 1)..Len(samples)
          /\ Wait!LastSamples(StillCaptures - 1)[i] = samples[Len(samples) - (StillCaptures - 1) + i]
      BY <1>1, <2>1, LastOnes DEF Wait!LastSamples
  <2> QED BY <2>1, <2>2
<1>5. kind = "stable" /\ result = "absent" => moves > 0
    BY DEF Wait!CapturesAreEqual, Wait!TypeOK
<1> QED BY <1>2, <1>3, <1>4, <1>5 DEF Wait!ArrivalIsHeld, Wait!StillnessIsProved

-----------------------------------------------------------------------------
(* The outcome of a check about WebGPU, on the instance Gpu of GpuOutcome.  *)

reported == s2
clock == s3
since == s4
baseline == s5
evidence == s6
looks == s7
outcome == s8

USE DEF reported, clock, since, baseline, evidence, looks, outcome

LEMMA GpuInitInv == Gpu!Init => Gpu!OutcomeInv
<1> SUFFICES ASSUME Gpu!Init PROVE Gpu!OutcomeInv
    OBVIOUS
<1>1. Gpu!TypeOK
  <2>1. evidence \in BOOLEAN
      BY DEF Gpu!Init
  <2>2. looks \in Seq(Gpu!LookType)
      BY DEF Gpu!Init
  <2> QED BY <2>1, <2>2 DEF Gpu!Init, Gpu!TypeOK
<1>2. Gpu!HeldSince /\ Gpu!MeasuredFromFirst
    BY DEF Gpu!Init, Gpu!HeldSince, Gpu!MeasuredFromFirst, Gpu!None, Gpu!Unmeasured
<1> QED BY <1>1, <1>2 DEF Gpu!OutcomeInv

LEMMA OneMoreLook ==
  ASSUME NEW q \in Seq(Gpu!LookType), NEW e \in Gpu!LookType
  PROVE  /\ Append(q, e) \in Seq(Gpu!LookType) /\ Len(Append(q, e)) = Len(q) + 1
         /\ Append(q, e)[Len(q) + 1] = e
         /\ \A i \in 1..Len(q) : Append(q, e)[i] = q[i]
OBVIOUS

\* A look is noted, and it begins, goes on with or ends the run of passing
\* looks; a pass is the end of a run that lasted.
LEMMA WeighKeeps ==
  ASSUME Gpu!OutcomeInv, NEW held \in BOOLEAN, NEW at \in Nat, NEW sample,
         [at |-> at, held |-> held, sample |-> sample] \in Gpu!LookType,
         Gpu!Weigh(held, at, sample), UNCHANGED check
  PROVE  /\ looks' \in Seq(Gpu!LookType) /\ Len(looks') = Len(looks) + 1
         /\ looks'[Len(looks) + 1] = [at |-> at, held |-> held, sample |-> sample]
         /\ \A i \in 1..Len(looks) : looks'[i] = looks[i]
         /\ since' # Gpu!None => Len(since') = 1 /\ since'[1] \in Nat
         /\ clock' \in Nat /\ evidence' = TRUE /\ outcome' \in {"waiting", "pass", "fail"}
         /\ outcome' = "pass" => held
         /\ Gpu!HeldSince'
<1> USE GpuTimes DEF Gpu!TimesAreWellFormed, Gpu!Deadline
<1>1. /\ looks \in Seq(Gpu!LookType) /\ looks' = Append(looks, [at |-> at, held |-> held,
           sample |-> sample])
      /\ check \in Asked /\ check.stable \in Nat
    BY DEF Gpu!OutcomeInv, Gpu!TypeOK, Gpu!Weigh
<1>2. /\ looks' \in Seq(Gpu!LookType) /\ Len(looks') = Len(looks) + 1
      /\ looks'[Len(looks) + 1] = [at |-> at, held |-> held, sample |-> sample]
      /\ \A i \in 1..Len(looks) : looks'[i] = looks[i]
    BY <1>1, OneMoreLook
<1>3. /\ clock' \in Nat /\ evidence' = TRUE /\ outcome' \in {"waiting", "pass", "fail"}
      /\ outcome' = "pass" => held /\ at <= Timeout /\ at - since'[1] >= check.stable
           /\ clock' = at
    BY DEF Gpu!Weigh, Gpu!PassNow
<1>4. since' = IF ~held THEN Gpu!None ELSE IF since = Gpu!None THEN <<at>> ELSE since
    BY DEF Gpu!Weigh
<1>5. since' # Gpu!None => Len(since') = 1 /\ since'[1] \in Nat
    BY <1>4 DEF Gpu!OutcomeInv, Gpu!TypeOK
<1>6. Gpu!HeldSince'
  <2>1. CASE ~held
      BY <1>2, <1>3, <1>4, <2>1 DEF Gpu!HeldSince
  <2>2. CASE held /\ since = Gpu!None
    <3>1. /\ since' = <<at>> /\ since' # Gpu!None
          /\ looks'[Len(looks) + 1].at = at /\ looks'[Len(looks) + 1].held
          /\ Len(looks) + 1 \in DOMAIN looks'
        BY <1>1, <1>2, <1>4, <2>2 DEF Gpu!None
    <3>2. \E first \in DOMAIN looks' : looks'[first].at = since'[1]
               /\ \A i \in first..Len(looks') : looks'[i].held
        BY <1>2, <3>1
    <3> QED BY <1>2, <1>3, <3>1, <3>2 DEF Gpu!HeldSince, Gpu!Deadline
  <2>3. CASE held /\ since # Gpu!None
    <3>1. since' = since /\ Len(since) = 1 /\ since[1] \in Nat
        BY <1>4, <2>3 DEF Gpu!OutcomeInv, Gpu!TypeOK
    <3>2. PICK first \in DOMAIN looks : looks[first].at = since[1]
               /\ \A i \in first..Len(looks) : looks[i].held
        BY <2>3 DEF Gpu!OutcomeInv, Gpu!HeldSince
    <3>3. first \in 1..Len(looks) /\ first \in DOMAIN looks' /\ looks'[first].at = since'[1]
        BY <1>1, <1>2, <3>1, <3>2
    <3>4. looks'[Len(looks) + 1].held
        BY <1>2, <2>3
    <3>5. \A i \in first..Len(looks') : looks'[i].held
        BY <1>1, <1>2, <3>2, <3>3, <3>4
    <3>6. \E f \in DOMAIN looks' : looks'[f].at = since'[1]
               /\ \A i \in f..Len(looks') : looks'[i].held
        BY <3>3, <3>5
    <3> QED BY <1>3, <2>3, <3>1, <3>6 DEF Gpu!HeldSince, Gpu!Deadline
  <2> QED BY <2>1, <2>2, <2>3
<1> QED BY <1>2, <1>3, <1>5, <1>6

LEMMA LookAtReportKeeps ==
  ASSUME Gpu!OutcomeInv, Gpu!LookAtReport PROVE Gpu!OutcomeInv'
<1>1. PICK delay \in 0..Slow : Gpu!Weigh(Gpu!ReportHolds(reported), clock + delay, Gpu!None)
    BY DEF Gpu!LookAtReport
<1>2. /\ clock + delay \in Nat /\ Gpu!ReportHolds(reported) \in BOOLEAN
      /\ UNCHANGED <<check, reported, baseline>>
    BY GpuTimes DEF Gpu!TimesAreWellFormed, Gpu!OutcomeInv, Gpu!TypeOK, Gpu!ReportHolds,
       Gpu!LookAtReport
<1>3. [at |-> clock + delay, held |-> Gpu!ReportHolds(reported),
           sample |-> Gpu!None] \in Gpu!LookType
    BY <1>2 DEF Gpu!LookType
<1>4. /\ looks' \in Seq(Gpu!LookType) /\ clock' \in Nat /\ evidence' = TRUE
      /\ outcome' \in {"waiting", "pass", "fail"}
      /\ since' # Gpu!None => Len(since') = 1 /\ since'[1] \in Nat
      /\ Gpu!HeldSince'
    BY <1>1, <1>2, <1>3, WeighKeeps
<1>5. Gpu!TypeOK'
    BY <1>2, <1>4 DEF Gpu!OutcomeInv, Gpu!TypeOK
<1>6. Gpu!MeasuredFromFirst'
    BY <1>2 DEF Gpu!MeasuredFromFirst, Gpu!LookAtReport, Gpu!AboutBuffer
<1> QED BY <1>4, <1>5, <1>6 DEF Gpu!OutcomeInv

\* A sample of the buffer: while no completed write has been seen, it is the
\* one a change will be measured from.
LEMMA LookAtBufferKeeps ==
  ASSUME Gpu!OutcomeInv, Gpu!LookAtBuffer PROVE Gpu!OutcomeInv'
<1> DEFINE sample == reported.buffer[1]
<1>1. CASE ~Gpu!Decodable(sample)
  <2>1. outcome' = "error" /\ UNCHANGED <<check, reported, clock, since, baseline, evidence,
             looks>>
      BY <1>1 DEF Gpu!LookAtBuffer
  <2> QED BY <2>1 DEF Gpu!OutcomeInv, Gpu!TypeOK, Gpu!HeldSince, Gpu!MeasuredFromFirst,
             Gpu!Unmeasured, Gpu!FirstWritten, Gpu!Sample
<1>2. CASE Gpu!Decodable(sample)
  <2>1. PICK delay \in 0..Slow : Gpu!Weigh(Gpu!SampleHolds(sample), clock + delay, <<sample>>)
      BY <1>2 DEF Gpu!LookAtBuffer
  <2>2. /\ clock + delay \in Nat /\ Gpu!SampleHolds(sample) \in BOOLEAN
        /\ UNCHANGED <<check, reported>>
        /\ baseline' = IF check.expect = "GpuBufferChanges"
             /\ Gpu!Unmeasured THEN <<sample>> ELSE baseline
      BY <1>2, GpuTimes DEF Gpu!TimesAreWellFormed, Gpu!OutcomeInv, Gpu!TypeOK, Gpu!SampleHolds,
         Gpu!LookAtBuffer
  <2>3. [at |-> clock + delay, held |-> Gpu!SampleHolds(sample),
             sample |-> <<sample>>] \in Gpu!LookType
      BY <2>2 DEF Gpu!LookType, Gpu!LookAtBuffer, Gpu!OutcomeInv, Gpu!TypeOK
  <2>4. /\ looks' \in Seq(Gpu!LookType) /\ Len(looks') = Len(looks) + 1
        /\ looks'[Len(looks) + 1] = [at |-> clock + delay, held |-> Gpu!SampleHolds(sample),
             sample |-> <<sample>>]
        /\ \A i \in 1..Len(looks) : looks'[i] = looks[i]
        /\ since' # Gpu!None => Len(since') = 1 /\ since'[1] \in Nat
        /\ clock' \in Nat /\ evidence' = TRUE /\ outcome' \in {"waiting", "pass", "fail"}
        /\ outcome' = "pass" => Gpu!SampleHolds(sample)
        /\ Gpu!HeldSince'
      BY <2>1, <2>2, <2>3, WeighKeeps
  <2>5. Gpu!TypeOK'
      BY <2>2, <2>4 DEF Gpu!OutcomeInv, Gpu!TypeOK
  <2>6. Gpu!MeasuredFromFirst'
    <3> SUFFICES ASSUME check.expect = "GpuBufferChanges" PROVE Gpu!MeasuredFromFirst'
        BY <2>2 DEF Gpu!MeasuredFromFirst
    <3>1. /\ Len(looks) \in Nat /\ Len(looks') \in DOMAIN looks' /\ looks' # <<>>
          /\ looks'[Len(looks')].sample[1] = sample
          /\ \A i \in DOMAIN looks : i \in DOMAIN looks'
               /\ looks'[i].sample[1] = looks[i].sample[1]
          /\ \A i \in DOMAIN looks' : i \in DOMAIN looks \/ i = Len(looks')
          /\ DOMAIN looks = 1..Len(looks)
      <4>1. looks'[Len(looks) + 1].sample = <<sample>> /\ looks \in Seq(Gpu!LookType)
          BY <2>4 DEF Gpu!OutcomeInv, Gpu!TypeOK
      <4> QED BY <2>4, <4>1
    <3>2. CASE Gpu!Unmeasured
      <4>1. /\ baseline' = <<sample>> /\ baseline'[1] = sample /\ baseline' # Gpu!None
            /\ outcome' # "pass"
            /\ \A i \in DOMAIN looks : looks[i].sample[1].submit = 0
          BY <2>2, <2>4, <3>2 DEF Gpu!SampleHolds, Gpu!OutcomeInv, Gpu!MeasuredFromFirst,
               Gpu!Sample, Gpu!None
      <4>2. CASE sample.submit = 0
        <5>1. \A i \in DOMAIN looks' : looks'[i].sample[1].submit = 0
            BY <3>1, <4>1, <4>2
        <5> QED BY <4>1, <4>2, <5>1 DEF Gpu!MeasuredFromFirst, Gpu!Unmeasured, Gpu!Sample
      <4>3. CASE sample.submit # 0
        <5>1. ~Gpu!Unmeasured'
            BY <4>1, <4>3 DEF Gpu!Unmeasured
        <5>2. /\ looks'[Len(looks')].sample[1].submit # 0
              /\ \A j \in 1..(Len(looks') - 1) : looks'[j].sample[1].submit = 0
            BY <2>4, <3>1, <4>1, <4>3
        <5> QED BY <3>1, <4>1, <5>1, <5>2 DEF Gpu!MeasuredFromFirst, Gpu!FirstWritten, Gpu!Sample
      <4> QED BY <4>2, <4>3
    <3>3. CASE ~Gpu!Unmeasured
      <4>1. baseline' = baseline /\ ~Gpu!Unmeasured'
          BY <2>2, <3>3 DEF Gpu!Unmeasured
      <4>2. outcome' = "pass" => Gpu!Changes(sample, baseline[1])
          BY <2>4 DEF Gpu!SampleHolds
      <4>3. PICK first \in DOMAIN looks : Gpu!FirstWritten(first)
                 /\ Gpu!Sample(first) = baseline[1]
          BY <3>3 DEF Gpu!OutcomeInv, Gpu!MeasuredFromFirst
      <4>4. /\ first \in DOMAIN looks' /\ looks'[first].sample[1] = baseline[1]
                 /\ looks'[first].sample[1].submit # 0
            /\ \A j \in 1..(first - 1) : looks'[j].sample[1].submit = 0
        <5>1. first \in 1..Len(looks) /\ \A j \in 1..(first - 1) : j \in DOMAIN looks
            BY <3>1, <4>3
        <5> QED BY <3>1, <4>3, <5>1 DEF Gpu!FirstWritten, Gpu!Sample
      <4>5. \E f \in DOMAIN looks' : Gpu!FirstWritten(f)' /\ Gpu!Sample(f)' = baseline'[1]
          BY <4>1, <4>4 DEF Gpu!FirstWritten, Gpu!Sample
      <4> QED BY <3>1, <4>1, <4>2, <4>4, <4>5 DEF Gpu!MeasuredFromFirst, Gpu!FirstWritten,
               Gpu!Sample, Gpu!Changes, Gpu!Identity
    <3> QED BY <3>2, <3>3
  <2> QED BY <2>4, <2>5, <2>6 DEF Gpu!OutcomeInv
<1> QED BY <1>1, <1>2

\* What does not complete a look ends a run of passing looks, or the wait.
LEMMA NoLookKeeps ==
  ASSUME Gpu!OutcomeInv, Gpu!LookPending \/ Gpu!TimesOut \/ Gpu!ReadFails \/ Gpu!PageMoves
  PROVE  Gpu!OutcomeInv'
<1> USE GpuTimes DEF Gpu!TimesAreWellFormed, Gpu!Deadline, Gpu!OutcomeInv
<1>1. UNCHANGED <<check, baseline, evidence, looks>> /\ since' \in {since, Gpu!None}
           /\ reported' \in States /\ outcome' # "pass"
      /\ outcome' \in {"waiting", "fail", "timeout", "error"}
    BY DEF Gpu!TypeOK, Gpu!LookPending, Gpu!TimesOut, Gpu!ReadFails, Gpu!PageMoves
<1>2. clock' \in Nat
    BY DEF Gpu!TypeOK, Gpu!LookPending, Gpu!TimesOut, Gpu!ReadFails, Gpu!PageMoves
<1>3. Gpu!TypeOK'
    BY <1>1, <1>2 DEF Gpu!TypeOK
<1>4. Gpu!HeldSince'
    BY <1>1 DEF Gpu!HeldSince
<1>5. Gpu!MeasuredFromFirst'
    BY <1>1 DEF Gpu!MeasuredFromFirst, Gpu!Unmeasured, Gpu!FirstWritten, Gpu!Sample
<1> QED BY <1>3, <1>4, <1>5

LEMMA GpuNextInv == Gpu!OutcomeInv /\ [Gpu!Next]_(Gpu!vars) => Gpu!OutcomeInv'
<1>1. ASSUME Gpu!OutcomeInv, Gpu!Next PROVE Gpu!OutcomeInv'
    BY <1>1, LookAtReportKeeps, LookAtBufferKeeps, NoLookKeeps DEF Gpu!Next
<1>2. ASSUME Gpu!OutcomeInv, UNCHANGED Gpu!vars PROVE Gpu!OutcomeInv'
    BY <1>2 DEF Gpu!vars, Gpu!OutcomeInv, Gpu!TypeOK, Gpu!HeldSince, Gpu!MeasuredFromFirst,
       Gpu!Unmeasured, Gpu!FirstWritten, Gpu!Sample
<1> QED BY <1>1, <1>2

LEMMA OutcomeInvIsHonest ==
  Gpu!OutcomeInv => Gpu!HeldForStable /\ Gpu!ChangesMeansTwoWrites
<1> SUFFICES ASSUME Gpu!OutcomeInv PROVE Gpu!HeldForStable /\ Gpu!ChangesMeansTwoWrites
    OBVIOUS
<1>1. Gpu!HeldForStable
    BY DEF Gpu!OutcomeInv, Gpu!HeldSince, Gpu!HeldForStable
<1>2. Gpu!ChangesMeansTwoWrites
  <2> SUFFICES ASSUME outcome = "pass", check.expect = "GpuBufferChanges"
               PROVE  Gpu!ChangesMeansTwoWrites
      BY DEF Gpu!ChangesMeansTwoWrites
  <2>1. ~Gpu!Unmeasured /\ Gpu!Changes(Gpu!Sample(Len(looks)), baseline[1])
      BY DEF Gpu!OutcomeInv, Gpu!MeasuredFromFirst
  <2>2. PICK first \in DOMAIN looks : Gpu!FirstWritten(first) /\ Gpu!Sample(first) = baseline[1]
      BY <2>1 DEF Gpu!OutcomeInv, Gpu!MeasuredFromFirst
  <2>3. Gpu!Changes(Gpu!Sample(Len(looks)), Gpu!Sample(first))
      BY <2>1, <2>2
  <2> QED BY <2>2, <2>3 DEF Gpu!ChangesMeansTwoWrites, Gpu!Changes
<1> QED BY <1>1, <1>2

\* The two invariants, each while its part is the one that runs.
WaitsInv ==
  /\ part = "wait" => Wait!WaitInv
  /\ part = "gpu" => Gpu!OutcomeInv

LEMMA WaitsInit == Init => WaitsInv
BY WaitInitInv, GpuInitInv DEF Init, WaitsInv

LEMMA WaitsNext == WaitsInv /\ [Next]_vars => WaitsInv'
<1> SUFFICES ASSUME WaitsInv, [Next]_vars PROVE WaitsInv'
    OBVIOUS
<1>1. part' = part
    BY DEF Next, vars
<1>2. ASSUME part = "wait" PROVE Wait!WaitInv'
  <2>1. [Wait!Next]_(Wait!vars)
      BY <1>2 DEF Next, vars, slots, Wait!vars, Wait!page, Wait!clock
  <2> QED BY <1>2, <2>1, WaitNextInv DEF WaitsInv
<1>3. ASSUME part = "gpu" PROVE Gpu!OutcomeInv'
  <2>1. [Gpu!Next]_(Gpu!vars)
      BY <1>3 DEF Next, vars, slots, Gpu!vars
  <2> QED BY <1>3, <2>1, GpuNextInv DEF WaitsInv
<1> QED BY <1>1, <1>2, <1>3 DEF WaitsInv

\* However long a streak must be, however many frames come and however the
\* page moves: an arrival was held by one node, a wait armed for frames has
\* seen the last that was in time, stillness was proved by equal captures and
\* only a region that moved is refused; a WebGPU check that passed held as
\* long as it had to, and a change was measured from the first completed
\* write (wait_for_arrival, capture_stable_region, wait_for_gpu_buffer).
THEOREM WaitsHonest == Spec => []WaitsAreHonest
<1>1. WaitsInv => WaitsAreHonest
    BY WaitInvIsHonest, OutcomeInvIsHonest DEF WaitsInv, WaitsAreHonest
<1> QED BY <1>1, WaitsInit, WaitsNext, PTL DEF Spec

-----------------------------------------------------------------------------
(* The accounts of a plan run, on the instance Plan of Plans.              *)

planning == s1
plan == s2
env == s3
accounts == s4
skipped == s5

USE DEF planning, plan, env, accounts, skipped

LEMMA PlanInitInv == Plan!Init => Plan!PlanInv
BY DEF Plan!Init, Plan!PlanInv

LEMMA PlanNextInv == Plan!PlanInv /\ [Plan!Next]_(Plan!vars) => Plan!PlanInv'
<1> SUFFICES ASSUME Plan!PlanInv, [Plan!Next]_(Plan!vars) PROVE Plan!PlanInv'
    OBVIOUS
<1> USE DEF Plan!PlanInv
<1>1. UNCHANGED <<plan, env>>
    BY DEF Plan!vars, Plan!Next, Plan!Load, Plan!Resolve, Plan!Preflight, Plan!NextInvocation,
       Plan!InvocationFails, Plan!LoginCheck, Plan!LoginFails, Plan!Landed, Plan!RunCheck,
       Plan!LosePage, Plan!EndInvocation
<1>2. /\ Plan!GroupsAgree' = Plan!GroupsAgree /\ Plan!AliasesAllowed' = Plan!AliasesAllowed
      /\ Plan!Sessions' = Plan!Sessions
      /\ \A i : Plan!Account(i)' = Plan!Account(i) /\ Plan!SkipReason(i)' = Plan!SkipReason(i)
    BY <1>1 DEF Plan!GroupsAgree, Plan!AliasesAllowed, Plan!Sessions, Plan!Account,
         Plan!SkipReason,
       Plan!Configured, Plan!Supplied, Plan!Set, Plan!Value, Plan!Binding, Plan!Sharing,
       Plan!Protected, Plan!OneGroup
<1>3. CASE Plan!Resolve
    BY <1>1, <1>2, <1>3 DEF Plan!Resolve, Plan!Resolved
<1>4. CASE ~Plan!Resolve
  <2>1. /\ UNCHANGED <<accounts, skipped>>
        /\ planning' \notin {"load", "resolve", "refused"}
             => planning \notin {"load", "resolve", "refused"}
      BY <1>4 DEF Plan!vars, Plan!Next, Plan!Load, Plan!Preflight, Plan!NextInvocation,
         Plan!InvocationFails, Plan!LoginCheck, Plan!LoginFails, Plan!Landed, Plan!RunCheck,
         Plan!LosePage, Plan!EndInvocation
  <2> QED BY <1>1, <1>2, <2>1 DEF Plan!Resolved
<1> QED BY <1>3, <1>4

\* What Plans calls a cardinality is one.
LEMMA PlanCardinality == \A S : Plan!Cardinality(S) = Cardinality(S)
BY DEF Plan!Cardinality, Cardinality

LEMMA SkipReasons ==
  <<"credentials">> # <<"alias">> /\ Plan!None # <<"alias">> /\ Plan!None # <<"credentials">>
BY DEF Plan!None

\* Two members are more than one.
LEMMA MoreThanOne ==
  ASSUME NEW S, IsFiniteSet(S), NEW a \in S, NEW b \in S, a # b
  PROVE  Cardinality(S) > 1
<1>1. /\ {a} \subseteq S \ {b} /\ IsFiniteSet(S \ {b})
      /\ Cardinality(S \ {b}) = Cardinality(S) - 1
      /\ Cardinality(S) \in Nat /\ Cardinality(S \ {b}) \in Nat
    BY FS_RemoveElement, FS_CardinalityType
<1>2. Cardinality(S \ {b}) # 0
    BY <1>1, FS_EmptySet
<1> QED BY <1>1, <1>2

\* A set of one element: any two of its members are the same.
LEMMA OnlyOne ==
  ASSUME NEW S, IsFiniteSet(S), Cardinality(S) = 1, NEW a \in S, NEW b \in S
  PROVE  a = b
<1>1. SUFFICES ASSUME a # b PROVE FALSE
    OBVIOUS
<1> QED BY <1>1, MoreThanOne

LEMMA PlanInvCovers == Plan!PlanInv => Plan!AccountsCovered
<1> SUFFICES ASSUME Plan!PlanInv, planning = "next" \/ planning = "over"
             PROVE  /\ \A i \in Plan!Sessions : skipped[i] = <<"alias">> =>
                         \E j \in Plan!Sessions : skipped[j] = Plan!None
                              /\ accounts[j][1].username = accounts[i][1].username
                    /\ \A i, j \in Plan!Sessions :
                         (i # j /\ skipped[i] = Plan!None /\ skipped[j] = Plan!None
                              /\ accounts[i][1].username = accounts[j][1].username)
                           => plan.sessions[i].group # Plan!None /\ plan.sessions[i].group =
                                plan.sessions[j].group
    BY DEF Plan!AccountsCovered
<1>1. /\ Plan!AliasesAllowed
      /\ \A i \in Plan!Sessions : accounts[i] = Plan!Account(i) /\ skipped[i] = Plan!SkipReason(i)
      /\ plan \in RunPlans
    BY DEF Plan!PlanInv, Plan!Resolved
<1>2. IsFiniteSet(Plan!Sessions)
    BY <1>1, PlanShapes, FS_Interval DEF Plan!PlansAreWellFormed, Plan!Sessions
<1>3. \A i \in Plan!Sessions :
        /\ IsFiniteSet(Plan!Sharing(i)) /\ IsFiniteSet(Plan!Protected(i))
        /\ Plan!Sharing(i) \subseteq Plan!Sessions
    BY <1>2, FS_Subset DEF Plan!Sharing, Plan!Protected
<1>4. ASSUME NEW i \in Plan!Sessions, skipped[i] = <<"alias">>
      PROVE  \E j \in Plan!Sessions : skipped[j] = Plan!None
           /\ accounts[j][1].username = accounts[i][1].username
  <2>1. Plan!Configured(i) /\ Cardinality(Plan!Sharing(i)) > 1
      BY <1>1, <1>4, SkipReasons, PlanCardinality DEF Plan!SkipReason
  <2>2. PICK j \in Plan!Sharing(i) : ~plan.sessions[j].skipOnAlias
      BY <1>1, <2>1, PlanCardinality DEF Plan!AliasesAllowed, Plan!Protected
  <2>3. j \in Plan!Sessions /\ skipped[j] = Plan!None
      BY <1>1, <2>2 DEF Plan!Sharing, Plan!SkipReason
  <2> QED BY <1>1, <2>2, <2>3 DEF Plan!Sharing
<1>5. ASSUME NEW i \in Plan!Sessions, NEW j \in Plan!Sessions, i # j,
             skipped[i] = Plan!None, skipped[j] = Plan!None,
                  accounts[i][1].username = accounts[j][1].username
      PROVE  plan.sessions[i].group # Plan!None /\ plan.sessions[i].group = plan.sessions[j].group
  <2>1. Plan!Configured(i) /\ Plan!Configured(j)
      BY <1>1, <1>5, SkipReasons DEF Plan!SkipReason
  <2>2. i \in Plan!Sharing(i) /\ j \in Plan!Sharing(i) /\ Plan!Sharing(j) = Plan!Sharing(i)
      BY <1>1, <1>5, <2>1 DEF Plan!Sharing
  <2>3. Cardinality(Plan!Sharing(i)) > 1
      BY <1>3, <1>5, <2>2, MoreThanOne
  <2>4. ~plan.sessions[i].skipOnAlias /\ ~plan.sessions[j].skipOnAlias
      BY <1>1, <1>5, <2>1, <2>2, <2>3, SkipReasons, PlanCardinality DEF Plan!SkipReason
  <2>5. i \in Plan!Protected(i) /\ j \in Plan!Protected(i)
      BY <2>2, <2>4 DEF Plan!Protected
  <2>6. Cardinality(Plan!Protected(i)) > 1
      BY <1>3, <1>5, <2>5, MoreThanOne
  <2>7. Plan!OneGroup(Plan!Protected(i))
      BY <1>1, <2>1, <2>3, <2>6, PlanCardinality DEF Plan!AliasesAllowed
  <2> DEFINE groups == {plan.sessions[k].group : k \in Plan!Protected(i)}
  <2>8. IsFiniteSet(groups)
    <3> DEFINE f == [k \in Plan!Protected(i) |-> plan.sessions[k].group]
    <3>1. f \in Surjection(Plan!Protected(i), groups)
        BY DEF Surjection
    <3> QED BY <1>3, <3>1, FS_Surjection
  <2>9. Cardinality(groups) = 1 /\ plan.sessions[i].group \in groups
             /\ plan.sessions[j].group \in groups
      BY <2>5, <2>7, PlanCardinality DEF Plan!OneGroup
  <2>10. plan.sessions[i].group = plan.sessions[j].group
      BY <2>8, <2>9, OnlyOne
  <2> QED BY <2>5, <2>7, <2>10 DEF Plan!OneGroup
<1> QED BY <1>4, <1>5

-----------------------------------------------------------------------------
(* The order of the checks, on the instance Load of Checks.                *)

loading == s1
files == s2
group == s3
values == s4
secrets == s5
file == s6
place == s7
established == s8
all == s9
queue == s10
surface == s11
done == s12

USE DEF loading, files, group, values, secrets, file, place, established, all,
        queue, surface, done

LEMMA LoadCardinality == \A S : Load!Cardinality(S) = Cardinality(S)
BY DEF Load!Cardinality, Cardinality

\* All the positions leave a sequence as it is, and none leave nothing.
LEMMA EveryPosition ==
  ASSUME NEW S, NEW q \in Seq(S)
  PROVE  Load!AtPositions(q, 1..Len(q)) = q /\ Load!AtPositions(q, {}) = <<>>
<1> DEFINE n == Len(q)
<1>1. n \in Nat
    OBVIOUS
<1>2. Load!Cardinality(1..n) = n
    BY <1>1, FS_Interval, LoadCardinality
<1>3. \A i \in 1..n : Load!Rank(1..n, i) = i
  <2> SUFFICES ASSUME NEW i \in 1..n PROVE Load!Rank(1..n, i) = i
      OBVIOUS
  <2>1. {j \in 1..n : j <= i} = 1..i
      BY <1>1
  <2>2. Cardinality(1..i) = i
      BY <1>1, FS_Interval
  <2> QED BY <2>1, <2>2, LoadCardinality DEF Load!Rank
<1>4. \A k \in 1..n : (CHOOSE i \in 1..n : Load!Rank(1..n, i) = k) = k
    BY <1>3
<1>5. Load!AtPositions(q, 1..n) = [k \in 1..n |-> q[k]]
  <2>1. Load!AtPositions(q, 1..n) = [k \in 1..n |-> q[CHOOSE i \in 1..n : Load!Rank(1..n, i) = k]]
      BY <1>2 DEF Load!AtPositions
  <2> QED BY <1>4, <2>1
<1>6. [k \in 1..n |-> q[k]] = q
    OBVIOUS
<1>7. Load!AtPositions(q, {}) = <<>>
  <2>1. Load!Cardinality({}) = 0
      BY FS_EmptySet, LoadCardinality
  <2> QED BY <2>1 DEF Load!AtPositions
<1> QED BY <1>5, <1>6, <1>7

LEMMA LoadInitInv == Load!Init => Load!LoadInv
<1> SUFFICES ASSUME Load!Init PROVE Load!LoadInv
    OBVIOUS
<1>1. <<>> \in Seq(Load!EntryType)
    OBVIOUS
<1>2. Load!TypeOK
    BY <1>1 DEF Load!Init, Load!TypeOK
<1>3. Load!FilesAreOpened /\ Load!ReadSoFar
    BY DEF Load!Init, Load!FilesAreOpened, Load!ReadSoFar
<1>4. Load!RunsInOrder
    BY DEF Load!Init, Load!RunsInOrder, Load!None
<1> QED BY <1>2, <1>3, <1>4 DEF Load!LoadInv

\* One check of a file, accepted or not.
LEMMA ReadCheckKeeps == ASSUME Load!LoadInv, Load!ReadCheck PROVE Load!LoadInv'
<1> DEFINE check1 == files[file][place]
           new == [file |-> file, check |-> check1]
<1>1. /\ loading = "load" /\ file <= Len(files) /\ place <= Len(files[file])
      /\ place' = place + 1 /\ UNCHANGED <<files, group, values, secrets, file, queue,
           surface, done>>
    BY DEF Load!ReadCheck, Load!inputs
<1>2. /\ files \in Manifests /\ file \in Nat \ {0} /\ place \in Nat \ {0}
      /\ all \in Seq(Load!EntryType)
    BY DEF Load!LoadInv, Load!TypeOK
<1>3. new \in Load!EntryType
  <2>1. file \in DOMAIN files /\ place \in DOMAIN files[file]
      BY <1>1, <1>2, LoadFiles DEF Load!ManifestsAreWellFormed
  <2>2. check1 \in Load!Parsed
      BY <1>2, <2>1 DEF Load!Parsed, Load!Range
  <2> QED BY <1>2, <2>2 DEF Load!EntryType
<1>4. CASE loading' = "refused" /\ all' = all
  <2>1. Load!TypeOK'
      BY <1>1, <1>2, <1>4 DEF Load!TypeOK
  <2>2. Load!FilesAreOpened' /\ Load!ReadSoFar'
      BY <1>4 DEF Load!LoadInv, Load!FilesAreOpened, Load!ReadSoFar, Load!Opens
  <2>3. Load!RunsInOrder'
      BY <1>1, <1>4 DEF Load!LoadInv, Load!RunsInOrder, Load!Whole
  <2> QED BY <2>1, <2>2, <2>3 DEF Load!LoadInv
<1>5. CASE /\ loading' = "load" /\ all' = Append(all, new)
           /\ ~(place = 1 /\ Load!Opener(check1) = Load!None /\ established # Load!None)
           /\ established' = IF Load!Opener(check1) # Load!None THEN <<file,
                Load!Opener(check1)[1]>> ELSE established
  <2>7. PICK n \in Nat : n = Len(all)
      BY <1>2
  <2>1. /\ all' \in Seq(Load!EntryType) /\ Len(all') = n + 1 /\ n \in Nat
        /\ all'[n + 1] = new /\ \A i \in 1..n : all'[i] = all[i]
        /\ DOMAIN all' = 1..(n + 1) /\ DOMAIN all = 1..n /\ n = Len(all)
      BY <1>2, <1>3, <1>5, <2>7
  <2>2. Load!TypeOK'
      BY <1>1, <1>2, <1>5, <2>1 DEF Load!TypeOK
  <2>3. /\ \A i \in 1..n : Load!Opens(i)' <=> Load!Opens(i)
        /\ Load!Opens(n + 1)' <=> Load!Opener(check1) # Load!None
        /\ all'[n + 1].file = file
    <3>1. /\ \A i \in 1..n : all'[i].check = all[i].check
          /\ all'[n + 1].check = check1 /\ all'[n + 1].file = file
        BY <2>1
    <3> QED BY <3>1 DEF Load!Opens
  <2>4. Load!FilesAreOpened'
    <3> SUFFICES ASSUME NEW i \in 1..(n + 1), NEW j \in 1..(i - 1), Load!Opens(j)'
                 PROVE  all'[j].file = all'[i].file \/ \E m \in (j + 1)..i : Load!Opens(m)'
        BY <2>1 DEF Load!FilesAreOpened
    <3>1. j \in 1..n /\ Load!Opens(j)
        BY <2>1, <2>3
    <3>2. CASE i \in 1..n
      <4>1. all[j].file = all[i].file \/ \E m \in (j + 1)..i : Load!Opens(m)
          BY <2>1, <3>1, <3>2 DEF Load!LoadInv, Load!FilesAreOpened
      <4>2. \A m \in (j + 1)..i : m \in 1..n
          BY <2>1, <3>2
      <4> QED BY <2>1, <2>3, <3>1, <3>2, <4>1, <4>2
    <3>3. CASE i = n + 1 /\ Load!Opener(check1) # Load!None
      <4>1. n + 1 \in (j + 1)..i /\ Load!Opens(n + 1)'
          BY <2>1, <2>3, <3>1, <3>3
      <4> QED BY <4>1
    <3>4. CASE i = n + 1 /\ Load!Opener(check1) = Load!None
      <4>1. place # 1
          BY <1>1, <1>5, <2>1, <3>1, <3>4 DEF Load!LoadInv, Load!ReadSoFar
      <4>2. n \in 1..n /\ all[n].file = file
          BY <1>1, <1>2, <2>1, <3>1, <4>1 DEF Load!LoadInv, Load!ReadSoFar
      <4>3. CASE j = n
          BY <2>1, <2>3, <3>4, <4>2, <4>3
      <4>4. CASE j # n
        <5>1. n \in DOMAIN all /\ j \in 1..(n - 1)
            BY <2>1, <3>1, <4>4
        <5>2. all[j].file = file \/ \E m \in (j + 1)..n : Load!Opens(m)
            BY <3>1, <4>2, <5>1 DEF Load!LoadInv, Load!FilesAreOpened
        <5>3. \A m \in (j + 1)..n : m \in 1..n /\ m \in (j + 1)..i
            BY <2>1, <3>1, <3>4
        <5> QED BY <2>1, <2>3, <3>1, <3>4, <5>2, <5>3
      <4> QED BY <4>3, <4>4
    <3> QED BY <2>1, <3>2, <3>3, <3>4
  <2>5. Load!ReadSoFar'
    <3>1. all' # <<>> /\ all'[Len(all')].file = file'
        BY <1>1, <2>1, <2>3
    <3>2. ASSUME established' = Load!None PROVE \A i \in DOMAIN all' : ~Load!Opens(i)'
      <4>1. Load!Opener(check1) = Load!None /\ established = Load!None
          BY <1>5, <3>2 DEF Load!None
      <4>2. \A i \in 1..n : ~Load!Opens(i)
          BY <1>1, <2>1, <4>1 DEF Load!LoadInv, Load!ReadSoFar
      <4> QED BY <2>1, <2>3, <4>1, <4>2
    <3> QED BY <3>1, <3>2 DEF Load!ReadSoFar
  <2>6. Load!RunsInOrder'
    <3>1. Load!Whole' => Load!Whole
        BY <1>1, <2>1 DEF Load!Whole
    <3> QED BY <1>1, <1>5, <3>1 DEF Load!LoadInv, Load!RunsInOrder
  <2> QED BY <2>2, <2>4, <2>5, <2>6 DEF Load!LoadInv
<1> QED BY <1>4, <1>5 DEF Load!ReadCheck, Load!Inherits

LEMMA NextFileKeeps == ASSUME Load!LoadInv, Load!NextFile PROVE Load!LoadInv'
<1>1. /\ loading = "load" /\ loading' = loading /\ file' = file + 1 /\ place' = 1
      /\ UNCHANGED <<files, group, values, secrets, established, all, queue, surface, done>>
    BY DEF Load!NextFile, Load!inputs
<1>2. Load!TypeOK'
    BY <1>1 DEF Load!LoadInv, Load!TypeOK
<1>3. Load!FilesAreOpened' /\ Load!ReadSoFar'
    BY <1>1 DEF Load!LoadInv, Load!FilesAreOpened, Load!ReadSoFar, Load!Opens
<1>4. Load!RunsInOrder'
    BY <1>1 DEF Load!LoadInv, Load!RunsInOrder, Load!Whole
<1> QED BY <1>2, <1>3, <1>4 DEF Load!LoadInv

\* What a plan or a session binds in a check is not where it opens.
LEMMA ResolvedOpens ==
  ASSUME NEW c \in Load!Parsed
  PROVE  Load!Opener(Load!ResolvedSecret(Load!ResolvedAssertion(c))) = Load!Opener(c)
<1>1. {"open", "navigate", "subject", "setupText"} \subseteq DOMAIN c
    BY LoadFiles DEF Load!ManifestsAreWellFormed
<1> DEFINE d == Load!ResolvedAssertion(c)
<1>2. DOMAIN d = DOMAIN c /\ d.open = c.open /\ d.navigate = c.navigate
    BY <1>1 DEF Load!ResolvedAssertion
<1> HIDE DEF d
<1>3. Load!ResolvedSecret(d).open = d.open /\ Load!ResolvedSecret(d).navigate = d.navigate
    BY <1>1, <1>2 DEF Load!ResolvedSecret
<1> QED BY <1>2, <1>3 DEF Load!Opener, d

LEMMA SequenceOfItsRange ==
  ASSUME NEW S, NEW q \in Seq(S)
  PROVE  q \in Seq(Load!Range(q)) /\ Len(q) \in Nat
<1>1. DOMAIN q = 1..Len(q) /\ Len(q) \in Nat /\ q = [i \in 1..Len(q) |-> q[i]]
    OBVIOUS
<1>2. \A i \in 1..Len(q) : q[i] \in Load!Range(q)
    BY <1>1 DEF Load!Range
<1> QED BY <1>1, <1>2

\* The run begins with the manifest as it was declared.
LEMMA LoadedKeeps == ASSUME Load!LoadInv, Load!Loaded PROVE Load!LoadInv'
<1>1. /\ loading = "load" /\ loading' \in {"run", "refused"}
      /\ UNCHANGED <<files, group, values, secrets, file, place, established, all, surface, done>>
      /\ all \in Seq(Load!EntryType)
    BY DEF Load!Loaded, Load!inputs, Load!LoadInv, Load!TypeOK
<1>2. Load!TypeOK'
    BY <1>1 DEF Load!LoadInv, Load!TypeOK
<1>3. Load!FilesAreOpened' /\ Load!ReadSoFar'
    BY <1>1 DEF Load!LoadInv, Load!FilesAreOpened, Load!ReadSoFar, Load!Opens
<1>4. ASSUME Load!Whole PROVE Load!OrderedChecks(all) = all
  <2> DEFINE wanted == {i \in DOMAIN all : group \in {"*", all[i].check.group, all[i].check.id}}
             last == {i \in wanted : all[i].check.destructive}
  <2>1. wanted = 1..Len(all)
      BY <1>1, <1>4 DEF Load!Whole
  <2>2. last = {} /\ wanted \ last = 1..Len(all)
      BY <1>1, <1>4, <2>1 DEF Load!Whole
  <2>3. Load!OrderedChecks(all) = Load!AtPositions(all,
             wanted \ last) \o Load!AtPositions(all, last)
      BY DEF Load!OrderedChecks
  <2> HIDE DEF wanted, last
  <2>4. Load!OrderedChecks(all) = all \o <<>>
      BY <1>1, <2>2, <2>3, EveryPosition
  <2> QED BY <1>1, <2>4
<1>7. Load!Whole' <=> Load!Whole
    BY <1>1 DEF Load!Whole
<1>5. CASE loading' = "refused" \/ ~Load!Whole
    BY <1>1, <1>2, <1>3, <1>5, <1>7 DEF Load!LoadInv, Load!RunsInOrder
<1>6. CASE loading' = "run" /\ Load!Whole
  <2>1. /\ done = <<>> /\ surface = Load!None
        /\ queue' = [i \in DOMAIN all |->
                     [all[i] EXCEPT !.check = Load!ResolvedSecret(Load!ResolvedAssertion(@))]]
      BY <1>1, <1>4, <1>6 DEF Load!Loaded, Load!LoadInv, Load!RunsInOrder
  <2>2. \A i \in DOMAIN all : Load!Same(queue'[i], i)
    <3> SUFFICES ASSUME NEW i \in DOMAIN all PROVE Load!Same(queue'[i], i)
        OBVIOUS
    <3>1. all[i] \in Load!EntryType /\ all[i].check \in Load!Parsed
               /\ DOMAIN all[i] = {"file", "check"}
      <4>1. all[i] \in Load!EntryType
          BY <1>1
      <4> QED BY <4>1 DEF Load!EntryType
    <3>2. /\ queue'[i].file = all[i].file
          /\ queue'[i].check = Load!ResolvedSecret(Load!ResolvedAssertion(all[i].check))
        BY <2>1, <3>1
    <3> QED BY <3>1, <3>2, ResolvedOpens DEF Load!Same
  <2>3. /\ Len(queue') = Len(all) /\ queue' \in Seq(Load!Range(queue')) /\ Len(all) \in Nat
        /\ Len(done) = 0 /\ done \in Seq(Load!Range(done)) /\ DOMAIN done = {}
    <3>1. queue' \in Seq({queue'[i] : i \in DOMAIN all}) /\ Len(queue') = Len(all)
        BY <1>1, <2>1
    <3>2. done \in Seq({})
        BY <2>1
    <3> QED BY <1>1, <2>1, <3>1, <3>2, SequenceOfItsRange
  <2>4. \A k \in 1..Len(queue') : Load!Same(queue[k], Len(done) + k)'
    <3> SUFFICES ASSUME NEW k \in 1..Len(queue') PROVE Load!Same(queue[k], Len(done) + k)'
        OBVIOUS
    <3>1. Load!Same(queue'[k], k) /\ Len(done') + k = k
        BY <1>1, <2>2, <2>3
    <3> QED BY <1>1, <3>1 DEF Load!Same
  <2>5. Load!OpenedLast(surface, Len(done))'
      BY <1>1, <2>1, <2>3 DEF Load!OpenedLast
  <2>6. /\ Len(queue') \in Nat /\ Len(done') \in Nat /\ Len(queue') + Len(done') = Len(all')
        /\ queue' \in Seq(Load!Range(queue))' /\ done' \in Seq(Load!Range(done))'
        /\ \A k \in DOMAIN done' : FALSE
      BY <1>1, <2>1, <2>3
  <2>7. Load!RunsInOrder'
      BY <1>6, <2>4, <2>5, <2>6 DEF Load!RunsInOrder
  <2> QED BY <1>2, <1>3, <2>7 DEF Load!LoadInv
<1> QED BY <1>1, <1>2, <1>3, <1>5, <1>6 DEF Load!LoadInv

\* A check opens its own surface, or it runs on the one opened last.
LEMMA RunCheckKeeps == ASSUME Load!LoadInv, Load!RunCheck PROVE Load!LoadInv'
<1> DEFINE entry == queue[1]
           on == IF Load!Opener(entry.check) # Load!None THEN <<entry.file>> ELSE surface
<1>1. /\ loading = "run" /\ loading' = loading /\ queue # <<>> /\ surface' = on
      /\ queue' = Tail(queue) /\ done' = Append(done, [entry |-> entry, on |-> on])
      /\ UNCHANGED <<files, group, values, secrets, file, place, established, all>>
      /\ all \in Seq(Load!EntryType)
    BY DEF Load!RunCheck, Load!inputs, Load!LoadInv, Load!TypeOK
<1>2. Load!TypeOK'
    BY <1>1 DEF Load!LoadInv, Load!TypeOK
<1>3. Load!FilesAreOpened' /\ Load!ReadSoFar'
    BY <1>1 DEF Load!LoadInv, Load!FilesAreOpened, Load!ReadSoFar, Load!Opens
<1>6. Load!Whole' <=> Load!Whole
    BY <1>1 DEF Load!Whole
<1>4. CASE ~Load!Whole
    BY <1>2, <1>3, <1>4, <1>6 DEF Load!LoadInv, Load!RunsInOrder
<1>5. CASE Load!Whole
  <2>1. PICK n \in Nat, m \in Nat :
          /\ n = Len(done) /\ m = Len(queue) /\ m + n = Len(all)
          /\ queue \in Seq(Load!Range(queue)) /\ done \in Seq(Load!Range(done))
          /\ \A k \in 1..m : Load!Same(queue[k], n + k)
          /\ Load!OpenedLast(surface, n)
          /\ \A k \in DOMAIN done : done[k].on = Load!None \/ done[k].on[1] = done[k].entry.file
      BY <1>1, <1>5 DEF Load!LoadInv, Load!RunsInOrder
  <2>2. /\ m \in Nat \ {0} /\ Len(queue') = m - 1
             /\ \A k \in 1..(m - 1) : queue'[k] = queue[k + 1]
        /\ queue' \in Seq(Load!Range(queue))
      BY <1>1, <2>1
  <2>3. /\ Len(done') = n + 1 /\ DOMAIN done' = 1..(n + 1) /\ DOMAIN done = 1..n
        /\ done'[n + 1] = [entry |-> entry, on |-> on]
        /\ \A k \in 1..n : done'[k] = done[k]
        /\ done' \in Seq(Load!Range(done) \cup {[entry |-> entry, on |-> on]})
      BY <1>1, <2>1
  <2>4. queue' \in Seq(Load!Range(queue))' /\ done' \in Seq(Load!Range(done))'
      BY <2>2, <2>3, SequenceOfItsRange
  <2>5. /\ n + 1 \in DOMAIN all /\ entry.file = all[n + 1].file
        /\ Load!Opener(entry.check) = Load!Opener(all[n + 1].check)
    <3>1. 1 \in 1..m /\ n + 1 \in 1..Len(all) /\ DOMAIN all = 1..Len(all)
        BY <1>1, <2>1, <2>2
    <3>2. Load!Same(queue[1], n + 1)
        BY <2>1, <3>1
    <3> QED BY <3>1, <3>2 DEF Load!Same
  <2>6. Load!OpenedLast(on, n + 1)
    <3>1. CASE Load!Opens(n + 1)
      <4>1. on = <<all[n + 1].file>> /\ on # Load!None
          BY <2>5, <3>1 DEF Load!Opens, Load!None
      <4>2. \A k \in (n + 2)..(n + 1) : FALSE
          OBVIOUS
      <4> QED BY <3>1, <4>1, <4>2 DEF Load!OpenedLast
    <3>2. CASE ~Load!Opens(n + 1)
      <4>1. on = surface
          BY <2>5, <3>2 DEF Load!Opens
      <4>2. CASE surface = Load!None
        <5>1. \A j \in 1..(n + 1) : j \in 1..n \/ j = n + 1
            OBVIOUS
        <5>2. \A j \in 1..n : ~Load!Opens(j)
            BY <2>1, <4>2 DEF Load!OpenedLast
        <5> QED BY <3>2, <4>1, <4>2, <5>1, <5>2 DEF Load!OpenedLast
      <4>3. CASE surface # Load!None
        <5>1. PICK j \in 1..n : Load!Opens(j) /\ surface = <<all[j].file>>
                   /\ \A k \in (j + 1)..n : ~Load!Opens(k)
            BY <2>1, <4>3 DEF Load!OpenedLast
        <5>2. j \in 1..(n + 1) /\ \A k \in (j + 1)..(n + 1) : k \in (j + 1)..n \/ k = n + 1
            OBVIOUS
        <5> QED BY <3>2, <4>1, <4>3, <5>1, <5>2 DEF Load!OpenedLast
      <4> QED BY <4>2, <4>3
    <3> QED BY <3>1, <3>2
  <2>7. on = Load!None \/ on[1] = entry.file
    <3>1. CASE Load!Opener(entry.check) # Load!None
        BY <3>1
    <3>2. CASE Load!Opener(entry.check) = Load!None /\ surface # Load!None
      <4>1. ~Load!Opens(n + 1)
          BY <2>5, <3>2 DEF Load!Opens
      <4>2. PICK j \in 1..n : Load!Opens(j) /\ surface = <<all[j].file>>
                 /\ \A k \in (j + 1)..n : ~Load!Opens(k)
          BY <2>1, <3>2 DEF Load!OpenedLast
      <4>3. all[j].file = all[n + 1].file \/ \E k \in (j + 1)..(n + 1) : Load!Opens(k)
          BY <2>5, <4>2 DEF Load!LoadInv, Load!FilesAreOpened
      <4>4. all[j].file = all[n + 1].file
          BY <4>1, <4>2, <4>3
      <4> QED BY <2>5, <3>2, <4>2, <4>4
    <3> QED BY <3>1, <3>2
  <2>8. \A k \in 1..(n + 1) : done'[k].on = Load!None \/ done'[k].on[1] = done'[k].entry.file
    <3>1. done'[n + 1].on = on /\ done'[n + 1].entry = entry
        BY <2>3
    <3>2. \A k \in 1..n : done'[k].on = Load!None \/ done'[k].on[1] = done'[k].entry.file
        BY <2>1, <2>3
    <3>3. \A k \in 1..(n + 1) : k \in 1..n \/ k = n + 1
        OBVIOUS
    <3> QED BY <2>7, <3>1, <3>2, <3>3
  <2>9. Load!OpenedLast(surface, Len(done))'
      BY <1>1, <2>3, <2>6 DEF Load!OpenedLast, Load!Opens
  <2>10. \A k \in 1..(m - 1) : Load!Same(queue[k], Len(done) + k)'
    <3> SUFFICES ASSUME NEW k \in 1..(m - 1) PROVE Load!Same(queue[k], Len(done) + k)'
        OBVIOUS
    <3>1. Load!Same(queue[k + 1], n + (k + 1))
        BY <2>1, <2>2
    <3>2. queue'[k] = queue[k + 1] /\ Len(done') + k = n + (k + 1)
        BY <2>2, <2>3
    <3> QED BY <1>1, <3>1, <3>2 DEF Load!Same
  <2>11. Len(queue') + Len(done') = Len(all')
      BY <1>1, <2>1, <2>2, <2>3
  <2>12. Len(queue') \in Nat /\ Len(done') \in Nat /\ loading' = "run"
      BY <1>1, <2>2, <2>3
  <2>13. \A k \in 1..Len(queue') : Load!Same(queue[k], Len(done) + k)'
      BY <2>2, <2>10
  <2>14. \A k \in DOMAIN done' : done'[k].on = Load!None \/ done'[k].on[1] = done'[k].entry.file
      BY <2>3, <2>8
  <2>15. Load!RunsInOrder'
      BY <2>4, <2>9, <2>11, <2>12, <2>13, <2>14 DEF Load!RunsInOrder
  <2> QED BY <1>2, <1>3, <2>15 DEF Load!LoadInv
<1> QED BY <1>2, <1>3, <1>4, <1>5 DEF Load!LoadInv

LEMMA LoadNextInv == Load!LoadInv /\ [Load!Next]_(Load!vars) => Load!LoadInv'
<1> SUFFICES ASSUME Load!LoadInv, [Load!Next]_(Load!vars) PROVE Load!LoadInv'
    OBVIOUS
<1>1. CASE Load!Finish \/ UNCHANGED Load!vars
  <2>1. /\ UNCHANGED <<files, group, values, secrets, file, place, established, all, queue,
             surface, done>>
        /\ loading' = loading \/ (loading = "run" /\ loading' = "over")
      BY <1>1 DEF Load!Finish, Load!vars, Load!inputs
  <2>2. Load!TypeOK'
      BY <2>1 DEF Load!LoadInv, Load!TypeOK
  <2>3. Load!FilesAreOpened' /\ Load!ReadSoFar'
      BY <2>1 DEF Load!LoadInv, Load!FilesAreOpened, Load!ReadSoFar, Load!Opens
  <2>4. Load!RunsInOrder'
      BY <2>1 DEF Load!LoadInv, Load!RunsInOrder, Load!Whole, Load!OpenedLast, Load!Opens,
           Load!Same
  <2> QED BY <2>2, <2>3, <2>4 DEF Load!LoadInv
<1>2. CASE Load!Next /\ ~Load!Finish
    BY <1>2, ReadCheckKeeps, NextFileKeeps, LoadedKeeps, RunCheckKeeps DEF Load!Next
<1> QED BY <1>1, <1>2

LEMMA LoadInvInherits == Load!LoadInv => Load!InheritsNoSurface
BY DEF Load!LoadInv, Load!RunsInOrder, Load!Whole, Load!InheritsNoSurface, Load!OnForeign,
     Load!None

\* The two invariants, each while its part is the one that runs.
SuitesInv ==
  /\ part = "load" => Load!LoadInv
  /\ part = "plan" => Plan!PlanInv

LEMMA SuitesInit == Init => SuitesInv
BY LoadInitInv, PlanInitInv DEF Init, SuitesInv

LEMMA SuitesNext == SuitesInv /\ [Next]_vars => SuitesInv'
<1> SUFFICES ASSUME SuitesInv, [Next]_vars PROVE SuitesInv'
    OBVIOUS
<1>1. part' = part
    BY DEF Next, vars
<1>2. ASSUME part = "load" PROVE Load!LoadInv'
  <2>1. [Load!Next]_(Load!vars)
      BY <1>2 DEF Next, vars, slots, Load!vars, Load!inputs
  <2> QED BY <1>2, <2>1, LoadNextInv DEF SuitesInv
<1>3. ASSUME part = "plan" PROVE Plan!PlanInv'
  <2>1. [Plan!Next]_(Plan!vars)
      BY <1>3 DEF Next, vars, slots, Plan!vars, Plan!runVars
  <2> QED BY <1>3, <2>1, PlanNextInv DEF SuitesInv
<1> QED BY <1>1, <1>2, <1>3 DEF SuitesInv

\* Whatever check files a directory holds and however they are named, no
\* check starts on a surface that another file opened; whatever a plan asks
\* for and however the environment is set, every account of it is driven,
\* reported skipped, or covered by the account it shares its secrets with
\* (load_checks, run_checks, plan::resolve).
THEOREM SuitesDeclared == Spec => []SuitesRunAsDeclared
<1>1. SuitesInv => SuitesRunAsDeclared
    BY LoadInvInherits, PlanInvCovers DEF SuitesInv, SuitesRunAsDeclared
<1> QED BY <1>1, SuitesInit, SuitesNext, PTL DEF Spec

-----------------------------------------------------------------------------
(* What is revealed before it is counted, on the instance Tour of Reveal.  *)

task == s1
page == s3
tree == s4
at == s5
held == s6
turns == s7
shut == s8
stable == s9
pager == s10
retired == s11
broken == s12
rows == s13
rounds == s14
own == s15
shown == s16
short == s17

USE DEF task, page, tree, at, held, turns, shut, stable, pager, retired, broken,
        rows, rounds, own, shown, short, Tour!Empty, Tour!Texts

LEMMA TourRoom ==
  /\ Surfaces \in Nat \ {0} /\ Depth \in Nat /\ RowsToMount \in Nat \ {0}
  /\ Pages \subseteq Nat /\ MaxPasses \in Nat /\ MaxScrolls \in Nat
BY TourSizes DEF Tour!Sizes

\* What is read of a page, and what is only said to be.
LEMMA ReadOf ==
  ASSUME NEW parts \in SUBSET Tour!Parts, short \in Tour!Shorts, Tour!Reads(parts)
  PROVE  /\ short' \in Tour!Shorts /\ short \subseteq short'
         /\ \A each \in parts : each \notin short' => tree[each] = page[each]
BY DEF Tour!Reads, Tour!Older, Tour!Shorts

\* A gesture that is acknowledged, and rendered or not.
LEMMA Done ==
  ASSUME NEW new, Tour!Does(new)
  PROVE  page' = new /\ (tree' = tree \/ tree' = new)
BY DEF Tour!Does

\* The page of a surface that was just opened.
LEMMA FreshPage ==
  ASSUME NEW text \in Tour!Texts, NEW new \in Tour!Fresh(text)
  PROVE  new \in Tour!PageType /\ new.open = 1..0 /\ new.field = text
<1>1. PICK l \in [Tour!Pagers -> Pages], m \in {1, RowsToMount} :
        new = [open |-> {}, left |-> l, mounted |-> m, field |-> text]
    BY DEF Tour!Fresh
<1>2. l \in [Tour!Pagers -> Nat]
    BY <1>1, TourRoom
<1>3. 1..0 = {} /\ m \in 1..RowsToMount /\ {} \in Tour!Openings
    BY <1>1, TourRoom DEF Tour!Openings
<1>4. new.open = {} /\ new.field = text
    BY <1>1
<1>5. new \in Tour!PageType
    BY <1>1, <1>2, <1>3 DEF Tour!PageType
<1> QED BY <1>3, <1>4, <1>5

LEMMA RevealInitInv == Tour!Init => Tour!RevealInv
<1> SUFFICES ASSUME Tour!Init PROVE Tour!RevealInv
    OBVIOUS
<1>1. /\ pc = (IF task = "inventory" THEN "open" ELSE "query")
      /\ own \in {Tour!Empty, "old"} /\ page \in Tour!Fresh(own)
      /\ tree = page /\ at = 1 /\ held = Tour!Empty /\ turns = 0 /\ shut = {}
      /\ stable = Tour!NoCount
      /\ shown = 0 /\ retired = {} /\ short = {}
      /\ rows = [s \in 1..Surfaces |-> [as |-> "none", lacks |-> {}]]
    BY DEF Tour!Init
<1>2. page \in Tour!PageType /\ page.open = 1..0 /\ page.field = own
    BY <1>1, FreshPage
<1>3. Tour!TypeOK
  <2>1. [as |-> "none", lacks |-> {}] \in Tour!RowType
      BY DEF Tour!RowType
  <2>2. rows \in [1..Surfaces -> Tour!RowType]
      BY <1>1, <2>1
  <2>3. stable \in [last : Nat, times : Nat]
      BY <1>1 DEF Tour!NoCount
  <2>4. pc \in Tour!Shared \cup (IF task = "inventory" THEN Tour!Walking ELSE Tour!Revealing)
      BY <1>1 DEF Tour!Shared, Tour!Walking, Tour!Revealing
  <2>5. at \in 1..Surfaces /\ held \in Tour!Texts /\ turns \in Nat /\ short \in Tour!Shorts
      BY <1>1, TourRoom DEF Tour!Shorts
  <2> QED BY <1>1, <1>2, <2>2, <2>3, <2>4, <2>5 DEF Tour!TypeOK
<1>4. Tour!SectionsAreOpened
  <2>1. 0 \in 0..Depth /\ pc \in {"open", "query"}
      BY <1>1, TourRoom
  <2> QED BY <1>1, <1>2, <2>1 DEF Tour!SectionsAreOpened
<1>5. Tour!LoopsStartAfresh /\ Tour!RowsAreMounted /\ Tour!PagesAreMounted
    BY <1>1 DEF Tour!LoopsStartAfresh, Tour!RowsAreMounted, Tour!PagesAreMounted
<1>6. Tour!FieldIsHeld /\ Tour!FieldIsKnown
    BY <1>1, <1>2 DEF Tour!FieldIsHeld, Tour!FieldIsKnown
<1>7. Tour!CountedWhole
    BY <1>1 DEF Tour!CountedWhole
<1> QED BY <1>3, <1>4, <1>5, <1>6, <1>7 DEF Tour!RevealInv

\* A step that leaves the page, the row and the loops alone.
LEMMA GotoKeeps ==
  ASSUME Tour!RevealInv,
         \/ Tour!Open \/ Tour!Hover \/ Tour!Found \/ Tour!Kept
  PROVE  Tour!RevealInv'
<1> USE DEF Tour!RevealInv
<1>1. /\ UNCHANGED <<task, page, tree, at, own, held, turns, shut, stable, pager, shown, retired,
           rows>>
      /\ short' \in {short, short \cup {"arrival"}}
      /\ \/ pc = "open" /\ pc' = "expand"
         \/ pc = "reopen" /\ pc' = "hold"
         \/ pc = "hover" /\ pc' = "read"
         \/ pc = "found" /\ pc' = "abandon"
         \/ pc = "found" /\ pc' = "clear" /\ Tour!PaintedIn(tree)
         \/ pc = "kept" /\ pc' = "pager"
         \/ pc = "kept" /\ pc' = "again" /\ ~Tour!PaintedIn(tree)
      /\ pc \in {"found", "kept"} /\ "arrival" \notin short' =>
           Tour!PaintedIn(tree) = Tour!PaintedIn(page)
    BY DEF Tour!Open, Tour!Hover, Tour!Found, Tour!Kept, Tour!Goto, Tour!Still, Tour!Arrives,
           Tour!walk, Tour!turn, Tour!loop
<1>2. Tour!TypeOK'
  <2>1. short' \in Tour!Shorts
      BY <1>1 DEF Tour!TypeOK, Tour!Shorts
  <2> QED BY <1>1, <2>1 DEF Tour!TypeOK, Tour!Shared, Tour!Walking, Tour!Revealing
<1>3. \A each \in Tour!Parts : each \notin short' => each \notin short
    BY <1>1
<1>4. Tour!LoopsStartAfresh' /\ Tour!PagesAreMounted'
    BY <1>1, <1>3 DEF Tour!LoopsStartAfresh, Tour!PagesAreMounted, Tour!Parts
<1>5. Tour!RowsAreMounted'
    BY <1>1, <1>3
       DEF Tour!RowsAreMounted, Tour!TypeOK, Tour!Shared, Tour!Walking, Tour!Revealing, Tour!Parts
<1>6. Tour!SectionsAreOpened'
    BY <1>1, <1>3 DEF Tour!SectionsAreOpened, Tour!LoopsStartAfresh, Tour!Parts, Tour!TypeOK,
       Tour!Shared, Tour!Walking, Tour!Revealing
<1>7. Tour!FieldIsHeld'
    BY <1>1, <1>3 DEF Tour!FieldIsHeld, Tour!Parts, Tour!TypeOK, Tour!Shared, Tour!Walking,
       Tour!Revealing
<1>8. Tour!FieldIsKnown'
  <2>1. pc = "found" /\ pc' = "clear" => task \in {"kept", "query"} \/ "arrival" \in short'
      BY <1>1 DEF Tour!FieldIsKnown, Tour!PaintedIn, Tour!TypeOK, Tour!Shared, Tour!Walking
  <2>2. pc = "kept" => page.field = Tour!Empty
      BY DEF Tour!FieldIsKnown, Tour!TypeOK, Tour!Shared, Tour!Walking
  <2>3. pc = "kept" /\ pc' = "again" => task = "query" \/ "arrival" \in short'
      BY <1>1, <2>2
         DEF Tour!FieldIsKnown, Tour!PaintedIn, Tour!TypeOK, Tour!Shared, Tour!Walking
  <2> QED BY <1>1, <2>1, <2>2, <2>3
          DEF Tour!FieldIsKnown, Tour!TypeOK, Tour!Shared, Tour!Walking, Tour!Revealing
<1>9. Tour!CountedWhole'
    BY <1>1 DEF Tour!CountedWhole
<1> QED BY <1>2, <1>4, <1>5, <1>6, <1>7, <1>8, <1>9

\* An error.
LEMMA AbortKeeps == ASSUME Tour!RevealInv, pc \notin {"done", "failed"}, Tour!Abort
     PROVE Tour!RevealInv'
<1> USE DEF Tour!RevealInv
<1>1. /\ UNCHANGED <<task, page, tree, at, own, held, turns, shut, stable, pager, shown, retired,
           rows, short>>
      /\ \/ pc' = "failed"
         \/ /\ pc' = "restore" /\ task = "inventory"
            /\ pc \in {"scroll", "pager", "click", "hover", "read"}
    BY DEF Tour!Abort, Tour!Still, Tour!walk, Tour!turn, Tour!loop
<1>2. Tour!TypeOK'
    BY <1>1 DEF Tour!TypeOK, Tour!Shared, Tour!Walking, Tour!Revealing
<1>3. Tour!LoopsStartAfresh' /\ Tour!RowsAreMounted' /\ Tour!PagesAreMounted'
    BY <1>1 DEF Tour!LoopsStartAfresh, Tour!RowsAreMounted, Tour!PagesAreMounted
<1>4. Tour!SectionsAreOpened'
    BY <1>1 DEF Tour!SectionsAreOpened
<1>5. Tour!FieldIsHeld' /\ Tour!FieldIsKnown'
    BY <1>1 DEF Tour!FieldIsHeld, Tour!FieldIsKnown
<1>6. Tour!CountedWhole'
    BY <1>1 DEF Tour!CountedWhole
<1> QED BY <1>2, <1>3, <1>4, <1>5, <1>6

-----------------------------------------------------------------------------
\* With the outermost sections open, the next one is collapsed and no other.
LEMMA NextSection ==
  ASSUME NEW k \in 0..Depth, NEW t, t.open = 1..k
  PROVE  Tour!Collapsed(t) = (IF k < Depth THEN {k + 1} ELSE {})
<1> USE TourRoom
<1>1. ASSUME NEW d \in 1..Depth, d \notin 1..k, 1..(d - 1) \subseteq 1..k PROVE d = k + 1
  <2>1. d > k
      BY <1>1
  <2>2. d > k + 1 => k + 1 \in 1..(d - 1) /\ k + 1 \notin 1..k
      OBVIOUS
  <2> QED BY <1>1, <2>1, <2>2
<1>2. k < Depth => k + 1 \in 1..Depth /\ k + 1 \notin 1..k /\ 1..((k + 1) - 1) \subseteq 1..k
    OBVIOUS
<1>3. k = Depth => 1..Depth \ t.open = {}
    OBVIOUS
<1>4. Tour!Collapsed(t) = {d \in 1..Depth : d \notin 1..k /\ 1..(d - 1) \subseteq 1..k}
    BY DEF Tour!Collapsed
<1>5. CASE k < Depth
    BY <1>1, <1>2, <1>4, <1>5
<1>6. CASE k = Depth
    BY <1>4, <1>6
<1> QED BY <1>5, <1>6

LEMMA OpenNext == ASSUME NEW k \in Nat PROVE Tour!Toggle(1..k, k + 1) = 1..(k + 1)
<1>1. k + 1 \notin 1..k
    OBVIOUS
<1>2. (1..k) \cup {k + 1} = 1..(k + 1)
    OBVIOUS
<1> QED BY <1>1, <1>2 DEF Tour!Toggle

\* A disclosure is pressed.
LEMMA Toggled ==
  ASSUME NEW p \in Tour!PageType, NEW d \in 1..Depth, NEW new,
         new = [p EXCEPT !.open = Tour!Toggle(@, d)]
  PROVE  /\ new \in Tour!PageType /\ new.open = Tour!Toggle(p.open, d) /\ new.left = p.left
         /\ new.mounted = p.mounted /\ new.field = p.field
<1>1. /\ p.open \in Tour!Openings /\ p.left \in [Tour!Pagers -> Nat]
      /\ p.mounted \in 1..RowsToMount /\ p.field \in Tour!Texts
    BY DEF Tour!PageType
<1> DEFINE o == Tour!Toggle(p.open, d)
<1>2. o \in Tour!Openings
    BY <1>1 DEF Tour!Openings, Tour!Toggle
<1>3. new = [open |-> o, left |-> p.left, mounted |-> p.mounted, field |-> p.field]
    BY DEF Tour!PageType
<1> HIDE DEF o
<1>4. new \in Tour!PageType
    BY <1>1, <1>2, <1>3 DEF Tour!PageType
<1> QED BY <1>3, <1>4 DEF o

\* A pass over the disclosures: while no older tree was read in between, it
\* finds the next section and presses it.
LEMMA ExpandKeeps == ASSUME Tour!RevealInv, Tour!ExpandPass \/ Tour!PressDisclosure
     PROVE Tour!RevealInv'
<1> USE TourRoom DEF Tour!RevealInv
<1>1. /\ pc = "expand" /\ pc' \in {"expand", "reopen"} /\ task = "inventory"
      /\ UNCHANGED <<task, at, own, held, stable, pager, shown, retired, rows>>
      /\ page \in Tour!PageType /\ tree \in Tour!PageType /\ turns \in Nat
      /\ short \in Tour!Shorts /\ shut \subseteq 1..Depth /\ stable = Tour!NoCount
      /\ page.field = own /\ retired = {}
    BY DEF Tour!ExpandPass, Tour!PressDisclosure, Tour!walk, Tour!TypeOK, Tour!Shared,
           Tour!Walking, Tour!Revealing, Tour!LoopsStartAfresh, Tour!FieldIsHeld
<1>2. "open" \notin short =>
        \E k \in 0..Depth : page.open = 1..k /\ (shut = {} \/ (shut = {k + 1} /\ k < Depth))
    BY <1>1 DEF Tour!SectionsAreOpened
<1>3. /\ page' \in Tour!PageType /\ tree' \in {tree, page'} /\ page'.field = page.field
      /\ page'.left = page.left
      /\ turns' \in Nat /\ shut' \subseteq 1..Depth
      /\ short' \in Tour!Shorts /\ short \subseteq short'
      /\ "open" \notin short' =>
           \E k \in 0..Depth :
             /\ page'.open = 1..k
             /\ pc' = "expand" => shut' = {} \/ (shut' = {k + 1} /\ k < Depth)
             /\ pc' = "reopen" => k = Depth
  <2>1. CASE Tour!ExpandPass
    <3>1. /\ UNCHANGED <<page, tree>> /\ shut = {}
          /\ turns' = IF shut' = {} THEN 0 ELSE turns + 1
          /\ pc' = IF shut' = {} THEN "reopen" ELSE "expand"
          /\ \/ shut' = {} /\ short' = short \cup {"open"}
             \/ shut' = Tour!Collapsed(tree) /\ Tour!Reads({"open"})
        BY <2>1 DEF Tour!ExpandPass, Tour!Still
    <3>2. /\ short' \in Tour!Shorts /\ short \subseteq short'
          /\ "open" \notin short' => tree.open = page.open /\ shut' = Tour!Collapsed(tree)
      <4>1. CASE shut' = {} /\ short' = short \cup {"open"}
          BY <1>1, <4>1 DEF Tour!Shorts, Tour!Parts
      <4>2. CASE shut' = Tour!Collapsed(tree) /\ Tour!Reads({"open"})
        <5>1. {"open"} \in SUBSET Tour!Parts
            BY DEF Tour!Parts
        <5> QED BY <1>1, <4>2, <5>1, ReadOf
      <4> QED BY <3>1, <4>1, <4>2
    <3>3. shut' \subseteq 1..Depth
        BY <3>1 DEF Tour!Collapsed
    <3>4. ASSUME "open" \notin short'
          PROVE  \E k \in 0..Depth :
                   /\ page'.open = 1..k
                   /\ pc' = "expand" => shut' = {} \/ (shut' = {k + 1} /\ k < Depth)
                   /\ pc' = "reopen" => k = Depth
      <4>1. PICK k \in 0..Depth : page.open = 1..k
          BY <1>2, <3>2, <3>4
      <4>2. shut' = IF k < Depth THEN {k + 1} ELSE {}
          BY <3>2, <3>4, <4>1, NextSection
      <4> QED BY <3>1, <4>1, <4>2
    <3> QED BY <1>1, <3>1, <3>2, <3>3, <3>4
  <2>2. CASE Tour!PressDisclosure
    <3>1. PICK d \in shut :
            /\ shut' = shut \ {d}
            /\ \/ d \notin tree.open /\ Tour!Does([page EXCEPT !.open = Tour!Toggle(@, d)])
               \/ UNCHANGED <<page, tree>>
        BY <2>2 DEF Tour!PressDisclosure, Tour!Still
    <3>2. /\ short' \in Tour!Shorts /\ short \subseteq short' /\ turns' = turns /\ pc' = pc
      <4>1. Tour!Reads({"open"}) /\ {"open"} \in SUBSET Tour!Parts
          BY <2>2 DEF Tour!PressDisclosure, Tour!Parts
      <4> QED BY <1>1, <2>2, <4>1, ReadOf DEF Tour!PressDisclosure
    <3>3. d \in 1..Depth
        BY <1>1, <3>1
    <3>4. CASE UNCHANGED <<page, tree>>
        BY <1>1, <1>2, <3>1, <3>2, <3>4
    <3>5. CASE Tour!Does([page EXCEPT !.open = Tour!Toggle(@, d)])
      <4>1. /\ page' = [page EXCEPT !.open = Tour!Toggle(@, d)] /\ tree' \in {tree, page'}
          BY <3>5, Done
      <4>2. /\ page' \in Tour!PageType /\ page'.open = Tour!Toggle(page.open, d)
            /\ page'.left = page.left /\ page'.field = page.field
          BY <1>1, <3>3, <4>1, Toggled
      <4>3. ASSUME "open" \notin short'
            PROVE  \E k \in 0..Depth : page'.open = 1..k /\ shut' = {}
        <5>1. PICK k \in 0..Depth : page.open = 1..k /\ shut = {k + 1} /\ k < Depth
            BY <1>2, <3>1, <3>2, <4>3
        <5>2. d = k + 1 /\ shut' = {} /\ k + 1 \in 0..Depth /\ page'.open = 1..(k + 1)
            BY <3>1, <4>2, <5>1, OpenNext
        <5> QED BY <5>2
      <4> QED BY <1>1, <3>1, <3>2, <4>1, <4>2, <4>3
    <3> QED BY <3>1, <3>4, <3>5
  <2> QED BY <2>1, <2>2
<1>4. Tour!TypeOK'
    BY <1>1, <1>3 DEF Tour!TypeOK, Tour!Shared, Tour!Walking
<1>5. Tour!SectionsAreOpened'
    BY <1>1, <1>3 DEF Tour!SectionsAreOpened
<1>6. Tour!LoopsStartAfresh' /\ Tour!RowsAreMounted' /\ Tour!PagesAreMounted'
    BY <1>1 DEF Tour!LoopsStartAfresh, Tour!RowsAreMounted, Tour!PagesAreMounted
<1>7. Tour!FieldIsHeld' /\ Tour!FieldIsKnown'
    BY <1>1, <1>3 DEF Tour!FieldIsHeld, Tour!FieldIsKnown
<1>8. Tour!CountedWhole'
    BY <1>1 DEF Tour!CountedWhole
<1> QED BY <1>4, <1>5, <1>6, <1>7, <1>8

-----------------------------------------------------------------------------
\* The field is written.
LEMMA Written ==
  ASSUME NEW p \in Tour!PageType, NEW text \in Tour!Texts, NEW new,
       new = [p EXCEPT !.field = text]
  PROVE  /\ new \in Tour!PageType /\ new.field = text /\ new.open = p.open /\ new.left = p.left
         /\ new.mounted = p.mounted
BY DEF Tour!PageType

\* A row is scrolled into the page.
LEMMA Scrolled ==
  ASSUME NEW p \in Tour!PageType, NEW new,
         new = [p EXCEPT !.mounted = IF @ < RowsToMount THEN @ + 1 ELSE @]
  PROVE  /\ new \in Tour!PageType /\ new.field = p.field /\ new.open = p.open /\ new.left = p.left
         /\ p.mounted < RowsToMount => new.mounted = p.mounted + 1
         /\ p.mounted = RowsToMount => new.mounted = RowsToMount
         /\ p.mounted \in 1..RowsToMount
<1> USE TourRoom
<1>1. /\ p.open \in Tour!Openings /\ p.left \in [Tour!Pagers -> Nat] /\ p.mounted \in 1..RowsToMount
      /\ p.field \in Tour!Texts
    BY DEF Tour!PageType
<1> DEFINE m == IF p.mounted < RowsToMount THEN p.mounted + 1 ELSE p.mounted
<1>2. new = [open |-> p.open, left |-> p.left, mounted |-> m, field |-> p.field]
    BY DEF Tour!PageType
<1>3. m \in 1..RowsToMount
    BY <1>1
<1>4. new \in Tour!PageType
    BY <1>1, <1>2, <1>3 DEF Tour!PageType
<1> QED BY <1>1, <1>2, <1>4

\* A page is loaded behind a pager.
LEMMA Paged ==
  ASSUME NEW p \in Tour!PageType, NEW g \in Tour!Pagers, NEW new,
         new = [p EXCEPT !.left[g] = IF @ > 0 THEN @ - 1 ELSE @]
  PROVE  /\ new \in Tour!PageType /\ new.field = p.field /\ new.open = p.open
         /\ new.mounted = p.mounted /\ p.left[g] \in Nat
         /\ new.left[g] = IF p.left[g] > 0 THEN p.left[g] - 1 ELSE p.left[g]
         /\ \A q \in Tour!Pagers \ {g} : new.left[q] = p.left[q]
<1>1. /\ p.open \in Tour!Openings /\ p.left \in [Tour!Pagers -> Nat] /\ p.mounted \in 1..RowsToMount
      /\ p.field \in Tour!Texts
    BY DEF Tour!PageType
<1> DEFINE l == [p.left EXCEPT ![g] = IF @ > 0 THEN @ - 1 ELSE @]
<1>2. l \in [Tour!Pagers -> Nat]
    BY <1>1
<1>3. /\ l[g] = IF p.left[g] > 0 THEN p.left[g] - 1 ELSE p.left[g]
      /\ \A q \in Tour!Pagers \ {g} : l[q] = p.left[q]
    BY <1>1
<1> HIDE DEF l
<1>4. new = [open |-> p.open, left |-> l, mounted |-> p.mounted, field |-> p.field]
    BY DEF Tour!PageType, l
<1>5. new \in Tour!PageType
    BY <1>1, <1>2, <1>4 DEF Tour!PageType
<1> QED BY <1>1, <1>3, <1>4, <1>5

-----------------------------------------------------------------------------
\* On to the next surface, or done: from a step that leaves the field as the
\* inventory found it.
LEMMA NextSurfaceKeeps ==
  ASSUME Tour!RevealInv, Tour!NextSurface, short' = {}, task = "inventory", page.field = own,
         rows' \in [1..Surfaces -> Tour!RowType], Tour!CountedWhole'
  PROVE  Tour!RevealInv'
<1> USE TourRoom DEF Tour!RevealInv
<1>1. /\ task' = "inventory" /\ own' = own /\ held' = held /\ turns' = 0 /\ shut' = {}
      /\ stable' = Tour!NoCount /\ retired' = {} /\ shown' = 0
      /\ \/ at < Surfaces /\ at' = at + 1 /\ pc' = "open"
            /\ page' \in Tour!Fresh(page.field) /\ tree' = page'
         \/ at' = at /\ pc' = "done" /\ page' = page /\ tree' = tree
    BY DEF Tour!NextSurface, Tour!Still
<1>2. /\ page \in Tour!PageType /\ tree \in Tour!PageType /\ at \in 1..Surfaces
      /\ held \in Tour!Texts /\ own \in {Tour!Empty, "old"} /\ page.field \in Tour!Texts
    BY DEF Tour!TypeOK, Tour!PageType
<1>3. /\ page' \in Tour!PageType /\ tree' \in Tour!PageType /\ page'.field = own
      /\ tree' = page' \/ tree' = tree
      /\ pc' = "open" => page'.open = 1..0
  <2>1. CASE page' \in Tour!Fresh(page.field) /\ tree' = page'
      BY <1>2, <2>1, FreshPage
  <2>2. CASE pc' = "done" /\ page' = page /\ tree' = tree
      BY <1>2, <2>2
  <2> QED BY <1>1, <2>1, <2>2
<1>4. Tour!TypeOK'
  <2>1. stable' \in [last : Nat, times : Nat]
      BY <1>1 DEF Tour!NoCount
  <2> QED BY <1>1, <1>2, <1>3, <2>1 DEF Tour!TypeOK, Tour!Shared, Tour!Walking, Tour!Shorts
<1>5. Tour!SectionsAreOpened'
  <2>1. CASE pc' = "open"
    <3>1. 0 \in 0..Depth
        OBVIOUS
    <3> QED BY <1>3, <2>1, <3>1 DEF Tour!SectionsAreOpened
  <2>2. CASE pc' = "done"
      BY <2>2 DEF Tour!SectionsAreOpened
  <2> QED BY <1>1, <2>1, <2>2
<1>6. Tour!LoopsStartAfresh' /\ Tour!RowsAreMounted' /\ Tour!PagesAreMounted'
    BY <1>1 DEF Tour!LoopsStartAfresh, Tour!RowsAreMounted, Tour!PagesAreMounted
<1>7. Tour!FieldIsHeld' /\ Tour!FieldIsKnown'
    BY <1>1, <1>3 DEF Tour!FieldIsHeld, Tour!FieldIsKnown
<1> QED BY <1>4, <1>5, <1>6, <1>7

\* A row that misses nothing it should have.
LEMMA NewRow ==
  ASSUME Tour!RevealInv, NEW as \in {"unopened", "error", "counted"},
         rows' = rows \/ Tour!Row(as, {})
  PROVE  rows' \in [1..Surfaces -> Tour!RowType] /\ Tour!CountedWhole'
<1> USE DEF Tour!RevealInv
<1>1. rows \in [1..Surfaces -> Tour!RowType] /\ at \in 1..Surfaces
    BY DEF Tour!TypeOK
<1>2. CASE rows' = rows
    BY <1>1, <1>2 DEF Tour!CountedWhole
<1>3. CASE Tour!Row(as, {})
  <2>1. [as |-> as, lacks |-> {}] \in Tour!RowType
      BY <1>1 DEF Tour!RowType
  <2>2. rows' = [rows EXCEPT ![at] = [as |-> as, lacks |-> {}]]
      BY <1>3 DEF Tour!Row
  <2>3. rows' \in [1..Surfaces -> Tour!RowType]
      BY <1>1, <2>1, <2>2
  <2>4. /\ DOMAIN rows' = 1..Surfaces /\ DOMAIN rows = 1..Surfaces
        /\ \A s \in 1..Surfaces :
             rows'[s].lacks = IF s = at THEN {} ELSE rows[s].lacks
        /\ \A s \in 1..Surfaces \ {at} : rows'[s].as = rows[s].as
      BY <1>1, <2>2
  <2> QED BY <1>1, <2>3, <2>4 DEF Tour!CountedWhole
<1> QED BY <1>2, <1>3

LEMMA RowEndKeeps == ASSUME Tour!RevealInv, Tour!CannotOpen \/ Tour!EndRow PROVE Tour!RevealInv'
<1> USE DEF Tour!RevealInv
<1>1. task = "inventory" /\ page.field = own
    BY DEF Tour!CannotOpen, Tour!EndRow, Tour!TypeOK, Tour!Shared, Tour!Walking, Tour!Revealing,
           Tour!FieldIsHeld
<1>2. /\ short' = {} /\ Tour!NextSurface
      /\ rows' = rows \/ Tour!Row("unopened", {}) \/ Tour!Row("error", {})
    BY DEF Tour!CannotOpen, Tour!EndRow
<1>3. rows' \in [1..Surfaces -> Tour!RowType] /\ Tour!CountedWhole'
    BY <1>2, NewRow
<1> QED BY <1>1, <1>2, <1>3, NextSurfaceKeeps

-----------------------------------------------------------------------------
\* The field is written, by the inventory that holds it empty and gives it
\* back, or by the check that types and clears its query.
LEMMA WritingKeeps ==
  ASSUME Tour!RevealInv, Tour!Hold \/ Tour!Restore \/ Tour!TypeQuery \/ Tour!Clear \/
       Tour!Abandon \/ Tour!Again
  PROVE  Tour!RevealInv'
<1> USE TourRoom DEF Tour!RevealInv
<1>1. /\ page \in Tour!PageType /\ tree \in Tour!PageType /\ held \in Tour!Texts
      /\ page.field \in Tour!Texts /\ tree.field \in Tour!Texts /\ own \in {Tour!Empty, "old"}
      /\ short \in Tour!Shorts
    BY DEF Tour!TypeOK, Tour!PageType
<1>2. /\ UNCHANGED <<task, at, own, turns, shut, stable, shown, retired, rows>>
      /\ held' \in Tour!Texts /\ page' \in Tour!PageType /\ tree' \in Tour!PageType
      /\ short' \in Tour!Shorts /\ short \subseteq short'
      /\ page'.open = page.open /\ page'.left = page.left /\ page'.mounted = page.mounted
      /\ tree'.field \in {tree.field, page'.field}
      /\ \/ /\ pc = "hold" /\ pc' = "scroll" /\ held' = tree.field
            /\ page'.field = IF held' # Tour!Empty THEN Tour!Empty ELSE page.field
            /\ "field" \notin short' => tree.field = page.field
         \/ /\ pc = "restore" /\ pc' = "row" /\ held' = held
            /\ page'.field = IF held # Tour!Empty THEN held ELSE page.field
         \/ /\ task # "inventory" /\ short' = short
            /\ \/ pc = "query" /\ pc' = "found" /\ page'.field = "query"
               \/ pc = "clear" /\ pc' = "kept" /\ page'.field = Tour!Empty
               \/ pc = "abandon" /\ pc' = "pager" /\ page'.field = Tour!Empty
               \/ pc = "again" /\ pc' = "pager" /\ page'.field = "query"
  <2>1. ASSUME NEW text \in Tour!Texts, Tour!Does([page EXCEPT !.field = text])
        PROVE  /\ page' \in Tour!PageType /\ tree' \in Tour!PageType /\ page'.field = text
               /\ page'.open = page.open /\ page'.left = page.left
               /\ page'.mounted = page.mounted /\ tree'.field \in {tree.field, page'.field}
    <3>1. page' = [page EXCEPT !.field = text] /\ (tree' = tree \/ tree' = page')
        BY <2>1, Done
    <3> QED BY <1>1, <3>1, Written
  <2>2. ASSUME NEW text \in Tour!Texts, NEW p, Tour!Type(text, p)
        PROVE  /\ UNCHANGED <<task, at, own, held, turns, shut, stable, shown, retired, rows,
                              short>>
               /\ Tour!Does([page EXCEPT !.field = text]) /\ pc' = p
      BY <2>2 DEF Tour!Type, Tour!walk, Tour!turn, Tour!loop
  <2>3. pc \in {"query", "clear", "abandon", "again"} => task # "inventory"
      BY DEF Tour!TypeOK, Tour!Shared, Tour!Walking
  <2>4. CASE Tour!TypeQuery
      BY <1>1, <2>1, <2>2, <2>3, <2>4 DEF Tour!TypeQuery
  <2>5. CASE Tour!Clear
      BY <1>1, <2>1, <2>2, <2>3, <2>5 DEF Tour!Clear
  <2>6. CASE Tour!Abandon
      BY <1>1, <2>1, <2>2, <2>3, <2>6 DEF Tour!Abandon
  <2>7. CASE Tour!Again
      BY <1>1, <2>1, <2>2, <2>3, <2>7 DEF Tour!Again
  <2>8. CASE Tour!Hold
    <3>1. /\ UNCHANGED <<task, at, own, turns, shut, stable, shown, retired, rows>>
          /\ pc = "hold" /\ pc' = "scroll" /\ held' = tree.field
          /\ \/ tree.field # Tour!Empty /\ Tour!Does([page EXCEPT !.field = Tour!Empty])
             \/ tree.field = Tour!Empty /\ page' = page /\ tree' = tree
          /\ Tour!Reads({"field"})
        BY <2>8 DEF Tour!Hold, Tour!Still, Tour!turn
    <3>2. {"field"} \in SUBSET Tour!Parts
        BY DEF Tour!Parts
    <3>3. /\ short' \in Tour!Shorts /\ short \subseteq short'
          /\ "field" \notin short' => tree.field = page.field
        BY <1>1, <3>1, <3>2, ReadOf
    <3>4. CASE tree.field # Tour!Empty /\ Tour!Does([page EXCEPT !.field = Tour!Empty])
        BY <1>1, <2>1, <3>1, <3>3, <3>4
    <3>5. CASE tree.field = Tour!Empty /\ page' = page /\ tree' = tree
        BY <1>1, <3>1, <3>3, <3>5
    <3> QED BY <3>1, <3>4, <3>5
  <2>9. CASE Tour!Restore
    <3>1. /\ UNCHANGED <<task, at, own, held, turns, shut, stable, shown, retired, rows, short>>
          /\ pc = "restore" /\ pc' = "row"
          /\ \/ held # Tour!Empty /\ Tour!Does([page EXCEPT !.field = held])
             \/ held = Tour!Empty /\ page' = page /\ tree' = tree
        BY <2>9 DEF Tour!Restore, Tour!Still, Tour!walk, Tour!turn, Tour!loop
    <3>2. CASE held # Tour!Empty /\ Tour!Does([page EXCEPT !.field = held])
        BY <1>1, <2>1, <3>1, <3>2
    <3>3. CASE held = Tour!Empty /\ page' = page /\ tree' = tree
        BY <1>1, <3>1, <3>3
    <3> QED BY <3>1, <3>2, <3>3
  <2> QED BY <2>4, <2>5, <2>6, <2>7, <2>8, <2>9
<1>3. Tour!TypeOK'
    BY <1>2 DEF Tour!TypeOK, Tour!Shared, Tour!Walking, Tour!Revealing
<1>4. Tour!SectionsAreOpened'
    BY <1>2 DEF Tour!SectionsAreOpened, Tour!TypeOK, Tour!Shared, Tour!Walking, Tour!Revealing
<1>5. Tour!LoopsStartAfresh' /\ Tour!PagesAreMounted'
    BY <1>2 DEF Tour!LoopsStartAfresh, Tour!PagesAreMounted
<1>6. Tour!RowsAreMounted'
  <2>1. pc' = "scroll" => stable'.times = 0 /\ stable'.last = 0
      BY <1>2 DEF Tour!LoopsStartAfresh, Tour!NoCount
  <2>2. page'.mounted \in 1..RowsToMount
      BY <1>2 DEF Tour!PageType
  <2>3. task' = "inventory" => pc' \notin {"pager", "click", "hover", "read"}
      BY <1>2
  <2> QED BY <2>1, <2>2, <2>3 DEF Tour!RowsAreMounted
<1>7. Tour!FieldIsHeld'
    BY <1>2 DEF Tour!FieldIsHeld
<1>8. Tour!FieldIsKnown'
    BY <1>2 DEF Tour!FieldIsKnown, Tour!TypeOK, Tour!Shared, Tour!Walking, Tour!Revealing
<1>9. Tour!CountedWhole'
    BY <1>2 DEF Tour!CountedWhole
<1> QED BY <1>3, <1>4, <1>5, <1>6, <1>7, <1>8, <1>9

-----------------------------------------------------------------------------
\* A scroll of the inventory: it stops only when nothing new came in two
\* turns, or when the turns ran out.
LEMMA ScrollingKeeps == ASSUME Tour!RevealInv, Tour!Scroll PROVE Tour!RevealInv'
<1> USE TourRoom DEF Tour!RevealInv
<1> DEFINE same == tree.mounted = stable.last
           times == IF same THEN stable.times + 1 ELSE 0
           over == turns = MaxScrolls \/ times = 2
<1>1. /\ page \in Tour!PageType /\ tree \in Tour!PageType /\ turns \in Nat
      /\ stable \in [last : Nat, times : Nat] /\ short \in Tour!Shorts
      /\ page.mounted \in 1..RowsToMount /\ tree.mounted \in 1..RowsToMount
    BY DEF Tour!TypeOK, Tour!PageType
<1>2. /\ UNCHANGED <<task, at, own, held, shut, shown, retired, rows>>
      /\ pc = "scroll" /\ task = "inventory"
    BY DEF Tour!Scroll, Tour!walk, Tour!TypeOK, Tour!Shared, Tour!Revealing
<1>3. \/ /\ over /\ pc' = "pager" /\ turns' = 0 /\ stable' = Tour!NoCount
         /\ page' = page /\ tree' = tree
      \/ /\ ~over /\ pc' = "scroll" /\ turns' = turns + 1
         /\ stable' = [last |-> tree.mounted, times |-> times]
         /\ Tour!Does([page EXCEPT !.mounted = IF @ < RowsToMount THEN @ + 1 ELSE @])
    BY <1>2 DEF Tour!Scroll, Tour!Still
<1>4. /\ short' \in Tour!Shorts /\ short \subseteq short'
      /\ "mounted" \notin short' => turns # MaxScrolls /\ tree.mounted = page.mounted
  <2>1. CASE turns = MaxScrolls /\ short' = short \cup {"mounted"}
      BY <1>1, <2>1 DEF Tour!Shorts, Tour!Parts
  <2>2. CASE turns # MaxScrolls /\ Tour!Reads({"mounted"})
    <3>1. {"mounted"} \in SUBSET Tour!Parts
        BY DEF Tour!Parts
    <3> QED BY <1>1, <2>2, <3>1, ReadOf
  <2> QED BY <2>1, <2>2 DEF Tour!Scroll
<1>5. "mounted" \notin short' /\ same => page.mounted = RowsToMount
    BY <1>1, <1>2, <1>4 DEF Tour!RowsAreMounted
<1>6. times \in Nat /\ (times > 0 => same)
    BY <1>1
<1>7. /\ page' \in Tour!PageType /\ tree' \in Tour!PageType /\ turns' \in Nat
      /\ stable' \in [last : Nat, times : Nat]
      /\ page'.open = page.open /\ page'.left = page.left /\ page'.field = page.field
      /\ tree'.field \in {tree.field, page.field}
      /\ pc' \in {"pager", "scroll"}
      /\ "mounted" \notin short' =>
           /\ pc' = "pager" => page'.mounted = RowsToMount
           /\ pc' = "scroll" => /\ stable'.times > 0 => page'.mounted = RowsToMount
                                /\ \/ stable'.last < page'.mounted
                                   \/ page'.mounted = RowsToMount
  <2>1. CASE over /\ pc' = "pager"
    <3>1. /\ over /\ pc' = "pager" /\ turns' = 0 /\ stable' = Tour!NoCount
          /\ page' = page /\ tree' = tree
        BY <1>3, <2>1
    <3>2. stable' \in [last : Nat, times : Nat]
        BY <3>1 DEF Tour!NoCount
    <3>3. "mounted" \notin short' => page.mounted = RowsToMount
        BY <1>4, <1>5, <1>6, <3>1
    <3> QED BY <1>1, <3>1, <3>2, <3>3
  <2>2. CASE ~over /\ pc' = "scroll"
    <3>1. /\ turns' = turns + 1 /\ stable' = [last |-> tree.mounted, times |-> times]
          /\ page' = [page EXCEPT !.mounted = IF @ < RowsToMount THEN @ + 1 ELSE @]
          /\ tree' = tree \/ tree' = page'
        BY <1>3, <2>2, Done
    <3>2. /\ page' \in Tour!PageType /\ page'.field = page.field /\ page'.open = page.open
          /\ page'.left = page.left
          /\ page.mounted < RowsToMount => page'.mounted = page.mounted + 1
          /\ page.mounted = RowsToMount => page'.mounted = RowsToMount
        BY <1>1, <3>1, Scrolled
    <3> HIDE DEF times
    <3> HIDE DEF over
    <3>3. turns' = turns + 1 /\ (tree' = tree \/ tree' = page')
        BY <3>1
    <3>4. /\ turns' \in Nat /\ tree' \in Tour!PageType
          /\ tree'.field \in {tree.field, page.field}
        BY <1>1, <3>2, <3>3
    <3>5. stable'.last = tree.mounted /\ stable'.times = times
          /\ stable' \in [last : Nat, times : Nat]
        BY <1>1, <1>6, <3>1
    <3> HIDE DEF same
    <3>6. "mounted" \notin short' =>
            /\ stable'.times > 0 => page'.mounted = RowsToMount
            /\ stable'.last < page'.mounted \/ page'.mounted = RowsToMount
        BY <1>1, <1>4, <1>5, <1>6, <3>2, <3>5
    <3> QED BY <2>2, <3>2, <3>5, <3>6, <3>4
  <2> QED BY <1>3, <2>1, <2>2
<1> HIDE DEF over, times, same
<1>8. Tour!TypeOK'
    BY <1>2, <1>4, <1>7 DEF Tour!TypeOK, Tour!Shared, Tour!Walking
<1>9. Tour!SectionsAreOpened'
    BY <1>2, <1>4, <1>7 DEF Tour!SectionsAreOpened
<1>10. Tour!LoopsStartAfresh' /\ Tour!PagesAreMounted'
    BY <1>2, <1>4, <1>7 DEF Tour!LoopsStartAfresh, Tour!PagesAreMounted
<1>11. Tour!RowsAreMounted'
    BY <1>7 DEF Tour!RowsAreMounted
<1>12. Tour!FieldIsHeld' /\ Tour!FieldIsKnown'
    BY <1>2, <1>4, <1>7 DEF Tour!FieldIsHeld, Tour!FieldIsKnown
<1>13. Tour!CountedWhole'
    BY <1>2 DEF Tour!CountedWhole
<1> QED BY <1>8, <1>9, <1>10, <1>11, <1>12, <1>13

\* A check that scrolls for its target.
LEMMA LookingKeeps == ASSUME Tour!RevealInv, Tour!LookAndScroll PROVE Tour!RevealInv'
<1> USE TourRoom DEF Tour!RevealInv
<1>1. /\ UNCHANGED <<task, at, own, held, shut, stable, shown, retired, rows, short>>
      /\ pc = "look" /\ pc' \in {"look", "done"} /\ task # "inventory" /\ turns' \in Nat
      /\ page \in Tour!PageType /\ tree \in Tour!PageType
    BY DEF Tour!LookAndScroll, Tour!walk, Tour!TypeOK, Tour!Shared, Tour!Walking
<1>2. page' \in Tour!PageType /\ tree' \in Tour!PageType /\ page'.field = page.field
      /\ page'.left = page.left
  <2>1. CASE UNCHANGED <<page, tree>>
      BY <1>1, <2>1
  <2>2. CASE Tour!Does([page EXCEPT !.mounted = IF @ < RowsToMount THEN @ + 1 ELSE @])
      BY <1>1, <2>2, Done, Scrolled
  <2> QED BY <2>1, <2>2 DEF Tour!LookAndScroll, Tour!Still
<1>3. Tour!TypeOK'
    BY <1>1, <1>2 DEF Tour!TypeOK, Tour!Shared, Tour!Revealing
<1>4. Tour!SectionsAreOpened' /\ Tour!LoopsStartAfresh' /\ Tour!RowsAreMounted'
    BY <1>1 DEF Tour!SectionsAreOpened, Tour!LoopsStartAfresh, Tour!RowsAreMounted
<1>5. Tour!PagesAreMounted'
    BY <1>1, <1>2 DEF Tour!PagesAreMounted
<1>6. Tour!FieldIsHeld' /\ Tour!FieldIsKnown'
    BY <1>1, <1>2 DEF Tour!FieldIsHeld, Tour!FieldIsKnown
<1>7. Tour!CountedWhole'
    BY <1>1 DEF Tour!CountedWhole
<1> QED BY <1>3, <1>4, <1>5, <1>6, <1>7

-----------------------------------------------------------------------------
\* The pagers, one after the other, each until nothing is left behind it in
\* the tree, which is nothing left at all while the tree is the page.
LEMMA PagingKeeps == ASSUME Tour!RevealInv,
     Tour!NextPager \/ Tour!ClickPager \/ Tour!ClickRefused PROVE Tour!RevealInv'
<1> USE TourRoom DEF Tour!RevealInv
<1>1. /\ page \in Tour!PageType /\ tree \in Tour!PageType /\ turns \in Nat /\ shown \in Nat
      /\ page.left \in [Tour!Pagers -> Nat] /\ tree.left \in [Tour!Pagers -> Nat]
      /\ short \in Tour!Shorts
    BY DEF Tour!TypeOK, Tour!PageType
<1>2. /\ UNCHANGED <<task, at, own, held, shut, stable, rows>> /\ pc \in {"pager", "click"}
    BY DEF Tour!NextPager, Tour!ClickPager, Tour!ClickRefused, Tour!walk
<1>3. /\ retired \subseteq Tour!Pagers /\ (pc = "click" => pager \in Tour!Pagers)
      /\ "left" \notin short => /\ \A p \in retired : page.left[p] = 0
                                /\ pc = "click" => shown = page.left[pager] /\ shown > 0
    BY DEF Tour!PagesAreMounted
<1>4. /\ page' \in Tour!PageType /\ tree' \in Tour!PageType /\ turns' \in Nat /\ shown' \in Nat
      /\ page'.open = page.open /\ page'.mounted = page.mounted /\ page'.field = page.field
      /\ tree'.field \in {tree.field, page.field}
      /\ short' \in Tour!Shorts /\ short \subseteq short' /\ short' \subseteq short \cup {"left"}
      /\ retired' \subseteq Tour!Pagers /\ pc' \in {"pager", "click", Tour!AfterPagers}
      /\ pc' = "click" => pager' \in Tour!Pagers
      /\ "left" \notin short' =>
           /\ \A p \in retired' : page'.left[p] = 0
           /\ pc' = "click" => shown' = page'.left[pager'] /\ shown' > 0
           /\ pc' = Tour!AfterPagers => \A p \in Tour!Pagers : page'.left[p] = 0
  <2> USE DEF Tour!AfterPagers
  <2>1. CASE Tour!NextPager
    <3>1. /\ turns' = 0 /\ retired' = retired /\ page' = page /\ tree' = tree
          /\ \/ /\ {p \in Tour!Pagers \ retired : tree.left[p] > 0} = {}
                /\ pc' = Tour!AfterPagers /\ shown' = shown
             \/ /\ pc' = "click" /\ pager' \in Tour!Pagers
                /\ tree.left[pager'] > 0 /\ shown' = tree.left[pager']
          /\ Tour!Reads({"left"})
        BY <2>1 DEF Tour!NextPager, Tour!Still
    <3>2. {"left"} \in SUBSET Tour!Parts
        BY DEF Tour!Parts
    <3>3. /\ short' \in Tour!Shorts /\ short \subseteq short'
          /\ short' \subseteq short \cup {"left"}
          /\ "left" \notin short' => tree.left = page.left
        BY <1>1, <3>1, <3>2, ReadOf DEF Tour!Reads, Tour!Older
    <3>4. "left" \notin short' /\ pc' # "click" => \A p \in Tour!Pagers : page.left[p] = 0
        BY <1>1, <1>3, <3>1, <3>3
    <3>5. shown' \in Nat
        BY <1>1, <3>1
    <3> QED BY <1>1, <1>3, <3>1, <3>3, <3>4, <3>5
  <2>2. CASE Tour!ClickPager
    <3>1. /\ pc = "click" /\ pager \in Tour!Pagers
          /\ page' = [page EXCEPT !.left[pager] = IF @ > 0 THEN @ - 1 ELSE @]
          /\ tree' = tree \/ tree' = page'
        BY <1>3, <2>2, Done DEF Tour!ClickPager
    <3>2. /\ page' \in Tour!PageType /\ page'.field = page.field /\ page'.open = page.open
          /\ page'.mounted = page.mounted /\ page.left[pager] \in Nat
          /\ page'.left[pager] = IF page.left[pager] > 0 THEN page.left[pager] - 1 ELSE
               page.left[pager]
          /\ \A q \in Tour!Pagers \ {pager} : page'.left[q] = page.left[q]
        BY <1>1, <3>1, Paged
    <3>3. tree' \in Tour!PageType /\ tree'.field \in {tree.field, page.field}
          /\ tree'.left \in [Tour!Pagers -> Nat]
        BY <1>1, <3>1, <3>2 DEF Tour!PageType
    <3>4. /\ short' \in Tour!Shorts /\ short \subseteq short'
          /\ short' \subseteq short \cup {"left"}
          /\ "left" \notin short' => tree'.left = page'.left
      <4>1. short' = IF tree'.left = page'.left THEN short ELSE short \cup {"left"}
          BY <2>2 DEF Tour!ClickPager
      <4> QED BY <1>1, <4>1 DEF Tour!Shorts, Tour!Parts
    <3>5. \/ /\ tree'.left[pager] # shown /\ tree'.left[pager] > 0 /\ turns' = turns + 1
             /\ shown' = tree'.left[pager] /\ UNCHANGED <<pc, pager, retired>>
          \/ /\ ~(tree'.left[pager] # shown /\ tree'.left[pager] > 0)
             /\ retired' = retired \cup {pager} /\ shown' = 0 /\ pc' = "pager" /\ turns' = 0
        BY <2>2 DEF Tour!ClickPager, Tour!Retire, Tour!LeavePager
    <3>6. turns' \in Nat /\ shown' \in Nat /\ retired' \subseteq Tour!Pagers
        BY <1>1, <1>3, <3>1, <3>3, <3>5
    <3>7. ASSUME "left" \notin short'
          PROVE  /\ \A p \in retired' : page'.left[p] = 0
                 /\ pc' = "click" => shown' = page'.left[pager'] /\ shown' > 0
      <4>1. /\ \A p \in retired : page.left[p] = 0
            /\ shown = page.left[pager] /\ shown > 0 /\ tree'.left[pager] = page'.left[pager]
          BY <1>3, <3>1, <3>4, <3>7
      <4>2. \A p \in retired : page'.left[p] = 0
          BY <1>3, <3>2, <4>1
      <4>3. retired' # retired => page'.left[pager] = 0
          BY <3>2, <3>5, <4>1
      <4> QED BY <3>1, <3>5, <4>1, <4>2, <4>3
    <3> QED BY <1>3, <3>1, <3>2, <3>3, <3>4, <3>5, <3>6, <3>7
  <2>3. CASE Tour!ClickRefused
    <3>1. /\ shown' = 0 /\ pc' = "pager" /\ turns' = 0 /\ page' = page /\ tree' = tree
          /\ retired' = retired /\ short' = short
        BY <2>3 DEF Tour!ClickRefused, Tour!LeavePager, Tour!Still
    <3> QED BY <1>1, <1>3, <3>1
  <2> QED BY <2>1, <2>2, <2>3
<1>5. pc' \in {"pager", "click"} \/ (pc' = "hover" /\ task = "inventory")
        \/ (pc' = "look" /\ task # "inventory")
    BY <1>4 DEF Tour!AfterPagers
<1>6. Tour!TypeOK'
    BY <1>2, <1>4, <1>5 DEF Tour!TypeOK, Tour!Shared, Tour!Walking, Tour!Revealing
<1>7. Tour!SectionsAreOpened'
    BY <1>2, <1>4, <1>5 DEF Tour!SectionsAreOpened
<1>8. Tour!LoopsStartAfresh'
    BY <1>5 DEF Tour!LoopsStartAfresh
<1>9. Tour!RowsAreMounted'
    BY <1>2, <1>4, <1>5 DEF Tour!RowsAreMounted
<1>10. Tour!PagesAreMounted'
    BY <1>4, <1>5 DEF Tour!PagesAreMounted, Tour!AfterPagers
<1>11. Tour!FieldIsHeld'
    BY <1>2, <1>4, <1>5 DEF Tour!FieldIsHeld
<1>12. Tour!FieldIsKnown'
    BY <1>2, <1>4, <1>5 DEF Tour!FieldIsKnown
<1>13. Tour!CountedWhole'
    BY <1>2 DEF Tour!CountedWhole
<1> QED BY <1>6, <1>7, <1>8, <1>9, <1>10, <1>11, <1>12, <1>13

-----------------------------------------------------------------------------
\* What is read, and is not short, is whole.
LEMMA ReadKeeps == ASSUME Tour!RevealInv, Tour!ReadSurface PROVE Tour!RevealInv'
<1> USE TourRoom DEF Tour!RevealInv
<1>1. /\ pc = "read" /\ pc' = "restore" /\ Tour!Reads(Tour!Parts)
      /\ UNCHANGED <<task, page, tree, at, own, held, turns, shut, stable, shown, retired>>
    BY DEF Tour!ReadSurface, Tour!Still, Tour!turn
<1>2. /\ page \in Tour!PageType /\ task = "inventory" /\ short \in Tour!Shorts
    BY <1>1 DEF Tour!TypeOK, Tour!Shared, Tour!Walking, Tour!Revealing
<1>3. /\ short' \in Tour!Shorts /\ short \subseteq short'
      /\ \A each \in Tour!Parts : each \notin short' => tree[each] = page[each]
  <2>1. Tour!Parts \in SUBSET Tour!Parts
      OBVIOUS
  <2> QED BY <1>1, <1>2, <2>1, ReadOf
<1>4. \A each \in Tour!Parts : each \notin short' => page[each] = Tour!Whole[each]
  <2>1. "open" \notin short => page.open = 1..Depth
      BY <1>1, <1>2 DEF Tour!SectionsAreOpened
  <2>2. "mounted" \notin short => page.mounted = RowsToMount
      BY <1>1, <1>2 DEF Tour!RowsAreMounted
  <2>3. "left" \notin short => page.left = [p \in Tour!Pagers |-> 0]
    <3>1. page.left \in [Tour!Pagers -> Nat]
        BY <1>2 DEF Tour!PageType
    <3>2. "left" \notin short => \A p \in Tour!Pagers : page.left[p] = 0
        BY <1>1 DEF Tour!PagesAreMounted
    <3> QED BY <3>1, <3>2
  <2>4. "field" \notin short => page.field = Tour!Empty
      BY <1>1, <1>2 DEF Tour!FieldIsHeld
  <2>5. /\ Tour!Whole.open = 1..Depth /\ Tour!Whole.mounted = RowsToMount
        /\ Tour!Whole.left = [p \in Tour!Pagers |-> 0] /\ Tour!Whole.field = Tour!Empty
      BY DEF Tour!Whole
  <2> QED BY <1>3, <2>1, <2>2, <2>3, <2>4, <2>5 DEF Tour!Parts
<1>5. Tour!Row("counted", {})
  <2>1. {each \in Tour!Parts \ short' : tree[each] # Tour!Whole[each]} = {}
      BY <1>3, <1>4
  <2>2. Tour!Row("counted", {each \in Tour!Parts \ short' : tree[each] # Tour!Whole[each]})
      BY DEF Tour!ReadSurface
  <2> QED BY <2>1, <2>2
<1>6. rows' \in [1..Surfaces -> Tour!RowType] /\ Tour!CountedWhole'
    BY <1>5, NewRow
<1>7. Tour!TypeOK'
    BY <1>1, <1>2, <1>3, <1>6 DEF Tour!TypeOK, Tour!Shared, Tour!Walking
<1>8. Tour!SectionsAreOpened'
    BY <1>1, <1>3 DEF Tour!SectionsAreOpened
<1>9. Tour!LoopsStartAfresh' /\ Tour!RowsAreMounted' /\ Tour!PagesAreMounted'
    BY <1>1, <1>3 DEF Tour!LoopsStartAfresh, Tour!RowsAreMounted, Tour!PagesAreMounted
<1>10. Tour!FieldIsHeld' /\ Tour!FieldIsKnown'
    BY <1>1, <1>2, <1>3 DEF Tour!FieldIsHeld, Tour!FieldIsKnown
<1> QED BY <1>6, <1>7, <1>8, <1>9, <1>10

\* The tree becomes the page.
LEMMA RenderKeeps == ASSUME Tour!RevealInv, Tour!Render PROVE Tour!RevealInv'
<1> USE DEF Tour!RevealInv
<1>1. /\ tree' = page
      /\ UNCHANGED <<pc, page, task, at, own, held, turns, shut, stable, pager, shown, retired,
                     rows, short>>
    BY DEF Tour!Render, Tour!walk, Tour!turn, Tour!loop
<1>2. Tour!TypeOK' /\ Tour!FieldIsHeld'
    BY <1>1 DEF Tour!TypeOK, Tour!FieldIsHeld
<1>3. /\ Tour!SectionsAreOpened' /\ Tour!LoopsStartAfresh' /\ Tour!RowsAreMounted'
      /\ Tour!PagesAreMounted' /\ Tour!FieldIsKnown' /\ Tour!CountedWhole'
    BY <1>1 DEF Tour!SectionsAreOpened, Tour!LoopsStartAfresh, Tour!RowsAreMounted,
           Tour!PagesAreMounted, Tour!FieldIsKnown, Tour!CountedWhole
<1> QED BY <1>2, <1>3

LEMMA RevealNextInv == Tour!RevealInv /\ [Tour!Next]_(Tour!vars) => Tour!RevealInv'
<1> SUFFICES ASSUME Tour!RevealInv, [Tour!Next]_(Tour!vars) PROVE Tour!RevealInv'
    OBVIOUS
<1>1. CASE UNCHANGED Tour!vars
    BY <1>1 DEF Tour!vars, Tour!walk, Tour!turn, Tour!loop, Tour!RevealInv, Tour!TypeOK,
         Tour!SectionsAreOpened, Tour!LoopsStartAfresh, Tour!RowsAreMounted,
         Tour!PagesAreMounted, Tour!FieldIsHeld, Tour!FieldIsKnown, Tour!CountedWhole
<1>2. CASE Tour!Open \/ Tour!Hover \/ Tour!Found \/ Tour!Kept
    BY <1>2, GotoKeeps
<1>3. CASE Tour!Bail \/ Tour!RequestFails
    BY <1>3, AbortKeeps DEF Tour!Bail, Tour!RequestFails
<1> QED BY <1>1, <1>2, <1>3, ExpandKeeps, RowEndKeeps, WritingKeeps, ScrollingKeeps,
        LookingKeeps, PagingKeeps, ReadKeeps, RenderKeeps DEF Tour!Next, Tour!Step

LEMMA RevealInvTells == Tour!RevealInv => Tour!CountedWhole /\ Tour!FilterGivenBack
BY DEF Tour!RevealInv, Tour!TypeOK, Tour!Shared, Tour!Walking, Tour!Revealing,
     Tour!FieldIsHeld, Tour!FieldIsKnown, Tour!FilterGivenBack

\* The reveal helpers, while they are the part that runs.
TourInv == part = "tour" => Tour!RevealInv

LEMMA TourInit == Init => TourInv
BY RevealInitInv DEF Init, TourInv

LEMMA TourNext == TourInv /\ [Next]_vars => TourInv'
<1> SUFFICES ASSUME TourInv, [Next]_vars PROVE TourInv'
    OBVIOUS
<1>1. part' = part
    BY DEF Next, vars
<1>2. ASSUME part = "tour" PROVE Tour!RevealInv'
  <2>1. [Tour!Next]_(Tour!vars)
      BY <1>2 DEF Next, vars, slots, Tour!vars, Tour!walk, Tour!turn, Tour!loop
  <2> QED BY <1>2, <2>1, RevealNextInv DEF TourInv
<1> QED BY <1>1, <1>2 DEF TourInv

\* However deep the sections, however many the pages and the rows, whichever
\* requests fail and however late the tree follows the page: what a counted
\* surface is missing was read from a tree older than the page in that part,
\* or given up on when the passes or the scrolls ran out; and an inventory
\* gives the reveal field back as it found it, a check leaves its query only
\* for a target that disappears without it or after a wait decided on an older
\* tree (run_inventory, expand_everything, materialize_scroll_content,
\* materialize_paginated_content, reveal_deferred_content).
THEOREM SurfacesWhole == Spec => []CountedWhole
<1>1. TourInv => CountedWhole
    BY RevealInvTells DEF TourInv, CountedWhole
<1> QED BY <1>1, TourInit, TourNext, PTL DEF Spec

-----------------------------------------------------------------------------
(* The button sweep, on the instance Press of Sweep.                       *)

buttons == s1
cases == s2
next == s3
outcomes == s4
fresh == s5
step == s6
treeRead == s7
aim == s8
hit == s9
drift == s10

USE DEF buttons, cases, next, outcomes, fresh, step, treeRead, aim, hit, drift

LEMMA PressCardinality == \A S : Press!Cardinality(S) = Cardinality(S)
BY DEF Press!Cardinality, Cardinality

\* Every position of a set has a number of them up to it, and every number
\* is that of one.
LEMMA Ranked ==
  ASSUME NEW m \in Nat, NEW S \in SUBSET (1..m)
  PROVE  \A k \in 1..Cardinality(S) : \E i \in S : Cardinality({j \in S : j <= i}) = k
<1> TAKE k \in 1..Cardinality(S)
<1> DEFINE n == Cardinality(S)
           below(i) == {j \in S : j <= i}
           rank == [i \in S |-> Cardinality({j \in S : j <= i})]
<1>1. IsFiniteSet(S) /\ n \in Nat
  <2>1. IsFiniteSet(1..m)
      BY FS_Interval
  <2> QED BY <2>1, FS_Subset, FS_CardinalityType
<1>2. \A i : IsFiniteSet(below(i)) /\ Cardinality(below(i)) \in Nat /\ Cardinality(below(i)) <= n
  <2> TAKE i
  <2>1. below(i) \in SUBSET S
      OBVIOUS
  <2> QED BY <1>1, <2>1, FS_Subset, FS_CardinalityType
<1>3. \A i \in S : Cardinality(below(i)) # 0
  <2> TAKE i \in S
  <2>1. i \in below(i)
      OBVIOUS
  <2> QED BY <1>2, <2>1, FS_EmptySet
<1>4. \A i \in S : rank[i] = Cardinality(below(i)) /\ rank[i] \in 1..n
    BY <1>1, <1>2, <1>3
<1>5. \A i, j \in S : i < j => rank[i] # rank[j]
  <2> TAKE i, j \in S
  <2> SUFFICES ASSUME i < j, rank[i] = rank[j] PROVE FALSE
      OBVIOUS
  <2>1. below(i) \in SUBSET below(j)
    <3>1. i \in Nat /\ j \in Nat /\ \A x \in S : x \in Nat
        OBVIOUS
    <3>2. \A x \in below(i) : x <= j
        BY <3>1
    <3>3. \A x \in below(i) : x \in below(j)
        BY <3>2
    <3> QED BY <3>3
  <2>2. Cardinality(below(i)) = Cardinality(below(j)) /\ IsFiniteSet(below(j))
    <3> HIDE DEF below, rank
    <3> QED BY <1>2, <1>4
  <2>3. below(i) = below(j)
    <3> HIDE DEF below
    <3> QED BY <2>1, <2>2, FS_Subset
  <2>4. j \in below(j) /\ j \notin below(i)
      OBVIOUS
  <2> QED BY <2>3, <2>4
<1>6. \A i, j \in S : rank[i] = rank[j] => i = j
  <2> TAKE i, j \in S
  <2>1. i < j \/ j < i \/ i = j
      OBVIOUS
  <2> QED BY <1>5, <2>1
<1>7. rank \in Injection(S, 1..n)
    BY <1>4, <1>6 DEF Injection, IsInjective
<1>8. rank \in Surjection(S, 1..n)
    BY <1>1, <1>7, FS_Injection, FS_Interval
<1>9. PICK i \in S : rank[i] = k
    BY <1>8 DEF Surjection
<1> QED BY <1>4, <1>9

\* Every element that a filter leaves stood at one of the positions.
LEMMA FromAPosition ==
  ASSUME NEW seq, NEW m \in Nat, NEW S \in SUBSET (1..m)
  PROVE  \A k \in 1..Cardinality(S) : \E i \in S : Press!AtPositions(seq, S)[k] = seq[i]
<1> TAKE k \in 1..Cardinality(S)
<1>1. \E i1 \in S : Press!Rank(S, i1) = k
    BY Ranked, PressCardinality DEF Press!Rank
<1>2. (CHOOSE i1 \in S : Press!Rank(S, i1) = k) \in S
    BY <1>1
<1>3. Press!AtPositions(seq, S)[k] = seq[CHOOSE i1 \in S : Press!Rank(S, i1) = k]
    BY PressCardinality DEF Press!AtPositions
<1> QED BY <1>2, <1>3

\* Counting positions of a page.
LEMMA Counted ==
  ASSUME NEW m \in Nat, NEW S \in SUBSET (1..m)
  PROVE  Cardinality(S) \in Nat
<1>1. IsFiniteSet(1..m)
    BY FS_Interval
<1> QED BY <1>1, FS_Subset, FS_CardinalityType

-----------------------------------------------------------------------------
LEMMA SweepInitInv == Press!Init => Press!SweepInv
<1> SUFFICES ASSUME Press!Init PROVE Press!SweepInv
    OBVIOUS
<1>1. /\ buttons \in Seq(Press!ButtonType) /\ Press!IdsAreUnique(buttons, 100)
      /\ \A i, j \in DOMAIN buttons : buttons[i].who = buttons[j].who => i = j
    BY PressPages DEF Press!Init, Press!PagesAreWellFormed
<1> DEFINE worth == {i \in DOMAIN buttons : Press!Painted(buttons[i]) /\ buttons[i].enabled
         /\ Press!Named(buttons[i])}
           earlier(i) == {j \in worth : j < i /\ Press!Alike(buttons[j].name, buttons[i].name)}
           planned == [i \in DOMAIN buttons |->
                         [id |-> buttons[i].id, who |-> buttons[i].who, name |-> buttons[i].name,
                          occurrence |-> Cardinality(earlier(i))]]
           n == Cardinality(worth)
<1>2. Len(buttons) \in Nat /\ DOMAIN buttons = 1..Len(buttons)
    BY <1>1
<1>3. worth \in SUBSET (1..Len(buttons))
    BY <1>2
<1>4. n \in Nat
    BY <1>2, <1>3, Counted
<1>5. \A i \in DOMAIN buttons : planned[i] \in Press!CaseType
  <2> TAKE i \in DOMAIN buttons
  <2>1. Cardinality(earlier(i)) \in Nat
    <3>1. earlier(i) \in SUBSET (1..Len(buttons))
        BY <1>2
    <3> HIDE DEF earlier
    <3> QED BY <1>2, <3>1, Counted
  <2>2. buttons[i] \in Press!ButtonType
      BY <1>1
  <2>3. buttons[i].id \in Nat /\ buttons[i].who \in Nat /\ buttons[i].name \in Press!NameType
      BY <2>2 DEF Press!ButtonType
  <2> QED BY <2>1, <2>3 DEF Press!CaseType
<1>6. cases = Press!AtPositions(planned, worth)
    BY PressCardinality DEF Press!Init, Press!Cases
<1>7. \A c \in 1..n : \E i \in worth : cases[c] = planned[i]
  <2> HIDE DEF worth, planned, earlier
  <2>1. Len(buttons) \in Nat /\ worth \in SUBSET (1..Len(buttons))
      BY <1>2, <1>3
  <2>2. PICK seq : seq = planned
      OBVIOUS
  <2>3. PICK W : W = worth
      OBVIOUS
  <2>4. \A k \in 1..Cardinality(W) : \E i \in W : Press!AtPositions(seq, W)[k] = seq[i]
    <3>1. PICK m \in Nat : W \in SUBSET (1..m)
        BY <2>1, <2>3
    <3> QED BY <3>1, FromAPosition
  <2> QED BY <2>2, <2>3, <2>4, <1>6
<1>8. cases \in Seq(Press!CaseType) /\ DOMAIN cases = 1..n
  <2>1. \A c \in 1..n : cases[c] \in Press!CaseType
      BY <1>5, <1>7
  <2>2. cases = [c \in 1..n |-> cases[c]]
      BY <1>6, PressCardinality DEF Press!AtPositions
  <2> HIDE DEF n
  <2>3. cases \in [1..n -> Press!CaseType]
      BY <2>1, <2>2
  <2> QED BY <1>4, <2>3
<1>9. Press!PlannedStayPressable
  <2> SUFFICES ASSUME NEW c \in DOMAIN cases, NEW i \in DOMAIN buttons,
           buttons[i].who = cases[c].who
               PROVE  Press!Painted(buttons[i]) /\ buttons[i].enabled
      BY DEF Press!PlannedStayPressable, Press!Pressable
  <2>1. PICK j \in worth : cases[c] = planned[j]
      BY <1>7, <1>8
  <2>2. buttons[j].who = buttons[i].who
      BY <2>1
  <2> QED BY <1>1, <2>2
<1>10. Press!TypeOK
    BY <1>1, <1>8, PressPages
       DEF Press!Init, Press!TypeOK, Press!PagesAreWellFormed, Press!Unhit, Press!Dids, Press!Unseen
<1> QED BY <1>1, <1>9, <1>10
        DEF Press!Init, Press!SweepInv, Press!OutcomesAreOfCases, Press!AimIsTrue,
            Press!PageIsKnown, Press!PressIsSeen, Press!DeadButtonsFail, Press!ThePlannedIsPressed

-----------------------------------------------------------------------------
\* A page succeeds another: its buttons are those of the first, pressable if
\* they were, or new ones that are.
Succeeds(old, new) ==
  \A i \in DOMAIN new :
    \/ Press!Painted(new[i]) /\ new[i].enabled
    \/ \E j \in DOMAIN old :
         /\ new[i].who = old[j].who
         /\ Press!Painted(old[j]) /\ old[j].enabled => Press!Painted(new[i]) /\ new[i].enabled

LEMMA SucceedsAgain ==
  ASSUME NEW a, NEW b, NEW c, Succeeds(a, b), Succeeds(b, c) PROVE Succeeds(a, c)
BY DEF Succeeds

LEMMA PressableOn ==
  ASSUME NEW old, NEW new, NEW who, Succeeds(old, new), Press!Pressable(old, who)
  PROVE  Press!Pressable(new, who)
BY DEF Succeeds, Press!Pressable

\* A page all of whose buttons are, but for what they show, those of another.
LEMMA SameButtons ==
  ASSUME NEW old \in Seq(Press!ButtonType), NEW new \in Seq(Press!ButtonType), NEW bound \in Nat,
         Press!IdsAreUnique(old, bound),
         NEW from \in [DOMAIN new -> DOMAIN old],
         \A i, j \in DOMAIN new : from[i] = from[j] => i = j,
         \A i \in DOMAIN new :
           /\ new[i].id = old[from[i]].id /\ new[i].who = old[from[i]].who
           /\ new[i].visible = old[from[i]].visible /\ new[i].box = old[from[i]].box
           /\ new[i].enabled = old[from[i]].enabled
  PROVE  Press!IdsAreUnique(new, bound) /\ Succeeds(old, new)
<1>1. Press!IdsAreUnique(new, bound)
  <2>1. \A i \in DOMAIN new : from[i] \in DOMAIN old /\ new[i].id = old[from[i]].id
      OBVIOUS
  <2>2. \A i \in DOMAIN new : new[i].id < bound
      BY <2>1 DEF Press!IdsAreUnique
  <2>3. ASSUME NEW i \in DOMAIN new, NEW j \in DOMAIN new, new[i].id = new[j].id PROVE i = j
    <3>1. from[i] = from[j]
        BY <2>1, <2>3 DEF Press!IdsAreUnique
    <3> QED BY <3>1
  <2> QED BY <2>2, <2>3 DEF Press!IdsAreUnique
<1>2. Succeeds(old, new)
    BY DEF Succeeds, Press!Painted
<1> QED BY <1>1, <1>2

\* One button of a page, changed.
LEMMA OneChanged ==
  ASSUME NEW old \in Seq(Press!ButtonType), NEW i \in DOMAIN old, NEW node \in Press!ButtonType
  PROVE  /\ [old EXCEPT ![i] = node] \in Seq(Press!ButtonType)
         /\ DOMAIN [old EXCEPT ![i] = node] = DOMAIN old
         /\ [old EXCEPT ![i] = node][i] = node
         /\ \A j \in DOMAIN old : j # i => [old EXCEPT ![i] = node][j] = old[j]
OBVIOUS

LEMMA ButtonRestyled ==
  ASSUME NEW node \in Press!ButtonType
  PROVE  /\ [node EXCEPT !.place = 3 - @] \in Press!ButtonType
         /\ [node EXCEPT !.selected = TRUE] \in Press!ButtonType
         /\ \A verb \in Press!Verbs : [node EXCEPT !.name.verb = verb] \in Press!ButtonType
         /\ \A id \in Nat : [node EXCEPT !.id = id] \in Press!ButtonType
<1>1. 3 - node.place \in {1, 2}
    BY DEF Press!ButtonType
<1>2. \A verb \in Press!Verbs : [node.name EXCEPT !.verb = verb] \in Press!NameType
    BY DEF Press!ButtonType, Press!NameType
<1>3. \A verb \in Press!Verbs : [node EXCEPT !.name.verb = verb] = [node EXCEPT !.name =
           [node.name EXCEPT !.verb = verb]]
    OBVIOUS
<1> HIDE DEF Press!Verbs, Press!NameType
<1>4. \A name \in Press!NameType : [node EXCEPT !.name = name] \in Press!ButtonType
    BY DEF Press!ButtonType
<1>5. [node EXCEPT !.place = 3 - @] \in Press!ButtonType
    BY <1>1 DEF Press!ButtonType
<1>6. [node EXCEPT !.selected = TRUE] \in Press!ButtonType
    BY DEF Press!ButtonType
<1>7. \A id \in Nat : [node EXCEPT !.id = id] \in Press!ButtonType
    BY DEF Press!ButtonType
<1> QED BY <1>2, <1>3, <1>4, <1>5, <1>6, <1>7

LEMMA ButtonRenumbered ==
  ASSUME NEW node \in Press!ButtonType, NEW n \in Nat, NEW new, new = [node EXCEPT !.id = n]
  PROVE  /\ new.id = n /\ new.who = node.who /\ new.visible = node.visible
         /\ new.box = node.box /\ new.enabled = node.enabled
         /\ new.name = node.name /\ new.selected = node.selected
BY DEF Press!ButtonType

Turned(verb) ==
  IF verb = "expand" THEN "collapse" ELSE
  IF verb = "collapse" THEN "expand" ELSE
  IF verb = "copy" THEN "copied" ELSE "other"

\* What a press may do, case by case.
LEMMA Reacted ==
  ASSUME buttons \in Seq(Press!ButtonType), NEW i \in DOMAIN buttons,
       NEW reaction \in Press!Reactions(i)
  PROVE  LET node == buttons[i]
             did(what, new) == reaction.did = what /\ reaction.page = new
         IN  \/ did("nothing", buttons)
             \/ did("highlight", [buttons EXCEPT ![i] = [node EXCEPT !.place = 3 - @]])
             \/ did("turn", [buttons EXCEPT ![i] = [node EXCEPT !.name.verb = Turned(@)]])
             \/ did("select", [buttons EXCEPT ![i] = [node EXCEPT !.selected = TRUE]])
             \/ did("remove", Press!Without(buttons, i))
             \/ did("ask", Append(buttons, [Press!Button(fresh, "cancel",
                  node.name.subject) EXCEPT !.place = 2]))
             \/ did("grow", <<[Press!Button(fresh, node.name.verb,
                  node.name.subject) EXCEPT !.place = 2]>> \o buttons)
<1>1. buttons[i] \in Press!ButtonType
    OBVIOUS
<1>2. [buttons EXCEPT ![i].place = 3 - @] = [buttons EXCEPT ![i] = [buttons[i] EXCEPT !.place
           = 3 - @]]
    OBVIOUS
<1>3. [buttons EXCEPT ![i].name.verb = Turned(@)] = [buttons EXCEPT ![i] = [buttons[i] EXCEPT
           !.name.verb = Turned(@)]]
    OBVIOUS
<1>4. [buttons EXCEPT ![i].selected = TRUE] = [buttons EXCEPT ![i] = [buttons[i] EXCEPT
           !.selected = TRUE]]
    OBVIOUS
<1> DEFINE asked == [Press!Button(fresh, "cancel", buttons[i].name.subject) EXCEPT !.place = 2]
           another == [Press!Button(fresh, buttons[i].name.verb,
                buttons[i].name.subject) EXCEPT !.place = 2]
<1>5. \/ reaction = [did |-> "nothing", page |-> buttons]
      \/ reaction = [did |-> "highlight", page |-> [buttons EXCEPT ![i].place = 3 - @]]
      \/ reaction = [did |-> "turn", page |-> [buttons EXCEPT ![i].name.verb = Turned(@)]]
      \/ reaction = [did |-> "select", page |-> [buttons EXCEPT ![i].selected = TRUE]]
      \/ reaction = [did |-> "remove", page |-> Press!Without(buttons, i)]
      \/ reaction = [did |-> "ask", page |-> Append(buttons, asked)]
      \/ reaction = [did |-> "grow", page |-> <<another>> \o buttons]
    BY Zenon DEF Press!Reactions, Turned
<1> HIDE DEF asked, another
<1>6. \A what, new : reaction = [did |-> what, page |-> new] =>
        reaction.did = what /\ reaction.page = new
    OBVIOUS
<1>7. \/ reaction.did = "nothing" /\ reaction.page = buttons
      \/ /\ reaction.did = "highlight"
         /\ reaction.page = [buttons EXCEPT ![i] = [buttons[i] EXCEPT !.place = 3 - @]]
      \/ /\ reaction.did = "turn"
         /\ reaction.page = [buttons EXCEPT ![i] = [buttons[i] EXCEPT !.name.verb = Turned(@)]]
      \/ /\ reaction.did = "select"
         /\ reaction.page = [buttons EXCEPT ![i] = [buttons[i] EXCEPT !.selected = TRUE]]
      \/ reaction.did = "remove" /\ reaction.page = Press!Without(buttons, i)
      \/ reaction.did = "ask" /\ reaction.page = Append(buttons, asked)
      \/ reaction.did = "grow" /\ reaction.page = <<another>> \o buttons
    BY <1>2, <1>3, <1>4, <1>5, <1>6, Zenon
<1> QED BY <1>7 DEF asked, another

\* A button that was given out the next id.
LEMMA NewButton ==
  ASSUME NEW n \in Nat, NEW name \in Press!NameType
  PROVE  LET new == [Press!Button(n, name.verb, name.subject) EXCEPT !.place = 2]
         IN  new \in Press!ButtonType /\ new.id = n /\ Press!Painted(new) /\ new.enabled
<1>1. [verb |-> name.verb, subject |-> name.subject, letters |-> "title"] \in Press!NameType
    BY DEF Press!NameType
<1> HIDE DEF Press!NameType
<1> QED BY <1>1 DEF Press!Button, Press!ButtonType, Press!Painted

\* What a sequence holds that another is joined to.
LEMMA Appended ==
  ASSUME NEW T, NEW a \in Seq(T), NEW b \in Seq(T)
  PROVE  /\ a \o b \in Seq(T) /\ Len(a \o b) = Len(a) + Len(b)
         /\ \A k \in 1..Len(a) : (a \o b)[k] = a[k]
         /\ \A k \in (Len(a) + 1)..(Len(a) + Len(b)) : (a \o b)[k] = b[k - Len(a)]
OBVIOUS

LEMMA OneRemoved ==
  ASSUME NEW old \in Seq(Press!ButtonType), NEW i \in DOMAIN old
  PROVE  /\ Press!Without(old, i) \in Seq(Press!ButtonType)
              /\ Len(Press!Without(old, i)) = Len(old) - 1
         /\ \A j \in DOMAIN Press!Without(old, i) : Press!Without(old,
              i)[j] = old[IF j < i THEN j ELSE j + 1]
<1> DEFINE a == SubSeq(old, 1, i - 1)
           b == SubSeq(old, i + 1, Len(old))
<1>1. a \in Seq(Press!ButtonType) /\ Len(a) = i - 1 /\ \A j \in 1..(i - 1) : a[j] = old[j]
    OBVIOUS
<1>2. b \in Seq(Press!ButtonType) /\ Len(b) = Len(old) - i
           /\ \A j \in 1..(Len(old) - i) : b[j] = old[i + j]
    OBVIOUS
<1> HIDE DEF a, b
<1>3. /\ a \o b \in Seq(Press!ButtonType) /\ Len(a \o b) = Len(old) - 1
      /\ \A j \in 1..(Len(old) - 1) : (a \o b)[j] = old[IF j < i THEN j ELSE j + 1]
  <2>1. i \in 1..Len(old) /\ Len(old) \in Nat
      OBVIOUS
  <2>2. a \o b \in Seq(Press!ButtonType) /\ Len(a \o b) = Len(old) - 1
      BY <1>1, <1>2, <2>1
  <2>3. ASSUME NEW j \in 1..(Len(old) - 1)
        PROVE  (a \o b)[j] = old[IF j < i THEN j ELSE j + 1]
    <3>1. CASE j < i
      <4>1. (a \o b)[j] = a[j] /\ j \in 1..(i - 1)
          BY <1>1, <1>2, <2>1, <3>1
      <4> QED BY <1>1, <3>1, <4>1
    <3>2. CASE ~(j < i)
      <4>1. (a \o b)[j] = b[j - (i - 1)] /\ j - (i - 1) \in 1..(Len(old) - i)
        <5>1. \A k \in (Len(a) + 1)..(Len(a) + Len(b)) : (a \o b)[k] = b[k - Len(a)]
            BY <1>1, <1>2, Appended
        <5>2. Len(a) = i - 1 /\ Len(b) = Len(old) - i
            BY <1>1, <1>2
        <5>3. /\ j \in ((i - 1) + 1)..((i - 1) + (Len(old) - i))
              /\ j - (i - 1) \in 1..(Len(old) - i)
            BY <2>1, <3>2
        <5> QED BY <5>1, <5>2, <5>3
      <4>2. i + (j - (i - 1)) = j + 1
          BY <2>1
      <4> QED BY <1>2, <3>2, <4>1, <4>2
    <3> QED BY <3>1, <3>2
  <2> QED BY <2>2, <2>3
<1>4. DOMAIN (a \o b) = 1..(Len(old) - 1)
    BY <1>3
<1>5. Press!Without(old, i) = a \o b
    BY DEF Press!Without, a, b
<1> HIDE DEF Press!Without
<1> QED BY <1>3, <1>4, <1>5

LEMMA ReactionKeeps ==
  ASSUME buttons \in Seq(Press!ButtonType), fresh \in Nat, Press!IdsAreUnique(buttons, fresh),
         NEW i \in DOMAIN buttons, NEW reaction \in Press!Reactions(i)
  PROVE  /\ reaction.page \in Seq(Press!ButtonType)
              /\ Press!IdsAreUnique(reaction.page, fresh + 1)
         /\ Succeeds(buttons, reaction.page)
<1> DEFINE node == buttons[i]
           new == reaction.page
           asked == [Press!Button(fresh, "cancel", node.name.subject) EXCEPT !.place = 2]
           another == [Press!Button(fresh, node.name.verb, node.name.subject) EXCEPT !.place = 2]
<1>1. node \in Press!ButtonType /\ node.name \in Press!NameType /\ node.name.verb \in Press!Verbs
  <2>1. node \in Press!ButtonType
      OBVIOUS
  <2>2. node.name \in Press!NameType
      BY <2>1 DEF Press!ButtonType
  <2> QED BY <2>1, <2>2 DEF Press!NameType
<1>2. \A j \in DOMAIN buttons : buttons[j].id < fresh + 1
  <2> TAKE j \in DOMAIN buttons
  <2>1. buttons[j] \in Press!ButtonType
      OBVIOUS
  <2>2. buttons[j].id \in Nat
      BY <2>1 DEF Press!ButtonType
  <2> QED BY <2>2 DEF Press!IdsAreUnique
<1>3. Press!IdsAreUnique(buttons, fresh + 1) /\ fresh + 1 \in Nat
    BY <1>2 DEF Press!IdsAreUnique
<1>4. ASSUME NEW other \in Press!ButtonType, new = [buttons EXCEPT ![i] = other],
             other.id = node.id, other.who = node.who, other.visible = node.visible,
             other.box = node.box, other.enabled = node.enabled
      PROVE  new \in Seq(Press!ButtonType) /\ Press!IdsAreUnique(new, fresh + 1)
                  /\ Succeeds(buttons, new)
  <2>1. /\ new \in Seq(Press!ButtonType) /\ DOMAIN new = DOMAIN buttons /\ new[i] = other
        /\ \A j \in DOMAIN buttons : j # i => new[j] = buttons[j]
      BY <1>4, OneChanged
  <2> DEFINE from == [j \in DOMAIN new |-> j]
  <2>2. from \in [DOMAIN new -> DOMAIN buttons] /\ \A j, k \in DOMAIN new : from[j] = from[k]
             => j = k
      BY <2>1
  <2>3. \A j \in DOMAIN new :
          /\ new[j].id = buttons[from[j]].id /\ new[j].who = buttons[from[j]].who
          /\ new[j].visible = buttons[from[j]].visible /\ new[j].box = buttons[from[j]].box
          /\ new[j].enabled = buttons[from[j]].enabled
      BY <1>4, <2>1
  <2>4. Press!IdsAreUnique(new, fresh + 1) /\ Succeeds(buttons, new)
    <3> HIDE DEF from, new
    <3>1. PICK bound \in Nat : bound = fresh + 1
        BY <1>3
    <3>2. /\ Press!IdsAreUnique(buttons, bound) /\ new \in Seq(Press!ButtonType)
          /\ from \in [DOMAIN new -> DOMAIN buttons]
          /\ \A j, k \in DOMAIN new : from[j] = from[k] => j = k
        BY <1>3, <2>1, <2>2, <3>1
    <3>3. Press!IdsAreUnique(new, bound) /\ Succeeds(buttons, new)
        BY <2>3, <3>2, SameButtons
    <3> QED BY <3>1, <3>3
  <2> QED BY <2>1, <2>4
<1>5. CASE reaction.page = buttons
  <2>1. Succeeds(buttons, buttons)
      BY DEF Succeeds
  <2> QED BY <1>3, <1>5, <2>1
<1>6. CASE new = [buttons EXCEPT ![i] = [node EXCEPT !.place = 3 - @]]
  <2>1. [node EXCEPT !.place = 3 - @] \in Press!ButtonType
      BY <1>1, ButtonRestyled
  <2> QED BY <1>1, <1>4, <1>6, <2>1 DEF Press!ButtonType
<1>7. CASE new = [buttons EXCEPT ![i] = [node EXCEPT !.name.verb = Turned(@)]]
  <2>1. Turned(node.name.verb) \in Press!Verbs
      BY DEF Turned, Press!Verbs
  <2>2. [node EXCEPT !.name.verb = Turned(@)] \in Press!ButtonType
      BY <1>1, <2>1, ButtonRestyled
  <2> QED BY <1>1, <1>4, <1>7, <2>2 DEF Press!ButtonType
<1>8. CASE new = [buttons EXCEPT ![i] = [node EXCEPT !.selected = TRUE]]
  <2>1. [node EXCEPT !.selected = TRUE] \in Press!ButtonType
      BY <1>1, ButtonRestyled
  <2> QED BY <1>1, <1>4, <1>8, <2>1 DEF Press!ButtonType
<1>9. CASE new = Press!Without(buttons, i)
  <2> DEFINE from == [j \in DOMAIN new |-> IF j < i THEN j ELSE j + 1]
  <2>1. /\ new \in Seq(Press!ButtonType) /\ Len(new) = Len(buttons) - 1
        /\ \A j \in DOMAIN new : new[j] = buttons[IF j < i THEN j ELSE j + 1]
      BY <1>9, OneRemoved
  <2>2. from \in [DOMAIN new -> DOMAIN buttons] /\ \A j, k \in DOMAIN new : from[j] = from[k]
             => j = k
    <3>1. DOMAIN new = 1..(Len(buttons) - 1) /\ Len(buttons) \in Nat
             /\ DOMAIN buttons = 1..Len(buttons)
        BY <2>1
    <3> HIDE DEF new
    <3>2. \A j, k \in DOMAIN new : from[j] = from[k] => j = k
        BY <3>1
    <3>3. from \in [DOMAIN new -> DOMAIN buttons]
        BY <3>1
    <3> QED BY <3>2, <3>3
  <2>3. \A j \in DOMAIN new : new[j] = buttons[from[j]]
      BY <2>1
  <2>4. Press!IdsAreUnique(new, fresh + 1) /\ Succeeds(buttons, new)
    <3> HIDE DEF from, new
    <3>1. PICK bound \in Nat : bound = fresh + 1
        BY <1>3
    <3>2. /\ Press!IdsAreUnique(buttons, bound) /\ new \in Seq(Press!ButtonType)
          /\ from \in [DOMAIN new -> DOMAIN buttons]
          /\ \A j, k \in DOMAIN new : from[j] = from[k] => j = k
        BY <1>3, <2>1, <2>2, <3>1
    <3>3. Press!IdsAreUnique(new, bound) /\ Succeeds(buttons, new)
        BY <2>3, <3>2, SameButtons
    <3> QED BY <3>1, <3>3
  <2> QED BY <2>1, <2>4
<1>10. CASE new = Append(buttons, asked)
  <2>1. asked \in Press!ButtonType /\ asked.id = fresh /\ Press!Painted(asked) /\ asked.enabled
    <3>1. [verb |-> "cancel", subject |-> node.name.subject, letters |-> "title"]
            \in Press!NameType
        BY <1>1 DEF Press!NameType, Press!Verbs
    <3> QED BY <3>1, NewButton
  <2> HIDE DEF asked
  <2>2. /\ new \in Seq(Press!ButtonType) /\ Len(new) = Len(buttons) + 1
             /\ new[Len(buttons) + 1] = asked
        /\ \A j \in DOMAIN buttons : new[j] = buttons[j]
        /\ \A j \in DOMAIN new : j \in DOMAIN buttons \/ j = Len(buttons) + 1
      BY <1>10, <2>1
  <2>3. Press!IdsAreUnique(new, fresh + 1)
    <3>1. \A j \in DOMAIN buttons : new[j].id = buttons[j].id /\ new[j].id < fresh
        BY <2>2 DEF Press!IdsAreUnique
    <3>2. new[Len(buttons) + 1].id = fresh
        BY <2>1, <2>2
    <3>3. ASSUME NEW j \in DOMAIN new PROVE new[j].id < fresh + 1
      <4>1. CASE j \in DOMAIN buttons
          BY <1>2, <2>2, <4>1
      <4>2. CASE j = Len(buttons) + 1
          BY <3>2, <4>2
      <4> QED BY <2>2, <4>1, <4>2
    <3>4. ASSUME NEW j \in DOMAIN new, NEW k \in DOMAIN new, new[j].id = new[k].id PROVE j = k
      <4>1. CASE j \in DOMAIN buttons /\ k \in DOMAIN buttons
          BY <3>1, <3>4, <4>1 DEF Press!IdsAreUnique
      <4>2. CASE j = Len(buttons) + 1 \/ k = Len(buttons) + 1
          BY <2>2, <3>1, <3>2, <3>4, <4>2
      <4> QED BY <2>2, <4>1, <4>2
    <3> QED BY <3>3, <3>4 DEF Press!IdsAreUnique
  <2>4. Succeeds(buttons, new)
      BY <2>1, <2>2 DEF Succeeds
  <2> QED BY <2>2, <2>3, <2>4
<1>11. CASE new = <<another>> \o buttons
  <2>1. another \in Press!ButtonType /\ another.id = fresh /\ Press!Painted(another)
             /\ another.enabled
      BY <1>1, NewButton
  <2> HIDE DEF another
  <2>2. /\ new \in Seq(Press!ButtonType) /\ Len(new) = Len(buttons) + 1 /\ new[1] = another
        /\ \A j \in DOMAIN new : j # 1 => j - 1 \in DOMAIN buttons /\ new[j] = buttons[j - 1]
      BY <1>11, <2>1
  <2>3. \A j \in DOMAIN new : /\ j \in Nat
                              /\ j = 1 <=> new[j].id = fresh
                              /\ new[j].id < fresh + 1
      BY <1>2, <2>1, <2>2 DEF Press!IdsAreUnique
  <2>4. \A j, k \in DOMAIN new : new[j].id = new[k].id => j = k
    <3> TAKE j, k \in DOMAIN new
    <3>1. CASE j = 1 \/ k = 1
        BY <2>3, <3>1
    <3>2. CASE j # 1 /\ k # 1
      <4>1. /\ j - 1 \in DOMAIN buttons /\ new[j] = buttons[j - 1]
            /\ k - 1 \in DOMAIN buttons /\ new[k] = buttons[k - 1]
          BY <2>2, <3>2
      <4>2. new[j].id = new[k].id => j - 1 = k - 1
          BY <4>1 DEF Press!IdsAreUnique
      <4> QED BY <2>3, <4>2
    <3> QED BY <3>1, <3>2
  <2>5. Press!IdsAreUnique(new, fresh + 1)
      BY <2>3, <2>4 DEF Press!IdsAreUnique
  <2>6. Succeeds(buttons, new)
      BY <2>1, <2>2 DEF Succeeds
  <2> QED BY <2>2, <2>5, <2>6
<1> HIDE DEF new, node, asked, another
<1> QED BY <1>5, <1>6, <1>7, <1>8, <1>9, <1>10, <1>11, Reacted DEF new, node, asked, another

LEMMA RemountKeeps ==
  ASSUME NEW nodes \in Seq(Press!ButtonType), fresh \in Nat, Press!IdsAreUnique(nodes, fresh + 1),
         NEW new \in Press!Remounted(nodes)
  PROVE  new \in Seq(Press!ButtonType) /\ Press!IdsAreUnique(new, fresh + 2)
              /\ Succeeds(nodes, new)
<1>1. /\ \A j \in DOMAIN nodes : nodes[j] \in Press!ButtonType /\ nodes[j].id \in Nat
      /\ fresh + 1 \in Nat /\ fresh + 2 \in Nat
  <2>1. \A j \in DOMAIN nodes : nodes[j] \in Press!ButtonType
      OBVIOUS
  <2> QED BY <2>1 DEF Press!ButtonType
<1>2. Press!IdsAreUnique(nodes, fresh + 2)
    BY <1>1 DEF Press!IdsAreUnique
<1>3. ASSUME NEW a \in DOMAIN nodes, NEW n \in Nat
      PROVE  LET changed == [nodes EXCEPT ![a].id = n]
             IN  /\ changed \in Seq(Press!ButtonType) /\ DOMAIN changed = DOMAIN nodes
                 /\ changed[a] = [nodes[a] EXCEPT !.id = n]
                 /\ \A j \in DOMAIN nodes : j # a => changed[j] = nodes[j]
  <2>1. [nodes[a] EXCEPT !.id = n] \in Press!ButtonType
      BY <1>1, ButtonRestyled
  <2>2. [nodes EXCEPT ![a].id = n] = [nodes EXCEPT ![a] = [nodes[a] EXCEPT !.id = n]]
      OBVIOUS
  <2> QED BY <2>1, <2>2, OneChanged
<1>4. CASE new = nodes
  <2>1. Succeeds(nodes, nodes)
      BY DEF Succeeds
  <2> QED BY <1>2, <1>4, <2>1
<1>5. ASSUME NEW a \in DOMAIN nodes, new = [nodes EXCEPT ![a].id = fresh + 1]
      PROVE  new \in Seq(Press!ButtonType) /\ Press!IdsAreUnique(new, fresh + 2)
                  /\ Succeeds(nodes, new)
  <2>1. /\ new \in Seq(Press!ButtonType) /\ DOMAIN new = DOMAIN nodes
        /\ new[a] = [nodes[a] EXCEPT !.id = fresh + 1]
        /\ \A j \in DOMAIN nodes : j # a => new[j] = nodes[j]
      BY <1>1, <1>3, <1>5
  <2>2. /\ new[a].id = fresh + 1 /\ new[a].who = nodes[a].who /\ new[a].visible = nodes[a].visible
        /\ new[a].box = nodes[a].box /\ new[a].enabled = nodes[a].enabled
      BY <1>1, <2>1, ButtonRenumbered
  <2>3. \A j \in DOMAIN nodes :
          new[j].id = (IF j = a THEN fresh + 1 ELSE nodes[j].id) /\ nodes[j].id # fresh + 1
    <3>1. \A j \in DOMAIN nodes : nodes[j].id < fresh + 1
        BY DEF Press!IdsAreUnique
    <3>2. \A j \in DOMAIN nodes : nodes[j].id # fresh + 1
        BY <1>1, <3>1
    <3>3. \A j \in DOMAIN nodes : j # a => new[j].id = nodes[j].id
        BY <2>1
    <3> QED BY <2>2, <3>2, <3>3
  <2>4. Press!IdsAreUnique(new, fresh + 2)
      BY <1>1, <1>2, <2>1, <2>3 DEF Press!IdsAreUnique
  <2>5. Succeeds(nodes, new)
      BY <2>1, <2>2 DEF Succeeds, Press!Painted
  <2> QED BY <2>1, <2>4, <2>5
<1>6. ASSUME NEW a \in DOMAIN nodes, NEW b \in DOMAIN nodes, a # b,
             new = [nodes EXCEPT ![a].id = nodes[b].id, ![b].id = nodes[a].id]
      PROVE  new \in Seq(Press!ButtonType) /\ Press!IdsAreUnique(new, fresh + 2)
                  /\ Succeeds(nodes, new)
  <2> DEFINE first == [nodes EXCEPT ![a].id = nodes[b].id]
  <2>1. /\ first \in Seq(Press!ButtonType) /\ DOMAIN first = DOMAIN nodes
        /\ first[a] = [nodes[a] EXCEPT !.id = nodes[b].id]
        /\ \A j \in DOMAIN nodes : j # a => first[j] = nodes[j]
      BY <1>1, <1>3
  <2>2. new = [first EXCEPT ![b] = [nodes[b] EXCEPT !.id = nodes[a].id]]
      BY <1>6
  <2>3. [nodes[b] EXCEPT !.id = nodes[a].id] \in Press!ButtonType
      BY <1>1, ButtonRestyled
  <2> HIDE DEF first
  <2>4. /\ new \in Seq(Press!ButtonType) /\ DOMAIN new = DOMAIN nodes
        /\ new[a] = [nodes[a] EXCEPT !.id = nodes[b].id]
        /\ new[b] = [nodes[b] EXCEPT !.id = nodes[a].id]
        /\ \A j \in DOMAIN nodes : j # a /\ j # b => new[j] = nodes[j]
    <3>1. /\ new \in Seq(Press!ButtonType) /\ DOMAIN new = DOMAIN first
          /\ new[b] = [nodes[b] EXCEPT !.id = nodes[a].id]
          /\ \A j \in DOMAIN first : j # b => new[j] = first[j]
        BY <2>1, <2>2, <2>3, OneChanged
    <3>2. new[a] = [nodes[a] EXCEPT !.id = nodes[b].id]
        BY <1>6, <2>1, <3>1
    <3>3. \A j \in DOMAIN nodes : j # a /\ j # b => new[j] = nodes[j]
        BY <2>1, <3>1
    <3> QED BY <2>1, <3>1, <3>2, <3>3
  <2>5. /\ new[a].id = nodes[b].id /\ new[b].id = nodes[a].id
        /\ \A j \in DOMAIN nodes :
             /\ new[j].who = nodes[j].who /\ new[j].visible = nodes[j].visible
             /\ new[j].box = nodes[j].box /\ new[j].enabled = nodes[j].enabled
    <3>1. /\ new[a].id = nodes[b].id /\ new[a].who = nodes[a].who
          /\ new[a].visible = nodes[a].visible /\ new[a].box = nodes[a].box
          /\ new[a].enabled = nodes[a].enabled
        BY <1>1, <2>4, ButtonRenumbered
    <3>2. /\ new[b].id = nodes[a].id /\ new[b].who = nodes[b].who
          /\ new[b].visible = nodes[b].visible /\ new[b].box = nodes[b].box
          /\ new[b].enabled = nodes[b].enabled
        BY <1>1, <2>4, ButtonRenumbered
    <3> QED BY <2>4, <3>1, <3>2
  <2>6. \A j \in DOMAIN nodes : new[j].id = IF j = a THEN nodes[b].id ELSE
                                            IF j = b THEN nodes[a].id ELSE nodes[j].id
      BY <2>4, <2>5
  <2>7. Press!IdsAreUnique(new, fresh + 2)
      BY <1>2, <2>4, <2>6 DEF Press!IdsAreUnique
  <2>8. Succeeds(nodes, new)
      BY <2>4, <2>5 DEF Succeeds, Press!Painted
  <2> QED BY <2>4, <2>7, <2>8
<1>7. \/ new = nodes
      \/ \E a \in DOMAIN nodes : new = [nodes EXCEPT ![a].id = fresh + 1]
      \/ \E a, b \in DOMAIN nodes :
           a # b /\ new = [nodes EXCEPT ![a].id = nodes[b].id, ![b].id = nodes[a].id]
  <2>1. CASE new \in {[nodes EXCEPT ![a].id = fresh + 1] : a \in DOMAIN nodes}
      BY <2>1
  <2>2. CASE new \in {[nodes EXCEPT ![p[1]].id = nodes[p[2]].id, ![p[2]].id = nodes[p[1]].id] :
                        p \in {q \in (DOMAIN nodes) \X (DOMAIN nodes) :
                                 q[1] < q[2] /\ nodes[q[1]].name # nodes[q[2]].name}}
    <3>1. PICK p \in (DOMAIN nodes) \X (DOMAIN nodes) :
            /\ p[1] < p[2]
            /\ new = [nodes EXCEPT ![p[1]].id = nodes[p[2]].id, ![p[2]].id = nodes[p[1]].id]
        BY <2>2
    <3>2. p[1] \in DOMAIN nodes /\ p[2] \in DOMAIN nodes /\ p[1] # p[2]
        BY <3>1
    <3> QED BY <3>1, <3>2
  <2> QED BY <2>1, <2>2 DEF Press!Remounted
<1> QED BY <1>4, <1>5, <1>6, <1>7

-----------------------------------------------------------------------------
\* The button that a case is resolved to: it is on the page, it has the
\* planned name and can be pressed, and it is the planned one as long as
\* that one has its id.
LEMMA ResolvedToThePlanned ==
  ASSUME buttons \in Seq(Press!ButtonType), NEW bound, Press!IdsAreUnique(buttons, bound),
       NEW case,
         Press!Pressable(buttons, case.who), NEW node \in Press!ResolveCase(case, buttons)
  PROVE  /\ node.name = case.name /\ Press!Painted(node) /\ node.enabled
         /\ \E i \in DOMAIN buttons : node = buttons[i]
         /\ \A i \in DOMAIN buttons :
              buttons[i].id = case.id /\ buttons[i].who = case.who /\ buttons[i].name = case.name
                => node = buttons[i]
<1> DEFINE byId == {n \in Press!ById(case, buttons) : n.name = case.name}
<1>1. CASE byId # {}
  <2>1. node \in Press!ById(case, buttons) /\ node.name = case.name
      BY <1>1 DEF Press!ResolveCase
  <2>2. node \in Press!Range(buttons) /\ node.id = case.id /\ Press!Painted(node) /\ node.enabled
      BY <2>1 DEF Press!ById
  <2>3. PICK i \in DOMAIN buttons : node = buttons[i]
      BY <2>2 DEF Press!Range
  <2> QED BY <2>1, <2>2, <2>3 DEF Press!IdsAreUnique
<1>2. CASE byId = {}
  <2>1. node \in Press!ByPlace(case, buttons)
      BY <1>2 DEF Press!ResolveCase
  <2>2. PICK i \in DOMAIN buttons : /\ node = buttons[i] /\ buttons[i].name = case.name
                                 /\ Press!Painted(buttons[i]) /\ buttons[i].enabled
      BY <2>1 DEF Press!ByPlace
  <2>3. ASSUME NEW j \in DOMAIN buttons, buttons[j].id = case.id, buttons[j].who = case.who,
               buttons[j].name = case.name
        PROVE  FALSE
    <3>1. Press!Painted(buttons[j]) /\ buttons[j].enabled
        BY <2>3 DEF Press!Pressable
    <3>2. buttons[j] \in Press!ById(case, buttons)
        BY <2>3, <3>1 DEF Press!ById, Press!Range
    <3> QED BY <1>2, <2>3, <3>2
  <2> QED BY <2>2, <2>3
<1> QED BY <1>1, <1>2

-----------------------------------------------------------------------------
(* What a change of the page leaves as it was.                             *)

LEMMA LooksAgain ==
  ASSUME NEW a, NEW b, NEW c, Press!SameLooks(a, b), Press!SameLooks(b, c)
  PROVE  Press!SameLooks(a, c)
BY DEF Press!SameLooks

LEMMA SameHasButton ==
  ASSUME NEW old, NEW new, Press!SameLooks(old, new), NEW name
  PROVE  Press!HasButton(new, name) <=> Press!HasButton(old, name)
BY DEF Press!SameLooks, Press!HasButton, Press!Painted

\* What no reading tells from nothing leaves the names, the looks and the ids.
LEMMA UnseenReaction ==
  ASSUME buttons \in Seq(Press!ButtonType), NEW i \in DOMAIN buttons,
         NEW reaction \in Press!Reactions(i), reaction.did \in Press!Unseen
  PROVE  Press!SameLooks(buttons, reaction.page) /\ Press!SameIds(buttons, reaction.page)
<1> DEFINE new == reaction.page
           moved == [buttons[i] EXCEPT !.place = 3 - @]
<1>1. new = buttons \/ new = [buttons EXCEPT ![i] = [buttons[i] EXCEPT !.place = 3 - @]]
    BY Reacted DEF Press!Unseen
<1>2. CASE new = buttons
    BY <1>2 DEF Press!SameLooks, Press!SameIds
<1>3. CASE new = [buttons EXCEPT ![i] = [buttons[i] EXCEPT !.place = 3 - @]]
  <2>1. buttons[i] \in Press!ButtonType
      OBVIOUS
  <2>2. /\ moved \in Press!ButtonType /\ moved.id = buttons[i].id
        /\ moved.name = buttons[i].name /\ moved.enabled = buttons[i].enabled
        /\ moved.visible = buttons[i].visible /\ moved.box = buttons[i].box
        /\ moved.selected = buttons[i].selected
      BY <2>1, ButtonRestyled DEF Press!ButtonType
  <2> HIDE DEF moved
  <2>3. /\ DOMAIN new = DOMAIN buttons /\ new[i] = moved
        /\ \A j \in DOMAIN buttons : j # i => new[j] = buttons[j]
      BY <1>3, <2>2, OneChanged DEF moved
  <2> QED BY <2>2, <2>3 DEF Press!SameLooks, Press!SameIds
<1> QED BY <1>1, <1>2, <1>3

\* One button under another id.
LEMMA OneRenumbered ==
  ASSUME NEW nodes \in Seq(Press!ButtonType), NEW a \in DOMAIN nodes, NEW n \in Nat, NEW new,
         new = [nodes EXCEPT ![a].id = n]
  PROVE  new \in Seq(Press!ButtonType) /\ Press!SameLooks(nodes, new)
<1>1. nodes[a] \in Press!ButtonType
    OBVIOUS
<1>2. [nodes[a] EXCEPT !.id = n] \in Press!ButtonType
    BY <1>1, ButtonRestyled
<1>3. new = [nodes EXCEPT ![a] = [nodes[a] EXCEPT !.id = n]]
    OBVIOUS
<1>4. /\ new \in Seq(Press!ButtonType) /\ DOMAIN new = DOMAIN nodes
      /\ new[a] = [nodes[a] EXCEPT !.id = n]
      /\ \A j \in DOMAIN nodes : j # a => new[j] = nodes[j]
    BY <1>2, <1>3, OneChanged
<1>5. /\ new[a].visible = nodes[a].visible /\ new[a].box = nodes[a].box
      /\ new[a].enabled = nodes[a].enabled /\ new[a].name = nodes[a].name
      /\ new[a].selected = nodes[a].selected
    BY <1>1, <1>4, ButtonRenumbered
<1> QED BY <1>4, <1>5 DEF Press!SameLooks

\* Renumbering leaves what the page shows.
LEMMA RemountLooks ==
  ASSUME NEW nodes \in Seq(Press!ButtonType), fresh \in Nat, NEW new \in Press!Remounted(nodes)
  PROVE  Press!SameLooks(nodes, new)
<1>1. \A j \in DOMAIN nodes : nodes[j].id \in Nat
  <2>1. \A j \in DOMAIN nodes : nodes[j] \in Press!ButtonType
      OBVIOUS
  <2> QED BY <2>1 DEF Press!ButtonType
<1>2. CASE new = nodes
    BY <1>2 DEF Press!SameLooks
<1>3. CASE new \in {[nodes EXCEPT ![a].id = fresh + 1] : a \in DOMAIN nodes}
  <2>1. PICK a \in DOMAIN nodes : new = [nodes EXCEPT ![a].id = fresh + 1]
      BY <1>3
  <2>2. fresh + 1 \in Nat
      OBVIOUS
  <2> QED BY <2>1, <2>2, OneRenumbered
<1>4. CASE new \in {[nodes EXCEPT ![p[1]].id = nodes[p[2]].id, ![p[2]].id = nodes[p[1]].id] :
                      p \in {q \in (DOMAIN nodes) \X (DOMAIN nodes) :
                               q[1] < q[2] /\ nodes[q[1]].name # nodes[q[2]].name}}
  <2>1. PICK p \in (DOMAIN nodes) \X (DOMAIN nodes) :
          new = [nodes EXCEPT ![p[1]].id = nodes[p[2]].id, ![p[2]].id = nodes[p[1]].id]
      BY <1>4
  <2> DEFINE first == [nodes EXCEPT ![p[1]].id = nodes[p[2]].id]
  <2>2. p[1] \in DOMAIN nodes /\ p[2] \in DOMAIN nodes
      BY <2>1
  <2>3. nodes[p[1]].id \in Nat /\ nodes[p[2]].id \in Nat
      BY <1>1, <2>2
  <2>4. first \in Seq(Press!ButtonType) /\ Press!SameLooks(nodes, first)
      BY <2>2, <2>3, OneRenumbered
  <2>5. new = [first EXCEPT ![p[2]].id = nodes[p[1]].id]
      BY <2>1
  <2> HIDE DEF first
  <2>6. p[2] \in DOMAIN first
      BY <2>2, <2>4 DEF Press!SameLooks
  <2>7. Press!SameLooks(first, new)
      BY <2>3, <2>4, <2>5, <2>6, OneRenumbered
  <2> QED BY <2>4, <2>7, LooksAgain
<1> QED BY <1>2, <1>3, <1>4 DEF Press!Remounted

\* A button that changes keeps its id and who it is; a new one has an id
\* that was not given out before.
Numbered(old, new) ==
  \A j \in DOMAIN new :
    \/ new[j].id = fresh
    \/ \E l \in DOMAIN old : new[j].id = old[l].id /\ new[j].who = old[l].who

LEMMA ReactionNumbers ==
  ASSUME buttons \in Seq(Press!ButtonType), fresh \in Nat, NEW i \in DOMAIN buttons,
         NEW reaction \in Press!Reactions(i)
  PROVE  Numbered(buttons, reaction.page)
<1> DEFINE node == buttons[i]
           new == reaction.page
           asked == [Press!Button(fresh, "cancel", node.name.subject) EXCEPT !.place = 2]
           another == [Press!Button(fresh, node.name.verb, node.name.subject) EXCEPT !.place = 2]
<1>1. node \in Press!ButtonType /\ node.name \in Press!NameType /\ node.name.verb \in Press!Verbs
  <2>1. node \in Press!ButtonType
      OBVIOUS
  <2>2. node.name \in Press!NameType
      BY <2>1 DEF Press!ButtonType
  <2> QED BY <2>1, <2>2 DEF Press!NameType
<1>2. ASSUME NEW other \in Press!ButtonType, new = [buttons EXCEPT ![i] = other],
             other.id = node.id, other.who = node.who
      PROVE  Numbered(buttons, new)
  <2>1. /\ DOMAIN new = DOMAIN buttons /\ new[i] = other
        /\ \A j \in DOMAIN buttons : j # i => new[j] = buttons[j]
      BY <1>2, OneChanged
  <2> QED BY <1>2, <2>1 DEF Numbered
<1>10. ASSUME \A j \in DOMAIN new : \/ new[j].id = fresh
                                     \/ \E l \in DOMAIN buttons : new[j] = buttons[l]
       PROVE  Numbered(buttons, new)
  <2> HIDE DEF new
  <2> QED BY <1>10 DEF Numbered
<1>3. CASE new = buttons
    BY <1>3 DEF Numbered
<1>4. CASE new = [buttons EXCEPT ![i] = [node EXCEPT !.place = 3 - @]]
  <2>1. [node EXCEPT !.place = 3 - @] \in Press!ButtonType
      BY <1>1, ButtonRestyled
  <2> QED BY <1>1, <1>2, <1>4, <2>1 DEF Press!ButtonType
<1>5. CASE new = [buttons EXCEPT ![i] = [node EXCEPT !.name.verb = Turned(@)]]
  <2>1. Turned(node.name.verb) \in Press!Verbs
      BY DEF Turned, Press!Verbs
  <2>2. [node EXCEPT !.name.verb = Turned(@)] \in Press!ButtonType
      BY <1>1, <2>1, ButtonRestyled
  <2> QED BY <1>1, <1>2, <1>5, <2>2 DEF Press!ButtonType
<1>6. CASE new = [buttons EXCEPT ![i] = [node EXCEPT !.selected = TRUE]]
  <2>1. [node EXCEPT !.selected = TRUE] \in Press!ButtonType
      BY <1>1, ButtonRestyled
  <2> QED BY <1>1, <1>2, <1>6, <2>1 DEF Press!ButtonType
<1>7. CASE new = Press!Without(buttons, i)
  <2>1. /\ Len(new) = Len(buttons) - 1 /\ new \in Seq(Press!ButtonType)
        /\ \A j \in DOMAIN new : new[j] = buttons[IF j < i THEN j ELSE j + 1]
      BY <1>7, OneRemoved
  <2>2. DOMAIN new = 1..(Len(buttons) - 1) /\ Len(buttons) \in Nat
             /\ DOMAIN buttons = 1..Len(buttons)
      BY <2>1
  <2>3. \A j \in DOMAIN new : (IF j < i THEN j ELSE j + 1) \in DOMAIN buttons
    <3> HIDE DEF new
    <3> QED BY <2>2
  <2>4. \A j \in DOMAIN new : \E l \in DOMAIN buttons : new[j] = buttons[l]
    <3> HIDE DEF new
    <3> QED BY <2>1, <2>3
  <2> QED BY <1>10, <2>4
<1>8. CASE new = Append(buttons, asked)
  <2>1. asked.id = fresh /\ asked \in Press!ButtonType
    <3>1. [verb |-> "cancel", subject |-> node.name.subject, letters |-> "title"]
            \in Press!NameType
        BY <1>1 DEF Press!NameType, Press!Verbs
    <3> QED BY <3>1, NewButton
  <2> HIDE DEF asked
  <2>2. /\ new[Len(buttons) + 1] = asked
        /\ \A j \in DOMAIN buttons : new[j] = buttons[j]
        /\ \A j \in DOMAIN new : j \in DOMAIN buttons \/ j = Len(buttons) + 1
      BY <1>8, <2>1
  <2>3. \A j \in DOMAIN new : new[j] = asked \/ \E l \in DOMAIN buttons : new[j] = buttons[l]
    <3> HIDE DEF new
    <3> QED BY <2>2
  <2> QED BY <1>10, <2>1, <2>3
<1>9. CASE new = <<another>> \o buttons
  <2>1. another.id = fresh /\ another \in Press!ButtonType
      BY <1>1, NewButton
  <2> HIDE DEF another
  <2>2. /\ new[1] = another
        /\ \A j \in DOMAIN new : j # 1 => j - 1 \in DOMAIN buttons /\ new[j] = buttons[j - 1]
      BY <1>9, <2>1
  <2>3. \A j \in DOMAIN new : new[j] = another \/ \E l \in DOMAIN buttons : new[j] = buttons[l]
    <3> HIDE DEF new
    <3> QED BY <2>2
  <2> QED BY <1>10, <2>1, <2>3
<1> HIDE DEF new, node, asked, another
<1> QED BY <1>3, <1>4, <1>5, <1>6, <1>7, <1>8, <1>9, Reacted DEF new, node, asked, another

\* A disclosure that turned shows its other name.
LEMMA TurnedShows ==
  ASSUME NEW old \in Seq(Press!ButtonType), NEW i \in DOMAIN old, Press!Painted(old[i]),
         old[i].name.verb \in {"expand", "collapse"}, NEW new,
         new = [old EXCEPT ![i] = [old[i] EXCEPT !.name.verb = Turned(@)]]
  PROVE  Press!HasButton(new, [old[i].name EXCEPT !.verb = Press!Opposite(@)])
<1> DEFINE node == old[i]
           name == old[i].name
           turned == [node EXCEPT !.name.verb = Turned(@)]
<1>1. node \in Press!ButtonType /\ name \in Press!NameType
  <2>1. node \in Press!ButtonType
      OBVIOUS
  <2> QED BY <2>1 DEF Press!ButtonType
<1>2. Turned(name.verb) = Press!Opposite(name.verb) /\ Press!Opposite(name.verb) \in Press!Verbs
    BY DEF Turned, Press!Opposite, Press!Verbs
<1>3. turned = [node EXCEPT !.name = [name EXCEPT !.verb = Press!Opposite(@)]]
    BY <1>2
<1>4. /\ turned.name = [name EXCEPT !.verb = Press!Opposite(@)]
      /\ turned.visible = node.visible /\ turned.box = node.box
    BY <1>1, <1>3 DEF Press!ButtonType
<1>5. turned \in Press!ButtonType
    BY <1>1, <1>2, ButtonRestyled
<1>6. DOMAIN new = DOMAIN old /\ new[i] = turned
    BY <1>5, OneChanged
<1> HIDE DEF turned
<1> QED BY <1>4, <1>6 DEF Press!HasButton, Press!Painted, Press!Alike

-----------------------------------------------------------------------------
(* The verdict.                                                            *)

\* What a name promises.
LEMMA Promises ==
  ASSUME NEW name
  PROVE  /\ Press!ExpectationFor(name) \in {"inert", "toggles", "changes", "removes", "adds"}
         /\ name.verb \in {"expand", "collapse"} => Press!ExpectationFor(name) = "toggles"
BY DEF Press!ExpectationFor

\* The counts that a verdict compares are numbers.
LEMMA WaysOutCounted ==
  ASSUME NEW nodes \in Seq(Press!ButtonType) PROVE Press!WaysOut(nodes) \in Nat
<1> DEFINE S == {i \in DOMAIN nodes : Press!Painted(nodes[i]) /\ nodes[i].name.verb = "cancel"}
<1>1. Len(nodes) \in Nat /\ S \in SUBSET (1..Len(nodes))
    OBVIOUS
<1> HIDE DEF S
<1>2. Cardinality(S) \in Nat
    BY <1>1, Counted
<1> QED BY <1>2, PressCardinality DEF Press!WaysOut, S

\* A page that shows what it showed before fails the press.
LEMMA DeadFails ==
  ASSUME NEW old \in Seq(Press!ButtonType), NEW new \in Seq(Press!ButtonType),
         Press!SameLooks(old, new), NEW i \in DOMAIN old, Press!Painted(old[i]), NEW id,
         ~ Press!Excused(id, old[i].name, old)
  PROVE  Press!Fails(id, old[i].name, old, new)
<1> DEFINE name == old[i].name
           opposite == [name EXCEPT !.verb = Press!Opposite(@)]
<1>1. Press!HasButton(new, name)
  <2>1. Press!HasButton(old, name)
      BY DEF Press!HasButton, Press!Alike
  <2> QED BY <2>1, SameHasButton
<1>2. Press!WaysOut(new) = Press!WaysOut(old)
  <2>1. {j \in DOMAIN new : Press!Painted(new[j]) /\ new[j].name.verb = "cancel"}
          = {j \in DOMAIN old : Press!Painted(old[j]) /\ old[j].name.verb = "cancel"}
      BY DEF Press!Painted, Press!SameLooks
  <2> QED BY <2>1 DEF Press!WaysOut
<1>3. ~ Press!ConfirmationAppeared(old, new)
    BY <1>2, WaysOutCounted DEF Press!ConfirmationAppeared
<1>4. Len(new) <= Len(old)
  <2>1. 1..Len(new) = 1..Len(old) /\ Len(new) \in Nat /\ Len(old) \in Nat
      BY DEF Press!SameLooks
  <2> QED BY <2>1
<1>5. Press!TreeFingerprint(old) = Press!TreeFingerprint(new)
    BY DEF Press!TreeFingerprint, Press!SameLooks
<1>6. Press!HasButton(new, opposite) <=> Press!HasButton(old, opposite)
    BY SameHasButton
<1>7. /\ Press!ExpectationFor(name) # "inert"
      /\ Press!ExpectationFor(name) = "changes" => ~ Press!SelectedChoice(id, old)
      /\ Press!ExpectationFor(name) = "toggles" => ~ Press!HasButton(old, opposite)
    BY DEF Press!Excused
<1> HIDE DEF name
<1>8. Press!Fails(id, name, old, new)
  <2>1. CASE Press!ExpectationFor(name) = "toggles"
      BY <1>6, <1>7, <2>1 DEF Press!Fails
  <2>2. CASE Press!ExpectationFor(name) = "removes"
      BY <1>1, <1>3, <2>2 DEF Press!Fails
  <2>3. CASE Press!ExpectationFor(name) = "adds"
      BY <1>1, <1>4, <2>3 DEF Press!Fails
  <2>4. CASE Press!ExpectationFor(name) = "changes"
      BY <1>5, <1>7, <2>4 DEF Press!Fails
  <2> QED BY <1>7, <2>1, <2>2, <2>3, <2>4, Promises
<1> QED BY <1>8 DEF name

LEMMA FailsOrNot ==
  ASSUME NEW id, NEW name, NEW old, NEW new PROVE Press!Fails(id, name, old, new) \in BOOLEAN
<1>1. CASE Press!ExpectationFor(name) = "toggles"
    BY <1>1 DEF Press!Fails
<1>2. CASE Press!ExpectationFor(name) = "removes"
    BY <1>2 DEF Press!Fails
<1>3. CASE Press!ExpectationFor(name) = "adds"
    BY <1>3 DEF Press!Fails
<1>4. CASE Press!ExpectationFor(name) = "changes"
    BY <1>4 DEF Press!Fails
<1>5. CASE Press!ExpectationFor(name) = "inert"
    BY <1>5 DEF Press!Fails
<1> QED BY <1>1, <1>2, <1>3, <1>4, <1>5, Promises

-----------------------------------------------------------------------------
(* The steps.                                                              *)

\* A page that is renumbered, or changed as a press may change it.
LEMMA PageMoves ==
  ASSUME Press!SweepInv, fresh' = fresh + 2,
         \/ buttons' \in Press!Remounted(buttons)
         \/ \E i \in DOMAIN buttons : \E reaction \in Press!Reactions(i) : buttons' = reaction.page
  PROVE  /\ buttons' \in Seq(Press!ButtonType) /\ Press!IdsAreUnique(buttons', fresh')
         /\ Succeeds(buttons, buttons')
<1>1. /\ buttons \in Seq(Press!ButtonType) /\ fresh \in Nat /\ Press!IdsAreUnique(buttons, fresh)
    BY DEF Press!SweepInv, Press!TypeOK
<1>2. \A nodes \in Seq(Press!ButtonType) : \A bound \in Nat :
        Press!IdsAreUnique(nodes, bound) => Press!IdsAreUnique(nodes, bound + 1)
  <2> TAKE nodes \in Seq(Press!ButtonType), bound \in Nat
  <2>1. \A j \in DOMAIN nodes : nodes[j] \in Press!ButtonType
      OBVIOUS
  <2>2. \A j \in DOMAIN nodes : nodes[j].id \in Nat
      BY <2>1 DEF Press!ButtonType
  <2> QED BY <2>2 DEF Press!IdsAreUnique
<1>3. CASE buttons' \in Press!Remounted(buttons)
    BY <1>1, <1>2, <1>3, RemountKeeps
<1>4. CASE \E i \in DOMAIN buttons : \E reaction \in Press!Reactions(i) : buttons' = reaction.page
  <2>1. /\ buttons' \in Seq(Press!ButtonType) /\ Press!IdsAreUnique(buttons', fresh + 1)
        /\ Succeeds(buttons, buttons')
      BY <1>1, <1>4, ReactionKeeps
  <2>2. fresh + 1 \in Nat /\ fresh' = (fresh + 1) + 1
      BY <1>1
  <2> QED BY <1>2, <2>1, <2>2
<1> QED BY <1>3, <1>4

\* What was read stays as it was.
LEMMA ReadStays ==
  ASSUME Press!SweepInv, fresh' = fresh + 2,
         treeRead' = treeRead, aim' = aim, cases' = cases, next' = next,
         step' \in {"press", "settle"} => step \in {"press", "settle"}
  PROVE  Press!AimIsTrue'
<1>1. fresh \in Nat /\ fresh' = fresh + 2
    BY DEF Press!SweepInv, Press!TypeOK
<1>2. ASSUME treeRead \in Seq(Press!ButtonType), Press!IdsAreUnique(treeRead, fresh)
      PROVE  Press!IdsAreUnique(treeRead, fresh')
  <2>1. \A j \in DOMAIN treeRead : treeRead[j] \in Press!ButtonType
      BY <1>2
  <2>2. \A j \in DOMAIN treeRead : treeRead[j].id \in Nat
      BY <2>1 DEF Press!ButtonType
  <2> QED BY <1>1, <1>2, <2>2 DEF Press!IdsAreUnique
<1> HIDE DEF buttons
<1> QED BY <1>2 DEF Press!SweepInv, Press!AimIsTrue

LEMMA DriftKeeps == ASSUME Press!SweepInv, Press!Drift PROVE Press!SweepInv'
<1>1. /\ buttons \in Seq(Press!ButtonType) /\ fresh \in Nat /\ Press!IdsAreUnique(buttons, fresh)
      /\ drift \in [left : Nat, changed : BOOLEAN, renumbered : BOOLEAN] /\ drift.left > 0
    BY DEF Press!SweepInv, Press!TypeOK, Press!Drift
<1>2. /\ fresh' = fresh + 2 /\ step' = step /\ treeRead' = treeRead /\ aim' = aim /\ hit' = hit
      /\ cases' = cases /\ next' = next /\ outcomes' = outcomes
    BY DEF Press!Drift
<1>3. /\ buttons' \in Seq(Press!ButtonType) /\ Press!IdsAreUnique(buttons', fresh')
      /\ Succeeds(buttons, buttons')
  <2>1. \/ buttons' \in Press!Remounted(buttons)
        \/ \E i \in DOMAIN buttons : \E reaction \in Press!Reactions(i) : buttons' = reaction.page
      BY Zenon DEF Press!Drift
  <2> QED BY <1>2, <2>1, PageMoves
<1>4. /\ drift' \in [left : Nat, changed : BOOLEAN, renumbered : BOOLEAN]
      /\ ~ drift'.changed => ~ drift.changed /\ Press!SameLooks(buttons, buttons')
      /\ ~ drift'.renumbered => ~ drift.renumbered /\ Numbered(buttons, buttons')
      /\ ~ drift'.changed /\ ~ drift'.renumbered => Press!SameIds(buttons, buttons')
  <2>1. CASE buttons' \in Press!Remounted(buttons) /\ drift' = Press!Drifted(drift.changed, TRUE)
    <3>1. Press!SameLooks(buttons, buttons')
        BY <1>1, <2>1, RemountLooks
    <3>2. drift'.renumbered /\ drift'.changed = drift.changed
             /\ drift' \in [left : Nat, changed : BOOLEAN, renumbered : BOOLEAN]
        BY <1>1, <2>1 DEF Press!Drifted
    <3> QED BY <3>1, <3>2
  <2>2. ASSUME NEW i \in DOMAIN buttons, NEW change \in Press!Reactions(i),
               buttons' = change.page,
               drift' = Press!Drifted(drift.changed \/ change.did \notin Press!Unseen,
                                      drift.renumbered)
        PROVE  <1>4!1 /\ <1>4!2 /\ <1>4!3 /\ <1>4!4
    <3>1. /\ drift'.renumbered = drift.renumbered
          /\ ~ drift'.changed => ~ drift.changed /\ change.did \in Press!Unseen
          /\ drift' \in [left : Nat, changed : BOOLEAN, renumbered : BOOLEAN]
      <4> DEFINE more == drift.changed \/ change.did \notin Press!Unseen
      <4>1. drift' = Press!Drifted(more, drift.renumbered)
          BY <2>2
      <4>2. more \in BOOLEAN /\ (~ more => ~ drift.changed /\ change.did \in Press!Unseen)
          BY <1>1
      <4> HIDE DEF more
      <4> QED BY <1>1, <4>1, <4>2 DEF Press!Drifted
    <3>2. Numbered(buttons, buttons')
        BY <1>1, <2>2, ReactionNumbers
    <3>3. change.did \in Press!Unseen =>
            Press!SameLooks(buttons, buttons') /\ Press!SameIds(buttons, buttons')
        BY <1>1, <2>2, UnseenReaction
    <3> QED BY <3>1, <3>2, <3>3
  <2> QED BY <2>1, <2>2 DEF Press!Drift
<1>5. Press!PlannedStayPressable'
    BY <1>2, <1>3, PressableOn DEF Press!SweepInv, Press!PlannedStayPressable
<1>6. Press!AimIsTrue'
    BY <1>2, ReadStays
<1>7. Press!PageIsKnown'
  <2> SUFFICES ASSUME step = "press"
               PROVE  /\ ~ drift'.changed => Press!SameLooks(treeRead, buttons')
                      /\ ~ drift'.renumbered =>
                           \A j \in DOMAIN buttons' :
                             buttons'[j].id = aim.id => buttons'[j].who = aim.who
                      /\ ~ drift'.changed /\ ~ drift'.renumbered =>
                           Press!SameIds(treeRead, buttons')
      BY <1>2 DEF Press!PageIsKnown
  <2>1. /\ ~ drift.changed => Press!SameLooks(treeRead, buttons)
        /\ ~ drift.renumbered =>
             \A j \in DOMAIN buttons : buttons[j].id = aim.id => buttons[j].who = aim.who
        /\ ~ drift.changed /\ ~ drift.renumbered => Press!SameIds(treeRead, buttons)
      BY DEF Press!SweepInv, Press!PageIsKnown
  <2>2. ~ drift'.changed => Press!SameLooks(treeRead, buttons')
      BY <1>4, <2>1, LooksAgain
  <2>3. aim.id # fresh
    <3>1. PICK k \in DOMAIN treeRead : treeRead[k].id = aim.id
        BY DEF Press!SweepInv, Press!AimIsTrue
    <3>2. treeRead \in Seq(Press!ButtonType) /\ treeRead[k].id < fresh
        BY DEF Press!SweepInv, Press!AimIsTrue, Press!IdsAreUnique
    <3>3. treeRead[k] \in Press!ButtonType
        BY <3>2
    <3>4. treeRead[k].id \in Nat
        BY <3>3 DEF Press!ButtonType
    <3> QED BY <1>1, <3>1, <3>2, <3>4
  <2>4. ~ drift'.renumbered => \A j \in DOMAIN buttons' :
          buttons'[j].id = aim.id => buttons'[j].who = aim.who
      BY <1>4, <2>1, <2>3 DEF Numbered
  <2>5. ~ drift'.changed /\ ~ drift'.renumbered => Press!SameIds(treeRead, buttons')
      BY <1>4, <2>1 DEF Press!SameIds, Press!SameLooks
  <2> QED BY <2>2, <2>4, <2>5
<1>8. Press!PressIsSeen'
  <2> SUFFICES ASSUME step = "settle"
               PROVE  /\ hit.did # "refused" /\ (hit.direct => hit.who = aim.who)
                      /\ ~ drift'.changed /\ hit.did \in Press!Unseen =>
                           Press!SameLooks(treeRead, buttons')
                      /\ ~ drift'.changed /\ hit.direct /\ hit.did = "turn"
                           /\ aim.name.verb \in {"expand", "collapse"} =>
                           Press!HasButton(buttons', [aim.name EXCEPT !.verb = Press!Opposite(@)])
      BY <1>2 DEF Press!PressIsSeen
  <2>1. /\ hit.did # "refused" /\ (hit.direct => hit.who = aim.who)
        /\ ~ drift.changed /\ hit.did \in Press!Unseen => Press!SameLooks(treeRead, buttons)
        /\ ~ drift.changed /\ hit.direct /\ hit.did = "turn"
             /\ aim.name.verb \in {"expand", "collapse"} =>
             Press!HasButton(buttons, [aim.name EXCEPT !.verb = Press!Opposite(@)])
      BY DEF Press!SweepInv, Press!PressIsSeen
  <2>2. ~ drift'.changed /\ hit.did \in Press!Unseen => Press!SameLooks(treeRead, buttons')
      BY <1>4, <2>1, LooksAgain
  <2> QED BY <1>4, <2>1, <2>2, SameHasButton
<1>9. Press!TypeOK'
    BY <1>1, <1>2, <1>3, <1>4 DEF Press!SweepInv, Press!TypeOK
<1> QED BY <1>2, <1>3, <1>5, <1>6, <1>7, <1>8, <1>9
        DEF Press!SweepInv, Press!OutcomesAreOfCases, Press!DeadButtonsFail,
            Press!ThePlannedIsPressed

LEMMA AimKeeps == ASSUME Press!SweepInv, Press!Aim PROVE Press!SweepInv'
<1>1. /\ buttons \in Seq(Press!ButtonType) /\ fresh \in Nat /\ Press!IdsAreUnique(buttons, fresh)
      /\ drift \in [left : Nat, changed : BOOLEAN, renumbered : BOOLEAN]
      /\ next \in Nat \ {0} /\ cases \in Seq(Press!CaseType) /\ next <= Len(cases)
    BY DEF Press!SweepInv, Press!TypeOK, Press!Aim
<1>2. /\ fresh' = fresh /\ buttons' = buttons /\ hit' = hit /\ cases' = cases /\ next' = next
      /\ outcomes' = outcomes /\ step' = "press" /\ treeRead' = buttons
      /\ drift' = [drift EXCEPT !.changed = FALSE, !.renumbered = FALSE]
    BY DEF Press!Aim
<1> DEFINE case == cases[next]
           there == \E i \in DOMAIN buttons : /\ buttons[i].id = case.id
                                              /\ buttons[i].who = case.who
                                              /\ buttons[i].name = case.name
<1>3. PICK node \in Press!ResolveCase(case, buttons) :
        aim' = [id |-> node.id, who |-> node.who, name |-> node.name, there |-> there,
                excused |-> Press!Excused(node.id, node.name, buttons)]
    BY DEF Press!Aim
<1>4. next \in DOMAIN cases
    BY <1>1
<1>5. /\ node.name = case.name /\ Press!Painted(node)
      /\ \E i \in DOMAIN buttons : node = buttons[i]
      /\ \A i \in DOMAIN buttons :
           buttons[i].id = case.id /\ buttons[i].who = case.who /\ buttons[i].name = case.name
             => node = buttons[i]
    BY <1>1, <1>4, ResolvedToThePlanned DEF Press!SweepInv, Press!PlannedStayPressable
<1>6. PICK k \in DOMAIN buttons : node = buttons[k]
    BY <1>5
<1>7. node.who \in Nat /\ node.name \in Press!NameType
  <2>1. node \in Press!ButtonType
      BY <1>1, <1>6
  <2> QED BY <2>1 DEF Press!ButtonType
<1>8. /\ aim'.id = node.id /\ aim'.who = node.who /\ aim'.name = node.name
      /\ aim'.there = there /\ aim'.excused = Press!Excused(node.id, node.name, buttons)
    BY <1>3
<1>9. Press!AimIsTrue'
  <2>1. there \in BOOLEAN /\ (there => node.who = case.who)
      BY <1>5
  <2>2. /\ buttons[k].id = aim'.id /\ buttons[k].who = aim'.who /\ buttons[k].name = aim'.name
        /\ Press!Painted(buttons[k])
      BY <1>5, <1>6, <1>8
  <2>3. aim'.excused = Press!Excused(aim'.id, aim'.name, buttons)
      BY <1>8
  <2> HIDE DEF there
  <2>4. /\ aim'.name = cases'[next'].name /\ aim'.who \in Nat /\ aim'.name \in Press!NameType
        /\ aim'.there \in BOOLEAN /\ (aim'.there => aim'.who = cases'[next'].who)
      BY <1>2, <1>5, <1>7, <1>8, <2>1
  <2> QED BY <1>1, <1>2, <2>2, <2>3, <2>4 DEF Press!AimIsTrue
<1> HIDE DEF there
<1>10. Press!PageIsKnown'
  <2>1. \A i \in DOMAIN buttons : buttons[i].id = aim'.id => buttons[i].who = aim'.who
      BY <1>1, <1>6, <1>8 DEF Press!IdsAreUnique
  <2>2. Press!SameLooks(buttons, buttons) /\ Press!SameIds(buttons, buttons)
      BY DEF Press!SameLooks, Press!SameIds
  <2> QED BY <1>2, <2>1, <2>2 DEF Press!PageIsKnown
<1>11. Press!TypeOK'
    BY <1>1, <1>2, <1>4 DEF Press!SweepInv, Press!TypeOK
<1> QED BY <1>2, <1>9, <1>10, <1>11
        DEF Press!SweepInv, Press!PlannedStayPressable, Press!OutcomesAreOfCases,
            Press!PressIsSeen, Press!DeadButtonsFail, Press!ThePlannedIsPressed

LEMMA PressKeeps == ASSUME Press!SweepInv, Press!Press PROVE Press!SweepInv'
<1>1. /\ buttons \in Seq(Press!ButtonType) /\ fresh \in Nat /\ Press!IdsAreUnique(buttons, fresh)
      /\ drift \in [left : Nat, changed : BOOLEAN, renumbered : BOOLEAN] /\ step = "press"
    BY DEF Press!SweepInv, Press!TypeOK, Press!Press
<1>2. /\ fresh' = fresh + 2 /\ step' = "settle" /\ treeRead' = treeRead /\ aim' = aim
      /\ drift' = drift /\ cases' = cases /\ next' = next /\ outcomes' = outcomes
    BY DEF Press!Press
<1>3. PICK i \in DOMAIN buttons : \E reaction \in Press!Reactions(i) :
        /\ buttons[i].id = aim.id /\ buttons' = reaction.page
        /\ hit' = [who |-> buttons[i].who, did |-> reaction.did, direct |-> ~ drift.renumbered]
    BY DEF Press!Press
<1>4. PICK reaction \in Press!Reactions(i) :
        /\ buttons[i].id = aim.id /\ buttons' = reaction.page
        /\ hit' = [who |-> buttons[i].who, did |-> reaction.did, direct |-> ~ drift.renumbered]
    BY <1>3
<1>5. /\ buttons' \in Seq(Press!ButtonType) /\ Press!IdsAreUnique(buttons', fresh')
      /\ Succeeds(buttons, buttons')
    BY <1>2, <1>4, PageMoves
<1>6. Press!PlannedStayPressable'
    BY <1>2, <1>5, PressableOn DEF Press!SweepInv, Press!PlannedStayPressable
<1>7. Press!AimIsTrue'
    BY <1>1, <1>2, ReadStays
<1>8. /\ hit'.who = buttons[i].who /\ hit'.did = reaction.did /\ hit'.direct = ~ drift.renumbered
      /\ reaction.did \in Press!Dids \ {"refused"}
    BY <1>1, <1>4, Reacted DEF Press!Dids, Press!Unseen
<1>9. /\ ~ drift.changed => Press!SameLooks(treeRead, buttons)
      /\ ~ drift.renumbered => buttons[i].who = aim.who
      /\ ~ drift.changed /\ ~ drift.renumbered => Press!SameIds(treeRead, buttons)
    BY <1>1, <1>4 DEF Press!SweepInv, Press!PageIsKnown
<1>10. Press!PressIsSeen'
  <2>1. ~ drift.changed /\ reaction.did \in Press!Unseen => Press!SameLooks(treeRead, buttons')
    <3>1. reaction.did \in Press!Unseen => Press!SameLooks(buttons, buttons')
        BY <1>1, <1>4, UnseenReaction
    <3> QED BY <1>9, <3>1, LooksAgain
  <2>2. ASSUME ~ drift.changed, ~ drift.renumbered, reaction.did = "turn",
               aim.name.verb \in {"expand", "collapse"}
        PROVE  Press!HasButton(buttons', [aim.name EXCEPT !.verb = Press!Opposite(@)])
    <3>1. PICK k \in DOMAIN treeRead :
            /\ treeRead[k].id = aim.id /\ treeRead[k].name = aim.name
            /\ Press!Painted(treeRead[k])
        BY <1>1 DEF Press!SweepInv, Press!AimIsTrue
    <3>2. k \in DOMAIN buttons /\ buttons[k].id = aim.id /\ buttons[k].name = aim.name
             /\ Press!Painted(buttons[k])
        BY <1>9, <2>2, <3>1 DEF Press!SameLooks, Press!SameIds, Press!Painted
    <3>3. k = i
        BY <1>1, <1>4, <3>2 DEF Press!IdsAreUnique
    <3>4. buttons' = [buttons EXCEPT ![i] = [buttons[i] EXCEPT !.name.verb = Turned(@)]]
        BY <1>1, <1>4, <2>2, Reacted
    <3>5. Press!HasButton(buttons', [buttons[i].name EXCEPT !.verb = Press!Opposite(@)])
        BY <1>1, <2>2, <3>2, <3>3, <3>4, TurnedShows
    <3> QED BY <3>2, <3>3, <3>5
  <2>3. hit'.direct => hit'.who = aim.who
      BY <1>8, <1>9
  <2>4. hit'.did # "refused"
      BY <1>8
  <2> QED BY <1>2, <1>8, <2>1, <2>2, <2>3, <2>4 DEF Press!PressIsSeen
<1>11. Press!TypeOK'
  <2>1. buttons[i].who \in Nat
    <3>1. buttons[i] \in Press!ButtonType
        BY <1>1
    <3> QED BY <3>1 DEF Press!ButtonType
  <2>2. hit' \in [who : Nat, did : Press!Dids, direct : BOOLEAN]
      BY <1>1, <1>4, <1>8, <2>1
  <2> QED BY <1>1, <1>2, <1>5, <2>2 DEF Press!SweepInv, Press!TypeOK
<1> QED BY <1>2, <1>5, <1>6, <1>7, <1>10, <1>11
        DEF Press!SweepInv, Press!OutcomesAreOfCases, Press!PageIsKnown,
            Press!DeadButtonsFail, Press!ThePlannedIsPressed

\* A verdict that tells what the press did is added to those before.
LEMMA ConcludedKeeps ==
  ASSUME Press!SweepInv, step \in {"press", "settle"},
         NEW did \in Press!Dids, NEW bad \in BOOLEAN, Press!Concluded(did, bad),
         ~ drift.changed /\ did \in Press!Unseen /\ ~ aim.excused => bad,
         ~ drift.changed /\ aim.name.verb \in {"expand", "collapse"} /\ did = "turn" /\ hit.direct
           => ~ bad,
         did # "refused" /\ hit.direct => hit.who = aim.who
  PROVE  Press!SweepInv'
<1> DEFINE case == cases[next]
           o == Press!Outcome(did, bad)
<1>1. /\ next \in DOMAIN cases /\ next \in Nat \ {0} /\ outcomes \in Seq(Press!OutcomeType)
      /\ hit \in [who : Nat, did : Press!Dids, direct : BOOLEAN]
      /\ drift \in [left : Nat, changed : BOOLEAN, renumbered : BOOLEAN]
    BY DEF Press!SweepInv, Press!TypeOK
<1>2. /\ outcomes' = Append(outcomes, o) /\ next' = next + 1 /\ step' = "read"
      /\ hit' = Press!Unhit /\ buttons' = buttons /\ cases' = cases /\ fresh' = fresh
      /\ drift' = drift
    BY DEF Press!Concluded
<1>3. /\ aim.name = case.name /\ aim.who \in Nat /\ aim.name \in Press!NameType
      /\ aim.there \in BOOLEAN /\ aim.excused \in BOOLEAN
      /\ aim.there => aim.who = case.who
  <2>1. \A id, name, nodes : Press!Excused(id, name, nodes) \in BOOLEAN
      BY DEF Press!Excused
  <2> QED BY <2>1 DEF Press!SweepInv, Press!AimIsTrue
<1>4. /\ o.case = next /\ o.aimed = aim.who /\ o.name = aim.name /\ o.there = aim.there
      /\ o.excused = aim.excused /\ o.who = hit.who /\ o.did = did /\ o.direct = hit.direct
      /\ o.drifted = drift.changed /\ o.failed = bad
    BY DEF Press!Outcome
<1>5. o \in Press!OutcomeType
    BY <1>1, <1>3 DEF Press!Outcome, Press!OutcomeType
<1> HIDE DEF o
<1>6. /\ outcomes' \in Seq(Press!OutcomeType) /\ Len(outcomes') = Len(outcomes) + 1
      /\ DOMAIN outcomes' = 1..(Len(outcomes) + 1) /\ outcomes'[Len(outcomes) + 1] = o
      /\ \A i \in DOMAIN outcomes : outcomes'[i] = outcomes[i]
      /\ \A i \in DOMAIN outcomes' : i \in DOMAIN outcomes \/ i = Len(outcomes) + 1
    BY <1>1, <1>2, <1>5
<1>7. Press!OutcomesAreOfCases'
    BY <1>1, <1>2, <1>4, <1>6 DEF Press!SweepInv, Press!OutcomesAreOfCases
<1>8. Press!DeadButtonsFail'
  <2> SUFFICES ASSUME NEW i \in DOMAIN outcomes', ~ outcomes'[i].drifted
               PROVE  /\ outcomes'[i].did \in Press!Unseen /\ ~ outcomes'[i].excused
                           => outcomes'[i].failed
                      /\ outcomes'[i].name.verb \in {"expand", "collapse"}
                           /\ outcomes'[i].did = "turn" /\ outcomes'[i].direct
                           => ~ outcomes'[i].failed
      BY DEF Press!DeadButtonsFail
  <2>1. CASE i \in DOMAIN outcomes
      BY <1>6, <2>1 DEF Press!SweepInv, Press!DeadButtonsFail
  <2>2. CASE i = Len(outcomes) + 1
      BY <1>4, <1>6, <2>2
  <2> QED BY <1>6, <2>1, <2>2
<1>9. Press!ThePlannedIsPressed'
  <2> SUFFICES ASSUME NEW i \in DOMAIN outcomes'
               PROVE  /\ outcomes'[i].name = cases[outcomes'[i].case].name
                      /\ outcomes'[i].there => outcomes'[i].aimed = cases[outcomes'[i].case].who
                      /\ outcomes'[i].did # "refused" /\ outcomes'[i].direct
                           => outcomes'[i].who = outcomes'[i].aimed
      BY <1>2 DEF Press!ThePlannedIsPressed
  <2>1. CASE i \in DOMAIN outcomes
      BY <1>6, <2>1 DEF Press!SweepInv, Press!ThePlannedIsPressed
  <2>2. CASE i = Len(outcomes) + 1
      BY <1>3, <1>4, <1>6, <2>2
  <2> QED BY <1>6, <2>1, <2>2
<1>10. Press!TypeOK'
    BY <1>1, <1>2, <1>6
       DEF Press!SweepInv, Press!TypeOK, Press!Unhit, Press!Dids, Press!Unseen
<1> QED BY <1>2, <1>7, <1>8, <1>9, <1>10
        DEF Press!SweepInv, Press!PlannedStayPressable, Press!AimIsTrue, Press!PageIsKnown,
            Press!PressIsSeen

LEMMA SettleKeeps == ASSUME Press!SweepInv, Press!Settle PROVE Press!SweepInv'
<1> DEFINE bad == Press!Fails(aim.id, cases[next].name, treeRead, buttons)
<1>1. step = "settle" /\ Press!Concluded(hit.did, bad)
    BY DEF Press!Settle
<1>2. bad \in BOOLEAN
    BY FailsOrNot
<1>3. /\ buttons \in Seq(Press!ButtonType)
      /\ hit \in [who : Nat, did : Press!Dids, direct : BOOLEAN]
    BY DEF Press!SweepInv, Press!TypeOK
<1>4. PICK k \in DOMAIN treeRead : treeRead[k].name = aim.name /\ Press!Painted(treeRead[k])
    BY <1>1 DEF Press!SweepInv, Press!AimIsTrue
<1>5. /\ treeRead \in Seq(Press!ButtonType) /\ aim.name = cases[next].name
      /\ aim.excused = Press!Excused(aim.id, aim.name, treeRead)
    BY <1>1 DEF Press!SweepInv, Press!AimIsTrue
<1>6. /\ hit.direct => hit.who = aim.who
      /\ ~ drift.changed /\ hit.did \in Press!Unseen => Press!SameLooks(treeRead, buttons)
      /\ ~ drift.changed /\ hit.direct /\ hit.did = "turn"
           /\ aim.name.verb \in {"expand", "collapse"} =>
           Press!HasButton(buttons, [aim.name EXCEPT !.verb = Press!Opposite(@)])
    BY <1>1 DEF Press!SweepInv, Press!PressIsSeen
<1>7. ~ drift.changed /\ hit.did \in Press!Unseen /\ ~ aim.excused => bad
  <2>1. ~ Press!Excused(aim.id, treeRead[k].name, treeRead)
           /\ Press!SameLooks(treeRead, buttons) =>
           Press!Fails(aim.id, treeRead[k].name, treeRead, buttons)
      BY <1>3, <1>4, <1>5, DeadFails
  <2> QED BY <1>4, <1>5, <1>6, <2>1
<1>8. ~ drift.changed /\ aim.name.verb \in {"expand", "collapse"} /\ hit.did = "turn"
        /\ hit.direct => ~ bad
  <2> SUFFICES ASSUME aim.name.verb \in {"expand", "collapse"},
                      Press!HasButton(buttons, [aim.name EXCEPT !.verb = Press!Opposite(@)])
               PROVE  ~ Press!Fails(aim.id, aim.name, treeRead, buttons)
      BY <1>5, <1>6
  <2>1. Press!ExpectationFor(aim.name) = "toggles"
      BY Promises
  <2> QED BY <2>1 DEF Press!Fails
<1>9. hit.did \in Press!Dids
    BY <1>3
<1> HIDE DEF bad
<1> QED BY <1>1, <1>2, <1>6, <1>7, <1>8, <1>9, ConcludedKeeps

LEMMA SweepNextInv == Press!SweepInv /\ [Press!Next]_(Press!vars) => Press!SweepInv'
<1> SUFFICES ASSUME Press!SweepInv, [Press!Next]_(Press!vars) PROVE Press!SweepInv'
    OBVIOUS
<1> USE DEF Press!SweepInv, Press!PlannedStayPressable, Press!OutcomesAreOfCases,
            Press!AimIsTrue, Press!PageIsKnown, Press!PressIsSeen, Press!DeadButtonsFail,
            Press!ThePlannedIsPressed
<1>1. CASE Press!Skip
  <2>1. Press!TypeOK'
      BY <1>1 DEF Press!Skip, Press!TypeOK
  <2> QED BY <1>1, <2>1 DEF Press!Skip
<1>2. CASE Press!PressFails
  <2>1. step = "press" /\ Press!Concluded("refused", TRUE)
      BY <1>2 DEF Press!PressFails
  <2>2. "refused" \in Press!Dids /\ "refused" \notin Press!Unseen
      BY DEF Press!Dids, Press!Unseen
  <2> HIDE DEF Press!SweepInv
  <2> QED BY <2>1, <2>2, ConcludedKeeps
<1>3. CASE Press!Bail
  <2>1. Press!TypeOK'
      BY <1>3 DEF Press!Bail, Press!TypeOK
  <2> QED BY <1>3, <2>1 DEF Press!Bail
<1>4. CASE UNCHANGED Press!vars
  <2>1. Press!TypeOK'
      BY <1>4 DEF Press!vars, Press!TypeOK
  <2> QED BY <1>4, <2>1 DEF Press!vars
<1> HIDE DEF Press!SweepInv
<1> QED BY <1>1, <1>2, <1>3, <1>4, AimKeeps, PressKeeps, SettleKeeps, DriftKeeps
        DEF Press!Next

\* The sweep, while it is the part that runs.
PressInv == part = "press" => Press!SweepInv

LEMMA PressInit == Init => PressInv
BY SweepInitInv DEF Init, PressInv

LEMMA PressNext == PressInv /\ [Next]_vars => PressInv'
<1> SUFFICES ASSUME PressInv, [Next]_vars PROVE PressInv'
    OBVIOUS
<1>1. part' = part
    BY DEF Next, vars
<1>2. ASSUME part = "press" PROVE Press!SweepInv'
  <2>1. [Press!Next]_(Press!vars)
      BY <1>2 DEF Next, vars, slots, Press!vars
  <2> QED BY <1>2, <2>1, SweepNextInv DEF PressInv
<1> QED BY <1>1, <1>2 DEF PressInv

\* Whatever buttons a page starts with, whatever the presses before have
\* done to it, and whatever the page does by itself between the reading of
\* the tree, the click and the readings after it: while that shows nothing, a
\* press that leaves the buttons as they were, or only draws one elsewhere,
\* fails its case, and a disclosure that the click reached and turned passes.
\* A case is aimed at a button of the planned name, the planned one as long
\* as it has its id, and a click reaches the button it is aimed at unless the
\* page renumbered since (judge and resolve_case of sweep.rs, run_sweep).
THEOREM DeadButtonsFound == Spec => []DeadButtonsFail
<1>1. PressInv => DeadButtonsFail
    BY DEF PressInv, Press!SweepInv, DeadButtonsFail
<1> QED BY <1>1, PressInit, PressNext, PTL DEF Spec

-----------------------------------------------------------------------------
(* The coverage sweep, on the instance Cover.                              *)

doing == s1
facing == s2
back == s3
front == s4
dialog == s7
unpressed == s8
here == s10
total == s11
trapped == s13

USE DEF doing, facing, back, front, dialog, unpressed, here, total, trapped

LEMMA CoverCardinality == \A S : Cover!Cardinality(S) = Cardinality(S)
BY DEF Cover!Cardinality, Cardinality

\* What is at the positions of a set is a sequence of as many elements.
LEMMA Filtered ==
  ASSUME NEW m \in Nat, NEW S \in SUBSET (1..m), NEW seq \in [1..m -> Nat]
  PROVE  /\ Cover!AtPositions(seq, S) \in Seq(Nat)
         /\ Len(Cover!AtPositions(seq, S)) = Cardinality(S)
<1> DEFINE n == Cardinality(S)
           s == Cover!AtPositions(seq, S)
<1>1. n \in Nat
  <2>1. IsFiniteSet(1..m)
      BY FS_Interval
  <2> QED BY <2>1, FS_Subset, FS_CardinalityType
<1>2. s \in [1..n -> Nat]
  <2>1. \A k \in 1..n : \E i \in S : Cover!Rank(S, i) = k
    <3>1. \A k \in 1..n : \E i \in S : Cardinality({j \in S : j <= i}) = k
        BY Ranked
    <3>2. \A i : Cover!Rank(S, i) = Cardinality({j \in S : j <= i})
        BY CoverCardinality DEF Cover!Rank
    <3> QED BY <3>1, <3>2
  <2>2. \A k \in 1..n : (CHOOSE i \in S : Cover!Rank(S, i) = k) \in 1..m
      BY <2>1
  <2>3. \A k \in 1..n : seq[CHOOSE i \in S : Cover!Rank(S, i) = k] \in Nat
      BY <2>2
  <2>4. s = [k \in 1..n |-> seq[CHOOSE i \in S : Cover!Rank(S, i) = k]]
      BY CoverCardinality DEF Cover!AtPositions
  <2> HIDE DEF s, n
  <2> QED BY <2>3, <2>4
<1> HIDE DEF s, n
<1>3. s \in Seq(Nat) /\ Len(s) = n
    BY <1>1, <1>2
<1> QED BY <1>3 DEF s, n

\* A finite set is counted by a part of it and the rest.
LEMMA Splits ==
  ASSUME NEW S, IsFiniteSet(S), NEW T, T \in SUBSET S
  PROVE  /\ IsFiniteSet(T) /\ IsFiniteSet(S \ T)
         /\ Cardinality(T) \in Nat /\ Cardinality(S \ T) \in Nat
         /\ Cardinality(S) = Cardinality(T) + Cardinality(S \ T)
<1>1. IsFiniteSet(T) /\ IsFiniteSet(S \ T)
    BY FS_Subset, FS_Difference
<1>2. Cardinality(S \ T) = Cardinality(S) - Cardinality(S \cap T)
    BY FS_Difference
<1>3. S \cap T = T
    OBVIOUS
<1>4. Cardinality(S \ T) = Cardinality(S) - Cardinality(T)
    BY <1>2, <1>3
<1>5. Cardinality(T) \in Nat /\ Cardinality(S \ T) \in Nat /\ Cardinality(S) \in Nat
    BY <1>1, FS_CardinalityType
<1>6. Cardinality(S) = Cardinality(T) + Cardinality(S \ T)
    BY <1>4, <1>5
<1> QED BY <1>1, <1>5, <1>6

\* A set whose elements are of six kinds is counted kind by kind.
LEMMA Kinded ==
  ASSUME NEW S, IsFiniteSet(S), NEW f, \A r \in S : f[r] \in 1..6
  PROVE  Cardinality(S) = Cardinality({r \in S : f[r] = 1})
              + Cardinality({r \in S : f[r] = 2}) + Cardinality({r \in S : f[r] = 3})
              + Cardinality({r \in S : f[r] = 4}) + Cardinality({r \in S : f[r] = 5})
              + Cardinality({r \in S : f[r] = 6})
<1> DEFINE of(k) == {r \in S : f[r] = k}
           from(k) == {r \in S : f[r] \in k..6}
<1>1. \A k \in 1..6 : IsFiniteSet(of(k)) /\ Cardinality(of(k)) \in Nat
  <2> TAKE k \in 1..6
  <2>1. of(k) \in SUBSET S
      OBVIOUS
  <2> HIDE DEF of
  <2> QED BY <2>1, Splits
<1>2. \A k \in 1..6 : IsFiniteSet(from(k)) /\ of(k) \in SUBSET from(k)
                        /\ from(k) \ of(k) = from(k + 1)
  <2> TAKE k \in 1..6
  <2>1. from(k) \in SUBSET S /\ of(k) \in SUBSET from(k)
      OBVIOUS
  <2>2. from(k) \ of(k) = from(k + 1)
      OBVIOUS
  <2> HIDE DEF of, from
  <2> QED BY <2>1, <2>2, Splits
<1>3. Cardinality(from(1)) = Cardinality(S) /\ Cardinality(from(7)) = 0
  <2>1. from(1) = S /\ from(7) = {}
      OBVIOUS
  <2>2. Cardinality({}) = 0
      BY FS_EmptySet
  <2> QED BY <2>1, <2>2
<1> HIDE DEF of, from
<1>4. \A k \in 1..6 : /\ Cardinality(from(k)) = Cardinality(of(k)) + Cardinality(from(k + 1))
                      /\ Cardinality(from(k + 1)) \in Nat
  <2> TAKE k \in 1..6
  <2>1. PICK F : F = from(k)
      OBVIOUS
  <2>2. PICK O : O = of(k)
      OBVIOUS
  <2>3. IsFiniteSet(F) /\ O \in SUBSET F /\ F \ O = from(k + 1)
      BY <1>2, <2>1, <2>2
  <2>4. /\ Cardinality(F) = Cardinality(O) + Cardinality(F \ O)
        /\ Cardinality(F \ O) \in Nat
      BY <2>3, Splits
  <2> QED BY <2>1, <2>2, <2>3, <2>4
<1>5. /\ 1 + 1 = 2 /\ 2 + 1 = 3 /\ 3 + 1 = 4 /\ 4 + 1 = 5 /\ 5 + 1 = 6 /\ 6 + 1 = 7
      /\ 1 \in 1..6 /\ 2 \in 1..6 /\ 3 \in 1..6 /\ 4 \in 1..6 /\ 5 \in 1..6 /\ 6 \in 1..6
    OBVIOUS
<1>6. /\ Cardinality(from(1)) = Cardinality(of(1)) + Cardinality(from(2))
      /\ Cardinality(from(2)) = Cardinality(of(2)) + Cardinality(from(3))
      /\ Cardinality(from(3)) = Cardinality(of(3)) + Cardinality(from(4))
      /\ Cardinality(from(4)) = Cardinality(of(4)) + Cardinality(from(5))
      /\ Cardinality(from(5)) = Cardinality(of(5)) + Cardinality(from(6))
      /\ Cardinality(from(6)) = Cardinality(of(6)) + Cardinality(from(7))
    BY <1>4, <1>5
<1>7. /\ Cardinality(of(1)) \in Nat /\ Cardinality(of(2)) \in Nat
      /\ Cardinality(of(3)) \in Nat /\ Cardinality(of(4)) \in Nat
      /\ Cardinality(of(5)) \in Nat /\ Cardinality(of(6)) \in Nat
    BY <1>1, <1>5
<1>8. Cardinality(S) = Cardinality(of(1)) + Cardinality(of(2)) + Cardinality(of(3))
                         + Cardinality(of(4)) + Cardinality(of(5)) + Cardinality(of(6))
    BY <1>3, <1>6, <1>7
<1> QED BY <1>8 DEF of

LEMMA FourKinds ==
  ASSUME NEW S, IsFiniteSet(S), NEW f, \A r \in S : f[r] \in 1..4
  PROVE  Cardinality(S) = Cardinality({r \in S : f[r] = 1})
              + Cardinality({r \in S : f[r] = 2}) + Cardinality({r \in S : f[r] = 3})
              + Cardinality({r \in S : f[r] = 4})
<1> DEFINE of(k) == {r \in S : f[r] = k}
<1>1. \A k : Cardinality(of(k)) \in Nat
  <2> TAKE k
  <2>1. of(k) \in SUBSET S
      OBVIOUS
  <2> HIDE DEF of
  <2> QED BY <2>1, Splits
<1>2. of(5) = {} /\ of(6) = {}
    OBVIOUS
<1>3. \A r \in S : f[r] \in 1..6
    OBVIOUS
<1>4. Cardinality(S) = Cardinality(of(1)) + Cardinality(of(2)) + Cardinality(of(3))
                         + Cardinality(of(4)) + Cardinality(of(5)) + Cardinality(of(6))
    BY <1>3, Kinded
<1> HIDE DEF of
<1>5. Cardinality(of(5)) = 0 /\ Cardinality(of(6)) = 0
    BY <1>2, FS_EmptySet
<1>6. Cardinality(S) = Cardinality(of(1)) + Cardinality(of(2)) + Cardinality(of(3))
                         + Cardinality(of(4))
    BY <1>1, <1>4, <1>5
<1> QED BY <1>6 DEF of

-----------------------------------------------------------------------------
\* The plan of a surface holds every control to press, once.
LEMMA OrderedWhole ==
  ASSUME Cover!Rows \in Seq([name : STRING, kind : Cover!Kinds]),
       NEW those \in SUBSET DOMAIN Cover!Rows
  PROVE  /\ Cover!Ordered(those) \in Seq(Nat)
         /\ Len(Cover!Ordered(those)) = Cardinality(those)
<1> DEFINE m == Len(Cover!Rows)
           seq == [r \in DOMAIN Cover!Rows |-> r]
           turn == [r \in those |-> Cover!Turn(r)]
           at_(k) == {r \in those : Cover!Turn(r) = k}
           of(k) == Cover!AtPositions(seq, at_(k))
<1>1. m \in Nat /\ DOMAIN Cover!Rows = 1..m
    OBVIOUS
<1>2. \A k \in 1..4 : at_(k) \in SUBSET (1..m) /\ at_(k) = {r \in those : turn[r] = k}
    BY <1>1
<1>3. \A k \in 1..4 : of(k) \in Seq(Nat) /\ Len(of(k)) = Cardinality(at_(k))
  <2> TAKE k \in 1..4
  <2>1. PICK s : s = seq
      OBVIOUS
  <2>2. PICK T : T = at_(k)
      OBVIOUS
  <2>3. \A i \in 1..Len(Cover!Rows) : s[i] \in 1..Len(Cover!Rows)
      BY <1>1, <2>1
  <2>4. PICK mm \in Nat : mm = Len(Cover!Rows)
      BY <1>1
  <2>5. T \in SUBSET (1..mm) /\ s \in [1..mm -> Nat]
      BY <1>1, <1>2, <2>1, <2>2, <2>4
  <2>6. Cover!AtPositions(s, T) \in Seq(Nat) /\ Len(Cover!AtPositions(s, T)) = Cardinality(T)
      BY <2>5, Filtered
  <2> QED BY <2>1, <2>2, <2>4, <2>6
<1>4. Cardinality(those) = Cardinality(at_(1)) + Cardinality(at_(2)) + Cardinality(at_(3))
                            + Cardinality(at_(4))
  <2>1. IsFiniteSet(those)
    <3>1. IsFiniteSet(1..m)
        BY <1>1, FS_Interval
    <3> QED BY <1>1, <3>1, FS_Subset
  <2>2. \A r \in those : turn[r] \in 1..4
      BY DEF Cover!Turn
  <2>3. PICK f : f = turn
      OBVIOUS
  <2>4. PICK R : R = those
      OBVIOUS
  <2>5. IsFiniteSet(R) /\ \A r \in R : f[r] \in 1..4
      BY <2>1, <2>2, <2>3, <2>4
  <2>6. Cardinality(R) = Cardinality({r \in R : f[r] = 1})
              + Cardinality({r \in R : f[r] = 2}) + Cardinality({r \in R : f[r] = 3})
              + Cardinality({r \in R : f[r] = 4})
      BY <2>5, FourKinds
  <2>7. \A k \in 1..4 : at_(k) = {r \in R : f[r] = k}
      BY <1>2, <2>3, <2>4
  <2>8. /\ at_(1) = {r \in R : f[r] = 1} /\ at_(2) = {r \in R : f[r] = 2}
        /\ at_(3) = {r \in R : f[r] = 3} /\ at_(4) = {r \in R : f[r] = 4}
    <3>1. 1 \in 1..4 /\ 2 \in 1..4 /\ 3 \in 1..4 /\ 4 \in 1..4
        OBVIOUS
    <3> HIDE DEF at_
    <3> QED BY <2>7, <3>1
  <2> HIDE DEF at_
  <2> QED BY <2>4, <2>6, <2>8
<1>5. Cover!Ordered(those) = of(1) \o of(2) \o of(3) \o of(4)
    BY DEF Cover!Ordered
<1>6. /\ of(1) \in Seq(Nat) /\ of(2) \in Seq(Nat) /\ of(3) \in Seq(Nat) /\ of(4) \in Seq(Nat)
      /\ Len(of(1)) = Cardinality(at_(1)) /\ Len(of(2)) = Cardinality(at_(2))
      /\ Len(of(3)) = Cardinality(at_(3)) /\ Len(of(4)) = Cardinality(at_(4))
  <2>1. 1 \in 1..4 /\ 2 \in 1..4 /\ 3 \in 1..4 /\ 4 \in 1..4
      OBVIOUS
  <2> HIDE DEF of, at_
  <2> QED BY <1>3, <2>1
<1> HIDE DEF of, at_, m
<1>7. PICK a, b, c, d : a = of(1) /\ b = of(2) /\ c = of(3) /\ d = of(4)
    OBVIOUS
<1>8. a \in Seq(Nat) /\ b \in Seq(Nat) /\ c \in Seq(Nat) /\ d \in Seq(Nat)
    BY <1>6, <1>7
<1>9. a \o b \in Seq(Nat) /\ Len(a \o b) = Len(a) + Len(b)
    BY <1>8
<1>10. a \o b \o c \in Seq(Nat) /\ Len(a \o b \o c) = Len(a) + Len(b) + Len(c)
    BY <1>8, <1>9
<1>11. /\ a \o b \o c \o d \in Seq(Nat)
       /\ Len(a \o b \o c \o d) = Len(a) + Len(b) + Len(c) + Len(d)
    BY <1>8, <1>10
<1> QED BY <1>4, <1>5, <1>6, <1>7, <1>11

Counts == [Cover!Buckets \cup {"tree"} -> Nat]

LEMMA Added ==
  ASSUME NEW counts \in Counts, NEW b \in Cover!Buckets \cup {"tree"}, NEW n \in Nat
  PROVE  /\ Cover!Add(counts, b, n) \in Counts
         /\ Cover!Add(counts, b, n)[b] = counts[b] + n
         /\ \A k \in Cover!Buckets \cup {"tree"} : k # b => Cover!Add(counts, b, n)[k] = counts[k]
BY DEF Cover!Add, Counts

\* What is left to press is as good as in a bucket.
LEMMA AccountedWith ==
  ASSUME NEW counts \in Counts, NEW n \in Nat
  PROVE  Cover!Accounted(Cover!Add(counts, "vanished", n)) <=>
           counts["swept"] + counts["declared"] + counts["unreachable"]
             + counts["vanished"] + counts["navigation"] + counts["manual"]
             + counts["isolated"] + counts["blocked"] + n
           = counts["tree"]
<1> DEFINE c == Cover!Add(counts, "vanished", n)
<1>1. {"swept", "declared", "unreachable", "vanished", "navigation", "manual", "isolated",
       "blocked", "revealed", "tree"} = Cover!Buckets \cup {"tree"}
    BY DEF Cover!Buckets, Cover!Planned, Cover!Excluded
<1>2. /\ c["vanished"] = counts["vanished"] + n
      /\ c["swept"] = counts["swept"] /\ c["declared"] = counts["declared"]
      /\ c["unreachable"] = counts["unreachable"] /\ c["navigation"] = counts["navigation"]
      /\ c["manual"] = counts["manual"] /\ c["isolated"] = counts["isolated"]
      /\ c["blocked"] = counts["blocked"] /\ c["revealed"] = counts["revealed"]
      /\ c["tree"] = counts["tree"]
  <2>1. "vanished" \in Cover!Buckets \cup {"tree"}
      BY <1>1
  <2>2. /\ c["vanished"] = counts["vanished"] + n
        /\ \A k \in Cover!Buckets \cup {"tree"} : k # "vanished" => c[k] = counts[k]
      BY <2>1, Added
  <2> HIDE DEF c
  <2> QED BY <1>1, <2>2
<1>3. \A k \in Cover!Buckets \cup {"tree"} : counts[k] \in Nat
    BY DEF Counts
<1>4. /\ counts["vanished"] \in Nat /\ counts["swept"] \in Nat /\ counts["declared"] \in Nat
      /\ counts["unreachable"] \in Nat /\ counts["navigation"] \in Nat
      /\ counts["manual"] \in Nat /\ counts["isolated"] \in Nat
      /\ counts["blocked"] \in Nat /\ counts["revealed"] \in Nat /\ counts["tree"] \in Nat
    BY <1>1, <1>3
<1> HIDE DEF c
<1>5. Cover!Accounted(c) <=>
        counts["swept"] + counts["declared"] + counts["unreachable"]
          + counts["vanished"] + counts["navigation"] + counts["manual"]
          + counts["isolated"] + counts["blocked"] + n
        = counts["tree"]
    BY <1>2, <1>4 DEF Cover!Accounted
<1> QED BY <1>5 DEF c

\* A surface that was just counted is accounted for: a button is left to
\* press or is in the bucket of its class.
LEMMA CountedInFull ==
  ASSUME NEW S, IsFiniteSet(S), NEW class,
         \A r \in S : class[r] \in {"plan", "declared", "unreachable", "navigation",
                                    "manual", "isolated"},
         NEW n, n = Cardinality(S), NEW counts,
         counts = [b \in DOMAIN Cover!Zero |->
                     IF b = "tree" THEN n ELSE Cardinality({r \in S : class[r] = b})]
  PROVE  /\ counts \in Counts
         /\ Cover!Accounted(Cover!Add(counts, "vanished",
              Cardinality({r \in S : class[r] = "plan"})))
<1> DEFINE of(b) == {r \in S : class[r] = b}
           number == [r \in S |-> CASE class[r] = "plan" -> 1 [] class[r] = "declared" -> 2
                                  [] class[r] = "unreachable" -> 3
                                  [] class[r] = "navigation" -> 4
                                  [] class[r] = "manual" -> 5 [] OTHER -> 6]
<1>1. \A r \in S : number[r] \in 1..6
    OBVIOUS
<1>2. /\ of("plan") = {r \in S : number[r] = 1} /\ of("declared") = {r \in S : number[r] = 2}
      /\ of("unreachable") = {r \in S : number[r] = 3}
      /\ of("navigation") = {r \in S : number[r] = 4}
      /\ of("manual") = {r \in S : number[r] = 5} /\ of("isolated") = {r \in S : number[r] = 6}
    OBVIOUS
<1>3. Cardinality(S) = Cardinality(of("plan")) + Cardinality(of("declared"))
         + Cardinality(of("unreachable")) + Cardinality(of("navigation"))
         + Cardinality(of("manual")) + Cardinality(of("isolated"))
  <2> HIDE DEF number, of
  <2> QED BY <1>1, <1>2, Kinded
<1>4. \A b : IsFiniteSet(of(b)) /\ Cardinality(of(b)) \in Nat
  <2> TAKE b
  <2>1. of(b) \in SUBSET S
      OBVIOUS
  <2> HIDE DEF of
  <2> QED BY <2>1, Splits
<1>5. \A b \in {"swept", "vanished", "blocked", "revealed"} : Cardinality(of(b)) = 0
  <2> TAKE b \in {"swept", "vanished", "blocked", "revealed"}
  <2>1. of(b) = {}
      OBVIOUS
  <2> QED BY <2>1, FS_EmptySet
<1>6. n \in Nat
    BY FS_CardinalityType
<1>7. DOMAIN Cover!Zero = Cover!Buckets \cup {"tree"}
    BY DEF Cover!Zero
<1>8. /\ counts["tree"] = n /\ \A b \in Cover!Buckets : counts[b] = Cardinality(of(b))
  <2> HIDE DEF number
  <2>1. "tree" \notin Cover!Buckets
      BY DEF Cover!Buckets, Cover!Planned, Cover!Excluded
  <2> QED BY <1>7, <2>1
<1> HIDE DEF number, of
<1>9. counts \in Counts
    BY <1>4, <1>6, <1>7, <1>8 DEF Counts
<1>10. PICK p : p = Cardinality(of("plan"))
    OBVIOUS
<1>11. /\ counts["tree"] = p + counts["declared"] + counts["unreachable"]
                             + counts["navigation"] + counts["manual"] + counts["isolated"]
       /\ counts["swept"] = 0 /\ counts["vanished"] = 0 /\ counts["blocked"] = 0
       /\ counts["revealed"] = 0
    BY <1>3, <1>5, <1>8, <1>10 DEF Cover!Buckets, Cover!Planned, Cover!Excluded
<1>12. p \in Nat
    BY <1>4, <1>10
<1>13. Cover!Accounted(Cover!Add(counts, "vanished", p))
  <2>1. \A b \in Cover!Buckets : counts[b] \in Nat
      BY <1>9 DEF Counts
  <2>2. /\ counts["declared"] \in Nat /\ counts["unreachable"] \in Nat
        /\ counts["navigation"] \in Nat /\ counts["manual"] \in Nat
        /\ counts["isolated"] \in Nat
      BY <2>1 DEF Cover!Buckets, Cover!Planned, Cover!Excluded
  <2>3. counts["swept"] + counts["declared"] + counts["unreachable"]
             + counts["vanished"] + counts["navigation"] + counts["manual"]
             + counts["isolated"] + counts["blocked"] + p
           = counts["tree"]
      BY <1>11, <1>12, <2>2
  <2> QED BY <1>9, <1>12, <2>3, AccountedWith
<1>14. Cover!Accounted(Cover!Add(counts, "vanished", Cardinality(of("plan"))))
    BY <1>10, <1>13
<1> QED BY <1>9, <1>14 DEF of


\* The books are kept when buttons leave the plan for a bucket.
LEMMA Charged ==
  ASSUME NEW counts \in Counts, NEW n \in Nat, NEW k \in 0..n,
         NEW b \in {"swept", "vanished", "blocked"},
         Cover!Accounted(Cover!Add(counts, "vanished", n))
  PROVE  /\ Cover!Add(counts, b, k) \in Counts
         /\ Cover!Accounted(Cover!Add(Cover!Add(counts, b, k), "vanished", n - k))
<1> DEFINE d == Cover!Add(counts, b, k)
           K == Cover!Buckets \cup {"tree"}
<1>1. K = {"swept", "declared", "unreachable", "vanished", "navigation", "manual", "isolated",
           "blocked", "revealed", "tree"}
    BY DEF Cover!Buckets, Cover!Planned, Cover!Excluded
<1>2. b \in K /\ k \in Nat /\ n - k \in Nat /\ n = (n - k) + k
    BY <1>1
<1>3. d \in Counts /\ d[b] = counts[b] + k /\ \A x \in K : x # b => d[x] = counts[x]
    BY <1>2, Added
<1>4. \A x \in K : counts[x] \in Nat /\ d[x] \in Nat
    BY <1>3 DEF Counts
<1> HIDE DEF d
<1>5. /\ counts["swept"] \in Nat /\ counts["declared"] \in Nat /\ counts["unreachable"] \in Nat
      /\ counts["vanished"] \in Nat /\ counts["navigation"] \in Nat
      /\ counts["manual"] \in Nat /\ counts["isolated"] \in Nat
      /\ counts["blocked"] \in Nat /\ counts["tree"] \in Nat
    BY <1>1, <1>4
<1>6. /\ d["declared"] = counts["declared"] /\ d["unreachable"] = counts["unreachable"]
      /\ d["navigation"] = counts["navigation"] /\ d["manual"] = counts["manual"]
      /\ d["isolated"] = counts["isolated"] /\ d["tree"] = counts["tree"]
    BY <1>1, <1>3
<1>7. d["swept"] + d["vanished"] + d["blocked"]
        = counts["swept"] + counts["vanished"] + counts["blocked"] + k
  <2>1. CASE b = "swept"
      BY <1>1, <1>2, <1>3, <1>5, <2>1
  <2>2. CASE b = "vanished"
      BY <1>1, <1>2, <1>3, <1>5, <2>2
  <2>3. CASE b = "blocked"
      BY <1>1, <1>2, <1>3, <1>5, <2>3
  <2> QED BY <2>1, <2>2, <2>3
<1>8. d["swept"] \in Nat /\ d["vanished"] \in Nat /\ d["blocked"] \in Nat
    BY <1>1, <1>4
<1>9. counts["swept"] + counts["declared"] + counts["unreachable"] + counts["vanished"]
        + counts["navigation"] + counts["manual"] + counts["isolated"] + counts["blocked"] + n
      = counts["tree"]
    BY AccountedWith
<1>10. d["swept"] + d["declared"] + d["unreachable"] + d["vanished"] + d["navigation"]
         + d["manual"] + d["isolated"] + d["blocked"] + (n - k) = d["tree"]
    BY <1>5, <1>6, <1>7, <1>8, <1>9
<1>11. Cover!Accounted(Cover!Add(d, "vanished", n - k))
    BY <1>2, <1>3, <1>10, AccountedWith
<1> QED BY <1>3, <1>11 DEF d

\* And when a dialog brings one more.
LEMMA Brought ==
  ASSUME NEW counts \in Counts, NEW n \in Nat, Cover!Accounted(Cover!Add(counts, "vanished", n))
  PROVE  /\ Cover!Add(counts, "revealed", 1) \in Counts
         /\ Cover!Accounted(Cover!Add(Cover!Add(counts, "revealed", 1), "vanished", n))
<1> DEFINE d == Cover!Add(counts, "revealed", 1)
<1>1. Cover!Buckets \cup {"tree"} = {"swept", "declared", "unreachable", "vanished", "navigation",
                               "manual", "isolated", "blocked", "revealed", "tree"}
    BY DEF Cover!Buckets, Cover!Planned, Cover!Excluded
<1>2. d \in Counts /\ \A x \in Cover!Buckets \cup {"tree"} : x # "revealed" => d[x] = counts[x]
  <2>1. "revealed" \in Cover!Buckets \cup {"tree"} /\ 1 \in Nat
      BY <1>1
  <2> QED BY <2>1, Added
<1> HIDE DEF d
<1>3. /\ d["declared"] = counts["declared"] /\ d["unreachable"] = counts["unreachable"]
      /\ d["navigation"] = counts["navigation"] /\ d["manual"] = counts["manual"]
      /\ d["isolated"] = counts["isolated"] /\ d["tree"] = counts["tree"]
      /\ d["swept"] = counts["swept"] /\ d["vanished"] = counts["vanished"]
      /\ d["blocked"] = counts["blocked"]
    BY <1>1, <1>2
<1>4. counts["swept"] + counts["declared"] + counts["unreachable"] + counts["vanished"]
        + counts["navigation"] + counts["manual"] + counts["isolated"] + counts["blocked"] + n
      = counts["tree"]
    BY AccountedWith
<1>5. d["swept"] + d["declared"] + d["unreachable"] + d["vanished"] + d["navigation"]
         + d["manual"] + d["isolated"] + d["blocked"] + n = d["tree"]
    BY <1>3, <1>4
<1>6. Cover!Accounted(Cover!Add(d, "vanished", n))
    BY <1>2, <1>5, AccountedWith
<1> QED BY <1>2, <1>6 DEF d

\* Nothing left to press: the buckets are the surface.
LEMMA AllCharged ==
  ASSUME NEW counts \in Counts
  PROVE  Cover!Accounted(Cover!Add(counts, "vanished", 0)) <=> Cover!Accounted(counts)
<1>1. Cover!Add(counts, "vanished", 0) = counts
  <2>1. \A x \in Cover!Buckets \cup {"tree"} : Cover!Add(counts, "vanished", 0)[x] = counts[x]
      BY DEF Cover!Add, Counts
  <2>2. Cover!Add(counts, "vanished", 0) \in Counts
    <3>1. "vanished" \in Cover!Buckets \cup {"tree"} /\ 0 \in Nat
        BY DEF Cover!Buckets, Cover!Planned
    <3> QED BY <3>1, Added
  <2> QED BY <2>1, <2>2 DEF Counts
<1> QED BY <1>1

\* The run's total is accounted for when its surfaces are.
LEMMA Summed ==
  ASSUME NEW a \in Counts, NEW b \in Counts, Cover!Accounted(a), Cover!Accounted(b)
  PROVE  Cover!Sums(a, b) \in Counts /\ Cover!Accounted(Cover!Sums(a, b))
<1> DEFINE s == Cover!Sums(a, b)
           K == Cover!Buckets \cup {"tree"}
<1>1. K = {"swept", "declared", "unreachable", "vanished", "navigation", "manual", "isolated",
           "blocked", "revealed", "tree"}
    BY DEF Cover!Buckets, Cover!Planned, Cover!Excluded
<1>2. s \in Counts /\ \A x \in K : s[x] = a[x] + b[x] /\ a[x] \in Nat /\ b[x] \in Nat
    BY DEF Cover!Sums, Counts
<1> HIDE DEF s, K
<1>3. /\ s["swept"] = a["swept"] + b["swept"] /\ s["declared"] = a["declared"] + b["declared"]
      /\ s["unreachable"] = a["unreachable"] + b["unreachable"]
      /\ s["vanished"] = a["vanished"] + b["vanished"]
      /\ s["navigation"] = a["navigation"] + b["navigation"]
      /\ s["manual"] = a["manual"] + b["manual"]
      /\ s["isolated"] = a["isolated"] + b["isolated"]
      /\ s["blocked"] = a["blocked"] + b["blocked"]
      /\ s["revealed"] = a["revealed"] + b["revealed"] /\ s["tree"] = a["tree"] + b["tree"]
    BY <1>1, <1>2
<1>4. /\ a["swept"] \in Nat /\ a["declared"] \in Nat /\ a["unreachable"] \in Nat
      /\ a["vanished"] \in Nat /\ a["navigation"] \in Nat /\ a["manual"] \in Nat
      /\ a["isolated"] \in Nat /\ a["blocked"] \in Nat /\ a["revealed"] \in Nat
      /\ a["tree"] \in Nat
    BY <1>1, <1>2
<1>5. /\ b["swept"] \in Nat /\ b["declared"] \in Nat /\ b["unreachable"] \in Nat
      /\ b["vanished"] \in Nat /\ b["navigation"] \in Nat /\ b["manual"] \in Nat
      /\ b["isolated"] \in Nat /\ b["blocked"] \in Nat /\ b["revealed"] \in Nat
      /\ b["tree"] \in Nat
    BY <1>1, <1>2
<1>6. a["swept"] + a["declared"] + a["unreachable"] + a["vanished"] + a["navigation"]
        + a["manual"] + a["isolated"] + a["blocked"] = a["tree"]
    BY <1>4 DEF Cover!Accounted
<1>7. b["swept"] + b["declared"] + b["unreachable"] + b["vanished"] + b["navigation"]
        + b["manual"] + b["isolated"] + b["blocked"] = b["tree"]
    BY <1>5 DEF Cover!Accounted
<1>8. s["swept"] + s["declared"] + s["unreachable"] + s["vanished"] + s["navigation"]
        + s["manual"] + s["isolated"] + s["blocked"] = s["tree"]
    BY <1>3, <1>4, <1>5, <1>6, <1>7
<1>9. s["swept"] \in Nat /\ s["revealed"] \in Nat /\ s["tree"] \in Nat
    BY <1>3, <1>4, <1>5
<1>10. Cover!Accounted(s)
  <2>1. /\ s["declared"] \in Nat /\ s["unreachable"] \in Nat /\ s["vanished"] \in Nat
        /\ s["navigation"] \in Nat /\ s["manual"] \in Nat /\ s["isolated"] \in Nat
        /\ s["blocked"] \in Nat
      BY <1>3, <1>4, <1>5
  <2> QED BY <1>8, <1>9, <2>1 DEF Cover!Accounted
<1> QED BY <1>2, <1>10 DEF s

LEMMA NothingCharged == Cover!Zero \in Counts /\ Cover!Accounted(Cover!Zero)
<1>1. Cover!Zero \in Counts /\ \A x \in Cover!Buckets \cup {"tree"} : Cover!Zero[x] = 0
    BY DEF Cover!Zero, Counts
<1>2. Cover!Buckets \cup {"tree"} = {"swept", "declared", "unreachable", "vanished", "navigation",
                               "manual", "isolated", "blocked", "revealed", "tree"}
    BY DEF Cover!Buckets, Cover!Planned, Cover!Excluded
<1>3. /\ Cover!Zero["swept"] = 0 /\ Cover!Zero["declared"] = 0 /\ Cover!Zero["unreachable"] = 0
      /\ Cover!Zero["vanished"] = 0 /\ Cover!Zero["navigation"] = 0 /\ Cover!Zero["manual"] = 0
      /\ Cover!Zero["isolated"] = 0 /\ Cover!Zero["blocked"] = 0 /\ Cover!Zero["revealed"] = 0
      /\ Cover!Zero["tree"] = 0
    BY <1>1, <1>2
<1> QED BY <1>1, <1>3 DEF Cover!Accounted

-----------------------------------------------------------------------------
(* The steps.                                                              *)

USE DEF Cover!Reaching, Cover!Planning, Cover!Dialogue, Cover!Steps

LEMMA SurfaceAt ==
  /\ Covered # <<>> /\ 1 \in DOMAIN Covered
  /\ \A i \in DOMAIN Covered :
       /\ Covered[i].opener \in {"none", "document", "named"}
       /\ Covered[i].rows \in Seq([name : STRING, kind : Cover!Kinds])
<1> DEFINE T == [opener : {"none", "document", "named"},
                 rows : Seq([name : STRING, kind : Cover!Kinds])]
<1>1. Covered \in Seq(T) /\ Covered # <<>>
    BY CoveredSurfaces DEF Cover!SurfacesAreWellFormed
<1>2. \A i \in DOMAIN Covered : Covered[i] \in T
  <2> HIDE DEF T
  <2> QED BY <1>1
<1>3. 1 \in DOMAIN Covered
  <2> HIDE DEF T
  <2> QED BY <1>1
<1>4. \A s \in T : /\ s.opener \in {"none", "document", "named"}
                   /\ s.rows \in Seq([name : STRING, kind : Cover!Kinds])
  <2> TAKE s \in T
  <2> DEFINE R == Seq([name : STRING, kind : Cover!Kinds])
  <2>1. s \in [opener : {"none", "document", "named"}, rows : R]
      OBVIOUS
  <2> HIDE DEF R
  <2> QED BY <2>1 DEF R
<1> QED BY <1>1, <1>2, <1>3, <1>4

LEMMA SameBooks ==
  ASSUME Cover!EveryButtonInABucket, UNCHANGED <<here, unpressed, total>>
  PROVE  Cover!EveryButtonInABucket'
BY DEF Cover!EveryButtonInABucket

LEMMA CoverInitInv == Cover!Init => Cover!CoverInv
<1> SUFFICES ASSUME Cover!Init PROVE Cover!CoverInv
    OBVIOUS
<1>1. doing = "look" /\ back = "expand" /\ facing = 1 /\ front \in BOOLEAN
           /\ dialog = Cover!Closed
        /\ here = Cover!Zero /\ total = Cover!Zero /\ unpressed = <<>> /\ trapped = FALSE
    BY DEF Cover!Init
<1>2. 1 \in DOMAIN Covered
    BY SurfaceAt
<1>3. /\ Cover!Zero \in [Cover!Buckets \cup {"tree"} -> Nat] /\ <<>> \in Seq(Nat)
      /\ Cover!Closed \in [open : BOOLEAN, inner : Nat, ways : Nat]
    BY NothingCharged DEF Counts, Cover!Closed
<1>4. Cover!TypeOK
    BY <1>1, <1>2, <1>3 DEF Cover!TypeOK
<1>5. Cover!EveryButtonInABucket
  <2>1. Len(<<>>) = 0
      OBVIOUS
  <2>2. here = Cover!Zero /\ total = Cover!Zero /\ Len(unpressed) = 0
      BY <2>1 DEF Cover!Init
  <2>3. Cover!Accounted(Cover!Zero) /\ Cover!Accounted(Cover!Add(Cover!Zero, "vanished", 0))
      BY NothingCharged, AllCharged
  <2> QED BY <2>2, <2>3 DEF Cover!EveryButtonInABucket
<1>6. Cover!NothingBeforeTheCount /\ Cover!SomethingIsPlanned /\ Cover!DialogIsHeld
    BY DEF Cover!Init, Cover!NothingBeforeTheCount, Cover!SomethingIsPlanned,
         Cover!DialogIsHeld, Cover!Closed
<1> QED BY <1>4, <1>5, <1>6 DEF Cover!CoverInv

\* Where the opening of a surface leads.
LEMMA OpenedTo ==
  ASSUME NEW yes \in BOOLEAN
  PROVE  /\ yes => Cover!Opened(yes) = back
         /\ ~yes /\ back = "planned" => Cover!Opened(yes) = "lost"
         /\ ~yes /\ back # "planned" => Cover!Opened(yes) = "skip"
BY DEF Cover!Opened

LEMMA ReachingKeeps ==
  ASSUME Cover!CoverInv, Cover!Look \/ Cover!FindOpener \/ Cover!DoubleClick \/
       Cover!ClickPath \/ Cover!Settle
  PROVE  Cover!CoverInv'
<1> DEFINE Leads == \/ doing' \in Cover!Reaching \/ doing' = back
                    \/ doing' = "lost" /\ back = "planned"
                    \/ doing' = "skip" /\ back # "planned"
<1>1. Cover!TypeOK /\ Cover!NothingBeforeTheCount /\ Cover!SomethingIsPlanned
           /\ Cover!DialogIsHeld
        /\ Cover!EveryButtonInABucket
    BY DEF Cover!CoverInv
<1>2. /\ Cover!Opened(TRUE) = back
      /\ \/ Cover!Opened(FALSE) = "lost" /\ back = "planned"
         \/ Cover!Opened(FALSE) = "skip" /\ back # "planned"
    BY OpenedTo
<1>3. /\ doing \in Cover!Reaching /\ Leads /\ front' \in BOOLEAN
      /\ UNCHANGED <<back, dialog, facing, here, total, unpressed, trapped>>
  <2>1. front \in BOOLEAN
      BY <1>1 DEF Cover!TypeOK
  <2>2. CASE Cover!Look
    <3>1. Covered[facing].opener \in {"none", "document", "named"}
        BY <1>1, SurfaceAt DEF Cover!TypeOK
    <3> QED BY <1>2, <2>1, <2>2, <3>1 DEF Cover!Look, Cover!Goto, Cover!tree, Cover!covering
  <2>3. CASE Cover!FindOpener
      BY <1>2, <2>1, <2>3 DEF Cover!FindOpener, Cover!Goto, Cover!tree, Cover!covering
  <2>4. CASE Cover!DoubleClick
      BY <1>2, <2>1, <2>4 DEF Cover!DoubleClick, Cover!Arrives, Cover!tree, Cover!covering
  <2>5. CASE Cover!ClickPath
      BY <1>2, <2>1, <2>5 DEF Cover!ClickPath, Cover!Arrives, Cover!Goto, Cover!tree,
           Cover!covering
  <2>6. CASE Cover!Settle
      BY <1>2, <2>1, <2>6 DEF Cover!Settle, Cover!Goto, Cover!tree, Cover!covering
  <2> QED BY <2>2, <2>3, <2>4, <2>5, <2>6
<1>4. Cover!TypeOK'
    BY <1>1, <1>3 DEF Cover!TypeOK
<1>5. Cover!NothingBeforeTheCount' /\ Cover!SomethingIsPlanned' /\ Cover!DialogIsHeld'
    BY <1>1, <1>3 DEF Cover!TypeOK, Cover!NothingBeforeTheCount, Cover!SomethingIsPlanned,
         Cover!DialogIsHeld
<1>6. Cover!EveryButtonInABucket'
    BY <1>1, <1>3, SameBooks
<1> QED BY <1>4, <1>5, <1>6 DEF Cover!CoverInv

LEMMA PreparingKeeps == ASSUME Cover!CoverInv,
     Cover!Expand \/ Cover!Materialize \/ Cover!Fails \/ Cover!Bail \/ Cover!Return
                        PROVE  Cover!CoverInv'
<1>1. Cover!TypeOK /\ Cover!NothingBeforeTheCount /\ Cover!SomethingIsPlanned
           /\ Cover!DialogIsHeld
        /\ Cover!EveryButtonInABucket
    BY DEF Cover!CoverInv
<1>2. /\ UNCHANGED <<dialog, facing, here, total, unpressed, trapped>> /\ front' \in BOOLEAN
      /\ \/ doing = "expand" /\ doing' = "look" /\ back' = "materialize"
         \/ doing = "materialize" /\ doing' \in {"skip", "count"} /\ back' = back
         \/ doing' = "failed" /\ back' = back
         \/ doing = "next" /\ unpressed # <<>> /\ doing' \in {"planned", "look"}
              /\ back' = "planned"
  <2>1. front \in BOOLEAN
      BY <1>1 DEF Cover!TypeOK
  <2> QED BY <2>1 DEF Cover!Expand, Cover!Materialize, Cover!Fails, Cover!Bail, Cover!Return,
           Cover!Goto, Cover!tree, Cover!covering
<1>3. Cover!TypeOK'
    BY <1>1, <1>2 DEF Cover!TypeOK
<1>4. Cover!NothingBeforeTheCount' /\ Cover!SomethingIsPlanned' /\ Cover!DialogIsHeld'
    BY <1>1, <1>2 DEF Cover!TypeOK, Cover!NothingBeforeTheCount, Cover!SomethingIsPlanned,
         Cover!DialogIsHeld
<1>5. Cover!EveryButtonInABucket'
    BY <1>1, <1>2, SameBooks
<1> QED BY <1>3, <1>4, <1>5 DEF Cover!CoverInv

LEMMA CountKeeps == ASSUME Cover!CoverInv, Cover!Count PROVE Cover!CoverInv'
<1>1. Cover!TypeOK /\ Cover!NothingBeforeTheCount /\ Cover!SomethingIsPlanned
           /\ Cover!DialogIsHeld
        /\ Cover!EveryButtonInABucket
    BY DEF Cover!CoverInv
<1>2. PICK hidden \in SUBSET {r \in DOMAIN Cover!Rows : Cover!Rows[r].kind = "plain"} :
        /\ unpressed' = Cover!Ordered({r \in DOMAIN Cover!Rows : Cover!Class(r, hidden) = "plan"})
        /\ here' = [b \in DOMAIN Cover!Zero |->
                      IF b = "tree" THEN Len(Cover!Rows)
                      ELSE Cardinality({r \in DOMAIN Cover!Rows : Cover!Class(r, hidden) = b})]
  <2>1. PICK hidden \in SUBSET {r \in DOMAIN Cover!Rows : Cover!Rows[r].kind = "plain"} :
          LET class == [r \in DOMAIN Cover!Rows |-> Cover!Class(r, hidden)] IN
          /\ unpressed' = Cover!Ordered({r \in DOMAIN Cover!Rows : class[r] = "plan"})
          /\ here' = [b \in DOMAIN Cover!Zero |->
                        IF b = "tree" THEN Len(Cover!Rows)
                        ELSE Cardinality({r \in DOMAIN Cover!Rows : class[r] = b})]
      BY CoverCardinality DEF Cover!Count
  <2>2. \A b : {r \in DOMAIN Cover!Rows : [x \in DOMAIN Cover!Rows |-> Cover!Class(x,
             hidden)][r] = b}
                 = {r \in DOMAIN Cover!Rows : Cover!Class(r, hidden) = b}
      OBVIOUS
  <2> QED BY <2>1, <2>2
<1>3. /\ doing = "count" /\ doing' = "next"
      /\ UNCHANGED <<back, front, dialog, facing, total, trapped>>
    BY DEF Cover!Count
<1>4. Cover!Rows \in Seq([name : STRING, kind : Cover!Kinds])
    BY <1>1, SurfaceAt DEF Cover!TypeOK, Cover!Rows
<1>5. IsFiniteSet(DOMAIN Cover!Rows) /\ Cardinality(DOMAIN Cover!Rows) = Len(Cover!Rows)
  <2>1. DOMAIN Cover!Rows = 1..Len(Cover!Rows) /\ Len(Cover!Rows) \in Nat
      BY <1>4
  <2>2. PICK m \in Nat : m = Len(Cover!Rows)
      BY <2>1
  <2>3. IsFiniteSet(1..m) /\ Cardinality(1..m) = m
      BY FS_Interval
  <2> QED BY <2>1, <2>2, <2>3
<1>6. PICK S, class : S = DOMAIN Cover!Rows /\ class = [r \in DOMAIN Cover!Rows |->
           Cover!Class(r, hidden)]
    OBVIOUS
<1>7. \A r \in S : class[r] \in {"plan", "declared", "unreachable", "navigation",
                                 "manual", "isolated"}
    BY <1>6 DEF Cover!Class, Cover!Excluded
<1>8. PICK n, counts : n = Len(Cover!Rows) /\ counts = here'
    OBVIOUS
<1>9. counts = [b \in DOMAIN Cover!Zero |->
                  IF b = "tree" THEN n ELSE Cardinality({r \in S : class[r] = b})]
  <2>1. \A b : {r \in S : class[r] = b} = {r \in DOMAIN Cover!Rows : Cover!Class(r, hidden) = b}
      BY <1>6
  <2> QED BY <1>2, <1>8, <2>1
<1>10. IsFiniteSet(S) /\ n = Cardinality(S)
    BY <1>5, <1>6, <1>8
<1>11. PICK k : k = Cardinality({r \in S : class[r] = "plan"})
    OBVIOUS
<1>12. counts \in Counts /\ Cover!Accounted(Cover!Add(counts, "vanished", k))
    BY <1>7, <1>9, <1>10, <1>11, CountedInFull
<1>13. unpressed' \in Seq(Nat) /\ Len(unpressed') = k
  <2>1. {r \in DOMAIN Cover!Rows : Cover!Class(r,
             hidden) = "plan"} = {r \in S : class[r] = "plan"}
      BY <1>6
  <2>2. {r \in DOMAIN Cover!Rows : Cover!Class(r, hidden) = "plan"} \in SUBSET DOMAIN Cover!Rows
      OBVIOUS
  <2>3. PICK P : P = {r \in DOMAIN Cover!Rows : Cover!Class(r, hidden) = "plan"}
      OBVIOUS
  <2>4. P \in SUBSET DOMAIN Cover!Rows /\ unpressed' = Cover!Ordered(P) /\ k = Cardinality(P)
      BY <1>2, <1>11, <2>1, <2>2, <2>3
  <2>5. Cover!Ordered(P) \in Seq(Nat) /\ Len(Cover!Ordered(P)) = Cardinality(P)
      BY <1>4, <2>4, OrderedWhole
  <2> QED BY <2>4, <2>5
<1>14. Cover!TypeOK'
    BY <1>1, <1>3, <1>8, <1>12, <1>13 DEF Cover!TypeOK, Counts
<1>15. Cover!NothingBeforeTheCount' /\ Cover!SomethingIsPlanned' /\ Cover!DialogIsHeld'
    BY <1>1, <1>3 DEF Cover!NothingBeforeTheCount, Cover!SomethingIsPlanned, Cover!DialogIsHeld
<1>16. Cover!EveryButtonInABucket'
    BY <1>1, <1>3, <1>8, <1>12, <1>13 DEF Cover!EveryButtonInABucket
<1> QED BY <1>14, <1>15, <1>16 DEF Cover!CoverInv

\* The books after some of the plan went to a bucket.
LEMMA BooksCharged ==
  ASSUME Cover!TypeOK, Cover!EveryButtonInABucket, total' = total,
         NEW b \in {"swept", "vanished", "blocked"}, NEW k \in 0..Len(unpressed),
         here' = Cover!Add(here, b, k), Len(unpressed') = Len(unpressed) - k
  PROVE  here' \in Counts /\ Cover!EveryButtonInABucket'
<1>1. here \in Counts /\ Len(unpressed) \in Nat
    BY DEF Cover!TypeOK, Counts
<1>2. PICK c, n : c = here /\ n = Len(unpressed)
    OBVIOUS
<1>3. c \in Counts /\ n \in Nat /\ k \in 0..n /\ Cover!Accounted(Cover!Add(c, "vanished", n))
    BY <1>1, <1>2 DEF Cover!EveryButtonInABucket
<1>4. Cover!Add(c, b, k) \in Counts /\ Cover!Accounted(Cover!Add(Cover!Add(c, b, k),
           "vanished", n - k))
  <2>1. PICK bb \in {"swept", "vanished", "blocked"}, kk \in 0..n : bb = b /\ kk = k
      BY <1>3
  <2>2. Cover!Add(c, bb, kk) \in Counts /\ Cover!Accounted(Cover!Add(Cover!Add(c, bb, kk),
             "vanished", n - kk))
      BY <1>3, Charged
  <2> QED BY <2>1, <2>2
<1> QED BY <1>2, <1>4 DEF Cover!EveryButtonInABucket

LEMMA PlanKeeps ==
  ASSUME Cover!CoverInv, Cover!CannotReturn \/ Cover!Vanished \/ Cover!Disabled \/ Cover!Press
  PROVE  Cover!CoverInv'
<1>1. Cover!TypeOK /\ Cover!NothingBeforeTheCount /\ Cover!SomethingIsPlanned
           /\ Cover!DialogIsHeld
        /\ Cover!EveryButtonInABucket
    BY DEF Cover!CoverInv
<1>2. PICK b \in {"swept", "vanished"} :
        /\ doing \in {"planned", "lost"} /\ unpressed' = Tail(unpressed)
             /\ here' = Cover!Add(here, b, 1)
        /\ UNCHANGED <<back, facing, total, trapped>> /\ front' \in BOOLEAN
        /\ \/ doing' = "next" /\ (dialog' = dialog \/ dialog'.open = FALSE)
           \/ doing' = "inner"
        /\ dialog' \in [open : BOOLEAN, inner : Nat, ways : Nat]
  <2>1. front \in BOOLEAN /\ dialog \in [open : BOOLEAN, inner : Nat, ways : Nat]
      BY <1>1 DEF Cover!TypeOK
  <2>2. CASE Cover!CannotReturn \/ Cover!Vanished \/ Cover!Disabled
      BY <2>1, <2>2 DEF Cover!CannotReturn, Cover!Vanished, Cover!Disabled, Cover!Charge,
           Cover!tree
  <2>3. CASE Cover!Press
    <3>1. PICK r \in Cover!Found : Cover!Acts(r)
        BY <2>3 DEF Cover!Press
    <3>2. front' \in BOOLEAN /\ dialog' \in [open : BOOLEAN, inner : Nat, ways : Nat]
      <4>1. CASE UNCHANGED Cover!tree
          BY <2>1, <4>1 DEF Cover!tree
      <4>2. CASE UNCHANGED <<front, dialog>>
          BY <2>1, <4>2
      <4>3. CASE front' = FALSE /\ UNCHANGED dialog
          BY <2>1, <4>3
      <4>4. CASE /\ UNCHANGED front
                 /\ \E i, w \in 0..MaxInner : dialog' = [open |-> TRUE, inner |-> i, ways |-> w]
        <5>1. MaxInner \in Nat
            BY CoveredSurfaces DEF Cover!SurfacesAreWellFormed
        <5> QED BY <2>1, <4>4, <5>1
      <4> QED BY <3>1, <4>1, <4>2, <4>3, <4>4 DEF Cover!Acts
    <3>3. /\ doing = "planned" /\ unpressed' = Tail(unpressed)
               /\ here' = Cover!Add(here, "swept", 1)
          /\ UNCHANGED <<back, facing, total, trapped>>
          /\ doing' = IF dialog'.open THEN "inner" ELSE "next"
        BY <2>3 DEF Cover!Press
    <3> QED BY <3>2, <3>3
  <2> QED BY <2>2, <2>3
<1>3. /\ unpressed # <<>> /\ unpressed \in Seq(Nat)
    BY <1>1, <1>2 DEF Cover!SomethingIsPlanned, Cover!TypeOK
<1>4. unpressed' \in Seq(Nat) /\ Len(unpressed') = Len(unpressed) - 1 /\ 1 \in 0..Len(unpressed)
    BY <1>2, <1>3
<1>5. here' \in Counts /\ Cover!EveryButtonInABucket'
  <2>1. b \in {"swept", "vanished", "blocked"}
      OBVIOUS
  <2> QED BY <1>1, <1>2, <1>4, <2>1, BooksCharged
<1>6. Cover!TypeOK'
    BY <1>1, <1>2, <1>4, <1>5 DEF Cover!TypeOK, Counts
<1>7. Cover!NothingBeforeTheCount' /\ Cover!SomethingIsPlanned' /\ Cover!DialogIsHeld'
    BY <1>1, <1>2 DEF Cover!NothingBeforeTheCount, Cover!SomethingIsPlanned, Cover!DialogIsHeld
<1> QED BY <1>5, <1>6, <1>7 DEF Cover!CoverInv

LEMMA DialogueKeeps ==
  ASSUME Cover!CoverInv, Cover!PressInner \/ Cover!Dismiss \/ Cover!Escape
  PROVE  Cover!CoverInv'
<1>1. Cover!TypeOK /\ Cover!NothingBeforeTheCount /\ Cover!SomethingIsPlanned
           /\ Cover!DialogIsHeld
        /\ Cover!EveryButtonInABucket
    BY DEF Cover!CoverInv
<1>2. /\ doing = "inner" /\ UNCHANGED <<back, front, facing, unpressed, total, trapped>>
      /\ here' = here \/ here' = Cover!Add(here, "revealed", 1)
      /\ dialog' \in [open : BOOLEAN, inner : Nat, ways : Nat]
      /\ doing' \in {"inner", "trapped", "next"} /\ (doing' = "next" => dialog'.open = FALSE)
  <2>1. dialog \in [open : BOOLEAN, inner : Nat, ways : Nat]
      BY <1>1 DEF Cover!TypeOK
  <2>2. Cover!Closed \in [open : BOOLEAN, inner : Nat, ways : Nat] /\ Cover!Closed.open = FALSE
      BY DEF Cover!Closed
  <2>3. CASE Cover!PressInner
    <3>1. dialog.inner > 0 /\ dialog.inner \in Nat
        BY <2>1, <2>3 DEF Cover!PressInner
    <3>2. [dialog EXCEPT !.inner = @ - 1] \in [open : BOOLEAN, inner : Nat, ways : Nat]
        BY <2>1, <3>1
    <3> QED BY <2>2, <2>3, <3>2 DEF Cover!PressInner, Cover!Reveal, Cover!covering
  <2>4. CASE Cover!Dismiss
    <3>1. dialog.ways > 0 /\ dialog.ways \in Nat
        BY <2>1, <2>4 DEF Cover!Dismiss
    <3>2. [dialog EXCEPT !.ways = @ - 1] \in [open : BOOLEAN, inner : Nat, ways : Nat]
        BY <2>1, <3>1
    <3> QED BY <2>2, <2>4, <3>2 DEF Cover!Dismiss, Cover!Reveal, Cover!covering
  <2>5. CASE Cover!Escape
      BY <2>1, <2>2, <2>5 DEF Cover!Escape, Cover!covering
  <2> QED BY <2>3, <2>4, <2>5
<1>3. here' \in Counts /\ Cover!EveryButtonInABucket'
  <2>1. CASE here' = here
    <3>1. here \in Counts
        BY <1>1 DEF Cover!TypeOK, Counts
    <3> QED BY <1>1, <1>2, <2>1, <3>1, SameBooks
  <2>2. CASE here' = Cover!Add(here, "revealed", 1)
    <3>1. PICK c, n : c = here /\ n = Len(unpressed)
        OBVIOUS
    <3>2. c \in Counts /\ n \in Nat /\ Cover!Accounted(Cover!Add(c, "vanished", n))
        BY <1>1, <3>1 DEF Cover!TypeOK, Counts, Cover!EveryButtonInABucket
    <3>3. /\ Cover!Add(c, "revealed", 1) \in Counts
          /\ Cover!Accounted(Cover!Add(Cover!Add(c, "revealed", 1), "vanished", n))
        BY <3>2, Brought
    <3> QED BY <1>1, <1>2, <2>2, <3>1, <3>3 DEF Cover!EveryButtonInABucket
  <2> QED BY <1>2, <2>1, <2>2
<1>4. Cover!TypeOK'
    BY <1>1, <1>2, <1>3 DEF Cover!TypeOK, Counts
<1>5. Cover!NothingBeforeTheCount' /\ Cover!SomethingIsPlanned' /\ Cover!DialogIsHeld'
    BY <1>1, <1>2 DEF Cover!NothingBeforeTheCount, Cover!SomethingIsPlanned, Cover!DialogIsHeld
<1> QED BY <1>3, <1>4, <1>5 DEF Cover!CoverInv

LEMMA TrappedKeeps == ASSUME Cover!CoverInv, Cover!Trapped PROVE Cover!CoverInv'
<1>1. Cover!TypeOK /\ Cover!NothingBeforeTheCount /\ Cover!SomethingIsPlanned
           /\ Cover!DialogIsHeld
        /\ Cover!EveryButtonInABucket
    BY DEF Cover!CoverInv
<1>2. /\ doing = "trapped" /\ doing' = "next" /\ unpressed' = <<>> /\ trapped' = TRUE
      /\ here' = Cover!Add(here, "blocked", Len(unpressed))
      /\ UNCHANGED <<back, front, dialog, facing, total>>
    BY DEF Cover!Trapped, Cover!tree
<1>3. /\ Len(unpressed) \in Nat /\ Len(unpressed) \in 0..Len(unpressed) /\ unpressed' \in Seq(Nat)
      /\ Len(unpressed') = Len(unpressed) - Len(unpressed)
    BY <1>1, <1>2 DEF Cover!TypeOK
<1>4. here' \in Counts /\ Cover!EveryButtonInABucket'
  <2>1. PICK k \in 0..Len(unpressed) : k = Len(unpressed)
      BY <1>3
  <2> QED BY <1>1, <1>2, <1>3, <2>1, BooksCharged
<1>5. Cover!TypeOK'
    BY <1>1, <1>2, <1>3, <1>4 DEF Cover!TypeOK, Counts
<1>6. Cover!NothingBeforeTheCount' /\ Cover!SomethingIsPlanned' /\ Cover!DialogIsHeld'
    BY <1>1, <1>2 DEF Cover!NothingBeforeTheCount, Cover!SomethingIsPlanned, Cover!DialogIsHeld
<1> QED BY <1>4, <1>5, <1>6 DEF Cover!CoverInv

LEMMA LeaveKeeps == ASSUME Cover!CoverInv, Cover!SurfaceDone \/ Cover!Skip PROVE Cover!CoverInv'
<1>1. Cover!TypeOK /\ Cover!NothingBeforeTheCount /\ Cover!SomethingIsPlanned
           /\ Cover!DialogIsHeld
        /\ Cover!EveryButtonInABucket
    BY DEF Cover!CoverInv
<1>2. /\ doing \in {"next", "skip"} /\ unpressed = <<>> /\ unpressed' = <<>> /\ here' = Cover!Zero
      /\ doing' \in {"look", "done"} /\ back' = "expand" /\ UNCHANGED <<dialog, trapped>>
      /\ total' = Cover!Sums(total, here) \/ total' = Cover!Sums(total, Cover!Zero)
      /\ front' = FALSE \/ front' = front
      /\ facing' = facing \/ (facing < Len(Covered) /\ facing' = facing + 1)
    BY <1>1 DEF Cover!SurfaceDone, Cover!Skip, Cover!Leave, Cover!NothingBeforeTheCount
<1>3. here \in Counts /\ Cover!Accounted(here) /\ total \in Counts /\ Cover!Accounted(total)
  <2>1. here \in Counts /\ total \in Counts
      BY <1>1 DEF Cover!TypeOK, Counts
  <2>2. Len(unpressed) = 0
      BY <1>2
  <2>3. PICK c : c = here
      OBVIOUS
  <2>4. Cover!Accounted(Cover!Add(c, "vanished", 0))
      BY <1>1, <2>2, <2>3 DEF Cover!EveryButtonInABucket
  <2>5. Cover!Accounted(c)
      BY <2>1, <2>3, <2>4, AllCharged
  <2> QED BY <1>1, <2>1, <2>3, <2>5 DEF Cover!EveryButtonInABucket
<1>4. total' \in Counts /\ Cover!Accounted(total')
  <2>1. PICK a, c : a = total /\ c \in {here, Cover!Zero} /\ total' = Cover!Sums(a, c)
      BY <1>2
  <2>2. a \in Counts /\ c \in Counts /\ Cover!Accounted(a) /\ Cover!Accounted(c)
      BY <1>3, <2>1, NothingCharged
  <2> QED BY <2>1, <2>2, Summed
<1>5. facing' \in DOMAIN Covered
  <2>1. facing \in DOMAIN Covered /\ DOMAIN Covered = 1..Len(Covered)
    <3>1. Covered \in Seq([opener : {"none", "document", "named"},
                            rows : Seq([name : STRING, kind : Cover!Kinds])])
        BY CoveredSurfaces DEF Cover!SurfacesAreWellFormed
    <3>2. DOMAIN Covered = 1..Len(Covered)
      <4> DEFINE T == [opener : {"none", "document", "named"},
                       rows : Seq([name : STRING, kind : Cover!Kinds])]
      <4> HIDE DEF T
      <4>1. Covered \in Seq(T)
          BY <3>1 DEF T
      <4> QED BY <4>1
    <3> QED BY <1>1, <3>2 DEF Cover!TypeOK
  <2> QED BY <1>2, <2>1
<1>6. Cover!TypeOK'
  <2>1. Cover!Zero \in Counts /\ <<>> \in Seq(Nat)
      BY NothingCharged
  <2> QED BY <1>1, <1>2, <1>4, <1>5, <2>1 DEF Cover!TypeOK, Counts
<1>7. Cover!NothingBeforeTheCount' /\ Cover!SomethingIsPlanned' /\ Cover!DialogIsHeld'
    BY <1>1, <1>2 DEF Cover!NothingBeforeTheCount, Cover!SomethingIsPlanned, Cover!DialogIsHeld
<1>8. Cover!EveryButtonInABucket'
  <2>1. Cover!Accounted(Cover!Add(Cover!Zero, "vanished", 0))
      BY NothingCharged, AllCharged
  <2>2. Len(unpressed') = 0
      BY <1>2
  <2> QED BY <1>2, <1>4, <2>1, <2>2 DEF Cover!EveryButtonInABucket
<1> QED BY <1>6, <1>7, <1>8 DEF Cover!CoverInv

LEMMA CoverNextInv == Cover!CoverInv /\ [Cover!Next]_(Cover!vars) => Cover!CoverInv'
<1> SUFFICES ASSUME Cover!CoverInv, [Cover!Next]_(Cover!vars) PROVE Cover!CoverInv'
    OBVIOUS
<1>1. CASE Cover!Next
    BY <1>1, ReachingKeeps, PreparingKeeps, CountKeeps, PlanKeeps, DialogueKeeps,
       TrappedKeeps, LeaveKeeps DEF Cover!Next
<1>2. CASE UNCHANGED Cover!vars
  <2>1. UNCHANGED <<doing, facing, back, front, dialog, unpressed, here, total, trapped>>
      BY <1>2 DEF Cover!vars, Cover!tree, Cover!covering
  <2> QED BY <2>1 DEF Cover!CoverInv, Cover!TypeOK, Cover!NothingBeforeTheCount,
           Cover!SomethingIsPlanned,
              Cover!DialogIsHeld, Cover!EveryButtonInABucket
<1> QED BY <1>1, <1>2

LEMMA CoverInvTells == Cover!CoverInv => Cover!EveryButtonInABucket /\ Cover!DialogIsOver
BY DEF Cover!CoverInv, Cover!DialogIsOver, Cover!DialogIsHeld

-----------------------------------------------------------------------------

\* The coverage sweep, while it is the part that runs.
CoveringInv == part = "sweep" => Cover!CoverInv

LEMMA CoveringInit == Init => CoveringInv
BY CoverInitInv DEF Init, CoveringInv

LEMMA CoveringNext == CoveringInv /\ [Next]_vars => CoveringInv'
<1> SUFFICES ASSUME CoveringInv, [Next]_vars PROVE CoveringInv'
    OBVIOUS
<1>1. part' = part
    BY DEF Next, vars
<1>2. ASSUME part = "sweep" PROVE Cover!CoverInv'
  <2>1. [Cover!Next]_(Cover!vars)
      BY <1>2 DEF Next, vars, slots, Cover!vars, Cover!tree, Cover!covering
  <2> QED BY <1>2, <2>1, CoverNextInv DEF CoveringInv
<1> QED BY <1>1, <1>2 DEF CoveringInv

\* Whatever surfaces a run covers, and whatever its presses, its dialogs and
\* its failures do: at every step each button counted on the surface, and
\* each that a dialog brought, is in exactly one bucket or still in the plan,
\* the run's total adds up, and no control is pressed after a dialog unless
\* it was seen closed or was proved a trap (run_cover and sweep_modal of
\* runner.rs, Coverage::accounted of reach.rs).
THEOREM CoverageWhole == Spec => []CoverageAddsUp
<1>1. CoveringInv => CoverageAddsUp
    BY CoverInvTells DEF CoveringInv, CoverageAddsUp
<1> QED BY <1>1, CoveringInit, CoveringNext, PTL DEF Spec

-----------------------------------------------------------------------------
(* The suite loop.  Loop is an instance of QaSuite, LoopProofs one of the  *)
(* module that proves about it; their definitions are the same.            *)

LoopProofs == INSTANCE QaSuiteProofs WITH
    command <- s1, host <- s2, faults <- s3, storage <- s4, client <- s5,
    suite <- s6, index <- s7, phase <- s8, met <- s9, live <- s10,
    produced <- s11, results <- s12, finished <- s13, failures <- s14,
    exit <- s15

LEMMA SameCommands == LoopProofs!CommandsAreWellFormed
BY SuiteCommands DEF Loop!CommandsAreWellFormed, LoopProofs!CommandsAreWellFormed,
   Loop!CommandType,
       LoopProofs!CommandType

LEMMA SameLoopInit == Loop!Init <=> LoopProofs!Init
BY DEF Loop!Init, LoopProofs!Init, Loop!Launched, LoopProofs!Launched, Loop!Connected,
       LoopProofs!Connected

LEMMA SameLoopNext == Loop!Next <=> LoopProofs!Next
BY DEF Loop!Next, LoopProofs!Next, Loop!Proceed, LoopProofs!Proceed, Loop!HostFails,
       LoopProofs!HostFails, Loop!PageRecovers, LoopProofs!PageRecovers,
       Loop!Finished, LoopProofs!Finished, Loop!StageInPlace,
       LoopProofs!StageInPlace, Loop!StageRestart, LoopProofs!StageRestart,
       Loop!StageFails, LoopProofs!StageFails, Loop!Ask, LoopProofs!Ask,
       Loop!EndOfBlock, LoopProofs!EndOfBlock, Loop!AbandonSuite,
       LoopProofs!AbandonSuite, Loop!StopSuite, LoopProofs!StopSuite, Loop!GiveUp,
       LoopProofs!GiveUp, Loop!NextCheck, LoopProofs!NextCheck, Loop!Replace,
       LoopProofs!Replace, Loop!ReplaceFails, LoopProofs!ReplaceFails,
       Loop!AskAgain, LoopProofs!AskAgain, Loop!Report, LoopProofs!Report,
       Loop!Land, LoopProofs!Land, Loop!HostStates, LoopProofs!HostStates,
       Loop!vars, LoopProofs!vars, Loop!NeedsRestart, LoopProofs!NeedsRestart,
       Loop!Begin, LoopProofs!Begin, Loop!Reconnect, LoopProofs!Reconnect,
       Loop!Check, LoopProofs!Check, Loop!ReconnectFails, LoopProofs!ReconnectFails,
       Loop!PageAnswer, LoopProofs!PageAnswer, Loop!AfterRequest,
       LoopProofs!AfterRequest, Loop!Products, LoopProofs!Products, Loop!Produces,
       LoopProofs!Produces, Loop!LastCheck, LoopProofs!LastCheck, Loop!GaveUp,
       LoopProofs!GaveUp, Loop!Abandon, LoopProofs!Abandon, Loop!Judged,
       LoopProofs!Judged, Loop!Judgement, LoopProofs!Judgement, Loop!RestNotRun,
       LoopProofs!RestNotRun, Loop!TransportTexts, LoopProofs!TransportTexts,
       Loop!Markers, LoopProofs!Markers, Loop!FailedOf, LoopProofs!FailedOf,
       Loop!Launched, LoopProofs!Launched, Loop!Connected, LoopProofs!Connected,
       Loop!Suite, LoopProofs!Suite, Loop!NotRun, LoopProofs!NotRun,
       Loop!Cardinality, LoopProofs!Cardinality

LEMMA SameReport == Loop!ReportIsTheChecks <=> LoopProofs!ReportIsTheChecks
BY DEF Loop!ReportIsTheChecks, LoopProofs!ReportIsTheChecks, Loop!TypeOK,
       LoopProofs!TypeOK, Loop!EveryCheckReportedOnce,
       LoopProofs!EveryCheckReportedOnce, Loop!HostStates, LoopProofs!HostStates,
       Loop!Suite, LoopProofs!Suite, Loop!Phases, LoopProofs!Phases, Loop!Answers,
       LoopProofs!Answers, Loop!Products, LoopProofs!Products, Loop!ResultType,
       LoopProofs!ResultType, Loop!Complete, LoopProofs!Complete

LEMMA SameSuccess == Loop!SuccessMeansAllPassed <=> LoopProofs!SuccessMeansAllPassed
BY DEF Loop!SuccessMeansAllPassed, LoopProofs!SuccessMeansAllPassed

LEMMA SameReplaced == Loop!LostHostIsReplaced <=> LoopProofs!LostHostIsReplaced
BY DEF Loop!LostHostIsReplaced, LoopProofs!LostHostIsReplaced

LEMMA SameSeed == Loop!SeedIsTheChecks <=> LoopProofs!SeedIsTheChecks
BY DEF Loop!SeedIsTheChecks, LoopProofs!SeedIsTheChecks, Loop!Check, LoopProofs!Check,
       Loop!Suite, LoopProofs!Suite

\* The invariant of the suite loop, while it is the part that runs.
LoopInv == part = "suite" => LoopProofs!SuiteInv

LEMMA LoopInitInv == Init => LoopInv
BY LoopProofs!InitInv, SameCommands, SameLoopInit DEF Init, LoopInv

LEMMA LoopNextInv == LoopInv /\ [Next]_vars => LoopInv'
<1> SUFFICES ASSUME LoopInv, [Next]_vars, part' = "suite"
             PROVE  LoopProofs!SuiteInv'
    BY DEF LoopInv
<1>1. part = "suite" /\ LoopProofs!SuiteInv
    BY DEF LoopInv, Next, vars
<1>2. LoopProofs!Next \/ UNCHANGED LoopProofs!vars
    BY <1>1, SameLoopNext DEF Next, vars, slots, LoopProofs!vars
<1> QED BY <1>1, <1>2, SameCommands, LoopProofs!NextInv

LEMMA LoopInvariant == Spec => []LoopInv
BY LoopInitInv, LoopNextInv, PTL DEF Spec

\* Whatever the invocation, the number of its suites and checks and the host
\* failures: a report is that of the checks selected (run_qa_inner).
THEOREM ReportedOnce == Spec => []ReportIsTheChecks
<1>1. LoopInv => ReportIsTheChecks
    BY LoopProofs!InvIsReported, SameReport DEF LoopInv, ReportIsTheChecks
<1> QED BY <1>1, LoopInvariant, PTL

\* Success means that every check passed on a connection that lost nothing.
THEOREM SuccessEarned == Spec => []SuccessMeansAllPassed
<1>1. LoopInv => SuccessMeansAllPassed
    BY LoopProofs!SuccessIsEarned, SameSuccess DEF LoopInv, SuccessMeansAllPassed
<1> QED BY <1>1, LoopInvariant, PTL

\* The check after one whose host gave up has another process.
THEOREM HostReplaced == Spec => []LostHostIsReplaced
<1>1. LoopInv => LostHostIsReplaced
    BY LoopProofs!LaterIsReplaced, SameReplaced DEF LoopInv, LostHostIsReplaced
<1> QED BY <1>1, LoopInvariant, PTL

\* A check of a seeding run meets its own storage (stage_check_storage).
THEOREM SeedInstalled == Spec => []SeedIsTheChecks
<1>1. LoopInv => SeedIsTheChecks
    BY LoopProofs!SeedIsInstalled, SameSeed DEF LoopInv, SeedIsTheChecks
<1> QED BY <1>1, LoopInvariant, PTL

-----------------------------------------------------------------------------
(* The host processes, in the same way.                                    *)

HostsProofs == INSTANCE HostProcessesProofs WITH
    phase <- s1, todo <- s2, runs <- s3, problems <- s4, passed <- s5,
    failed <- s6, os <- s7, owned <- s8, dirs <- s9, nextDir <- s10,
    standing <- s11, launching <- s12, victim <- s13, restarts <- s14,
    output <- s15, descriptor <- s16, cap <- s17, after <- s18

LEMMA SameHostsInit == Hosts!Init <=> HostsProofs!Init
BY DEF Hosts!Init, HostsProofs!Init, Hosts!None, HostsProofs!None

LEMMA SameHostsNext == Hosts!Next <=> HostsProofs!Next
BY DEF Hosts!Next, HostsProofs!Next, Hosts!BeginComponent, HostsProofs!BeginComponent,
   Hosts!Judged, HostsProofs!Judged,
       Hosts!RunFails, HostsProofs!RunFails, Hosts!DropSession, HostsProofs!DropSession,
       Hosts!NextRun, HostsProofs!NextRun, Hosts!GiveUp, HostsProofs!GiveUp,
       Hosts!MakeDirectory, HostsProofs!MakeDirectory, Hosts!Spawn, HostsProofs!Spawn,
       Hosts!SpawnFails, HostsProofs!SpawnFails, Hosts!Register, HostsProofs!Register,
       Hosts!StartDrain, HostsProofs!StartDrain, Hosts!LaunchFails,
       HostsProofs!LaunchFails, Hosts!ReadLine, HostsProofs!ReadLine, Hosts!OutputEnds,
       HostsProofs!OutputEnds, Hosts!Up, HostsProofs!Up, Hosts!Restart,
       HostsProofs!Restart, Hosts!StopOld, HostsProofs!StopOld, Hosts!Kill,
       HostsProofs!Kill, Hosts!Wait, HostsProofs!Wait, Hosts!Reaped, HostsProofs!Reaped,
       Hosts!RemoveDirectory, HostsProofs!RemoveDirectory, Hosts!HostDies,
       HostsProofs!HostDies, Hosts!OtherStarts, HostsProofs!OtherStarts,
       Hosts!OtherEnds, HostsProofs!OtherEnds, Hosts!CapTrips, HostsProofs!CapTrips,
       Hosts!Finish, HostsProofs!Finish, Hosts!EndComponent, HostsProofs!EndComponent,
       Hosts!Prepared, HostsProofs!Prepared, Hosts!Free, HostsProofs!Free, Hosts!Failed,
       HostsProofs!Failed, Hosts!Clean, HostsProofs!Clean, Hosts!Running,
       HostsProofs!Running, Hosts!Goto, HostsProofs!Goto, Hosts!TearDown,
       HostsProofs!TearDown, Hosts!None, HostsProofs!None, Hosts!place,
       HostsProofs!place, Hosts!sweepVars, HostsProofs!sweepVars, Hosts!systemVars,
       HostsProofs!systemVars, Hosts!sessionVars, HostsProofs!sessionVars

LEMMA SameLeak ==
  /\ Hosts!NothingLeaks <=> HostsProofs!NothingLeaks
  /\ Hosts!OneHostAtATime <=> HostsProofs!OneHostAtATime
  /\ Hosts!CapStopsEveryHost <=> HostsProofs!CapStopsEveryHost
BY DEF Hosts!NothingLeaks, HostsProofs!NothingLeaks, Hosts!OneHostAtATime,
       HostsProofs!OneHostAtATime, Hosts!CapStopsEveryHost,
       HostsProofs!CapStopsEveryHost, Hosts!Running, HostsProofs!Running,
       Hosts!Cardinality, HostsProofs!Cardinality

\* The invariant of the host processes, while they are the part that runs.
HostsPartInv == part = "hosts" => HostsProofs!HostsInv

LEMMA HostsInitInv == Init => HostsPartInv
BY HostsProofs!InitInv, SameHostsInit DEF Init, HostsPartInv

LEMMA HostsNextInv == HostsPartInv /\ [Next]_vars => HostsPartInv'
<1> SUFFICES ASSUME HostsPartInv, [Next]_vars, part' = "hosts"
             PROVE  HostsProofs!HostsInv'
    BY DEF HostsPartInv
<1>1. part = "hosts" /\ HostsProofs!HostsInv
    BY DEF HostsPartInv, Next, vars
<1>2. HostsProofs!Next \/ UNCHANGED HostsProofs!vars
    BY <1>1, SameHostsNext
       DEF Next, vars, slots, HostsProofs!vars, HostsProofs!place, HostsProofs!sweepVars,
           HostsProofs!systemVars, HostsProofs!sessionVars
<1> QED BY <1>1, <1>2, HostsProofs!NextInv

\* However many components, restarts and failures, whatever pids the machine
\* hands out: nothing outlives its run, no two hosts run at once, and a cap
\* stops every host it was told of (start_host_with_policy, restart, Drop).
THEOREM NothingLeft == Spec => []NothingLeaks
<1>1. HostsPartInv => NothingLeaks
    BY HostsProofs!InvLeaksNothing, HostsProofs!InvOneHost, HostsProofs!InvCapStops, SameLeak
       DEF HostsPartInv, NothingLeaks
<1> QED BY <1>1, HostsInitInv, HostsNextInv, PTL DEF Spec
=============================================================================
