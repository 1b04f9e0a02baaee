------------------------------ MODULE MCHarness ------------------------------
(***************************************************************************)
(* The algorithms of ps-qa in one run.  Each has the harness to itself     *)
(* while it runs, so a behaviour is one of them, named by `part`, and the  *)
(* run explores the sum of their state spaces.  The variables of each      *)
(* module are laid over one row of slots; a slot a part has no variable    *)
(* for stays Unused.                                                       *)
(***************************************************************************)
EXTENDS HarnessValues

\* HarnessProofs proves the parts for all values of these.
CONSTANTS
    DeclaredChecks,                           \* of CheckRun
    Commands, Seeds, NoSeed, MaxFaults,       \* of QaSuite
    Tasks, Surfaces, Depth, Pages, RowsToMount,
    MaxPasses, MaxScrolls, MaxPagers, MaxClicks,  \* of Reveal
    Covered, MaxInner,                        \* of Cover
    Start, Subjects, Viewport, MaxLength, MaxDrifts,  \* of Sweep
    WaitBudget, Streak, StillCaptures, MaxAnswer, MaxCapture, MaxMoves,  \* of Waits
    Asked, States, Lowest, Largest, Grain, Timeout, MinBudget, Poll, Slow, \* of GpuOutcome
    Manifests, Groups, ValueSets, Credentials, DefaultTimeout, SpanLimit, \* of Checks
    RunPlans, Environments, MaxLosses,        \* of Plans
    Sweeps, Pids, Tries, Leftover, Scripts, MaxRestarts   \* of HostProcesses

VARIABLES
    part,
    s1, s2, s3, s4, s5, s6, s7, s8, s9, s10, s11, s12, s13, s14, s15, s16, s17,
    s18

slots == <<s1, s2, s3, s4, s5, s6, s7, s8, s9, s10, s11, s12, s13, s14, s15,
           s16, s17, s18>>
vars == <<part, slots>>

\* The body of a check (CheckRun).
Check == INSTANCE CheckRun WITH
    Checks <- DeclaredChecks,
    check <- s1, pc <- s2, error <- s3, verdict <- s4, flying <- s5,
    landed <- s6, base <- s7, ran <- s8, acked <- s9, opening <- s10,
    todo <- s11, pixels <- s12, terminal <- s13

ASSUME DeclaredShapes == Check!ChecksAreWellFormed

\* The suite loop and the hosts it replaces (QaSuite).
Loop == INSTANCE QaSuite WITH
    command <- s1, host <- s2, faults <- s3, storage <- s4, client <- s5,
    suite <- s6, index <- s7, phase <- s8, met <- s9, live <- s10,
    produced <- s11, results <- s12, finished <- s13, failures <- s14,
    exit <- s15

ASSUME SuiteCommands == Loop!CommandsAreWellFormed

\* The reveal helpers and the inventory (Reveal).
Tour == INSTANCE Reveal WITH
    Rows <- RowsToMount,
    task <- s1, pc <- s2, page <- s3, tree <- s4, at <- s5, held <- s6,
    turns <- s7, todo <- s8, stable <- s9, pager <- s10, retired <- s11,
    failed <- s12, result <- s13, rounds <- s14, own <- s15, shown <- s16, short <- s17

ASSUME TourSizes == Tour!Sizes

\* The coverage sweep (Cover).
Cover == INSTANCE Cover WITH
    Surfaces <- Covered,
    pc <- s1, at <- s2, back <- s3, front <- s4, shown <- s5, fresh <- s6,
    dialog <- s7, plan <- s8, done <- s9, here <- s10, total <- s11,
    pressed <- s12, trapped <- s13

ASSUME CoveredSurfaces == Cover!SurfacesAreWellFormed

\* The button sweep (Sweep).
Press == INSTANCE Sweep WITH
    page <- s1, cases <- s2, next <- s3, outcomes <- s4, fresh <- s5, phase <- s6,
    before <- s7, aim <- s8, hit <- s9, drift <- s10

ASSUME PressPages == Press!PagesAreWellFormed

\* The waits on a page (Waits).
Wait == INSTANCE Waits WITH
    Budget <- WaitBudget, Quiet <- StillCaptures,
    kind <- s1, phase <- s2, result <- s3, frame <- s4, drawn <- s5,
    marker <- s6, chrome <- s7, moves <- s8, now <- s9, deadline <- s10,
    root <- s11, streak <- s12, samples <- s13, armed <- s14, pending <- s15,
    seen <- s16, timely <- s17, previous <- s18

ASSUME WaitBounds == Wait!BoundsAreWellFormed

\* The check files and their order (Checks).
Load == INSTANCE Checks WITH
    Supplied <- ValueSets,
    phase <- s1, files <- s2, group <- s3, values <- s4, secrets <- s5,
    file <- s6, place <- s7, established <- s8, all <- s9, queue <- s10,
    surface <- s11, done <- s12

ASSUME LoadFiles == Load!ManifestsAreWellFormed

\* A plan run with its accounts (Plans).
Plan == INSTANCE Plans WITH
    phase <- s1, plan <- s2, env <- s3, accounts <- s4, skipped <- s5,
    who <- s6, left <- s7, signedIn <- s8, losses <- s9, failed <- s10,
    ran <- s11

ASSUME PlanShapes == Plan!PlansAreWellFormed

\* The host processes (HostProcesses).
Hosts == INSTANCE HostProcesses WITH
    phase <- s1, todo <- s2, runs <- s3, problems <- s4, passed <- s5,
    failed <- s6, os <- s7, owned <- s8, dirs <- s9, nextDir <- s10,
    standing <- s11, launching <- s12, victim <- s13, restarts <- s14,
    output <- s15, descriptor <- s16, cap <- s17, after <- s18

\* The WebGPU checks (GpuOutcome).
Gpu == INSTANCE GpuOutcome WITH
    check <- s1, page <- s2, now <- s3, since <- s4, baseline <- s5,
    evidence <- s6, looks <- s7, result <- s8

ASSUME GpuTimes == Gpu!TimesAreWellFormed

-----------------------------------------------------------------------------
\* The slots after the nth.
Unused == "unused"

Free(n) ==
  /\ (n < 4 => s4 = Unused)   /\ (n < 5 => s5 = Unused)
  /\ (n < 6 => s6 = Unused)   /\ (n < 7 => s7 = Unused)
  /\ (n < 8 => s8 = Unused)   /\ (n < 9 => s9 = Unused)
  /\ (n < 10 => s10 = Unused)   /\ (n < 11 => s11 = Unused)
  /\ (n < 12 => s12 = Unused)   /\ (n < 13 => s13 = Unused)
  /\ (n < 14 => s14 = Unused)   /\ (n < 15 => s15 = Unused)
  /\ (n < 16 => s16 = Unused)   /\ (n < 17 => s17 = Unused)
  /\ (n < 18 => s18 = Unused)

Kept(n) ==
  /\ (n < 4 => s4' = s4)   /\ (n < 5 => s5' = s5)
  /\ (n < 6 => s6' = s6)   /\ (n < 7 => s7' = s7)
  /\ (n < 8 => s8' = s8)   /\ (n < 9 => s9' = s9)
  /\ (n < 10 => s10' = s10)   /\ (n < 11 => s11' = s11)
  /\ (n < 12 => s12' = s12)   /\ (n < 13 => s13' = s13)
  /\ (n < 14 => s14' = s14)   /\ (n < 15 => s15' = s15)
  /\ (n < 16 => s16' = s16)   /\ (n < 17 => s17' = s17)
  /\ (n < 18 => s18' = s18)

Init ==
  \/ part = "check" /\ Check!Init /\ Free(13)
  \/ part = "suite" /\ Loop!Init /\ Free(15)
  \/ part = "tour" /\ Tour!Init /\ Free(17)
  \/ part = "sweep" /\ Cover!Init /\ Free(13)
  \/ part = "press" /\ Press!Init /\ Free(10)
  \/ part = "wait" /\ Wait!Init /\ Free(18)
  \/ part = "load" /\ Load!Init /\ Free(12)
  \/ part = "plan" /\ Plan!Init /\ Free(11)
  \/ part = "hosts" /\ Hosts!Init /\ Free(18)
  \/ part = "gpu" /\ Gpu!Init /\ Free(8)

Next ==
  /\ UNCHANGED part
  /\ \/ part = "check" /\ Check!Next /\ Kept(13)
     \/ part = "suite" /\ Loop!Next /\ Kept(15)
     \/ part = "tour" /\ Tour!Next /\ Kept(17)
     \/ part = "sweep" /\ Cover!Next /\ Kept(13)
     \/ part = "press" /\ Press!Next /\ Kept(10)
     \/ part = "wait" /\ Wait!Next /\ Kept(18)
     \/ part = "load" /\ Load!Next /\ Kept(12)
     \/ part = "plan" /\ Plan!Next /\ Kept(11)
     \/ part = "hosts" /\ Hosts!Next /\ Kept(18)
     \/ part = "gpu" /\ Gpu!Next /\ Kept(8)

Fairness ==
  /\ WF_slots(part = "tour" /\ Tour!Step /\ Kept(17))
  /\ WF_slots(part = "suite" /\ Loop!Proceed /\ Kept(15))
  /\ WF_slots(part = "wait" /\ Wait!Step /\ Kept(18))

Spec == Init /\ [][Next]_vars /\ Fairness

-----------------------------------------------------------------------------
\* What each of them promises; every part is stated and explained in its
\* own module.

\* A seeded check meets its own storage; every report is that of the checks
\* selected; success means every one passed on a connection that was never
\* lost; a lost host is replaced before the next check; and the run ends
\* (QaSuite).
SeedIsTheChecks == part = "suite" => Loop!SeedIsTheChecks
ReportIsTheChecks == part = "suite" => Loop!ReportIsTheChecks
SuccessMeansAllPassed == part = "suite" => Loop!SuccessMeansAllPassed
LostHostIsReplaced == part = "suite" => Loop!LostHostIsReplaced
RunEnds == <>(part = "suite" => Loop!RunOver)

\* A passing check has earned it, by a gesture after a baseline that holds
\* what its setup waited for; an inspector that did not answer excuses one
\* action, or leaves every action undriven; and no gesture that is not
\* idempotent is carried out twice (CheckRun).
PassIsEarned ==
  part = "check" =>
    Check!PassIsEarned /\ Check!BaselineFollowsSetup /\ Check!CarriedOutOnce

\* A counted surface was whole when it was read, and the reveal field never
\* keeps what discovery wrote into it (Reveal).
CountedWhole == part = "tour" => Tour!CountedWhole /\ Tour!FilterGivenBack

\* Every button of a covered surface is in one bucket or in the plan, and
\* the sweep goes on only from a closed dialog or a proved trap (Cover).
CoverageAddsUp == part = "sweep" => Cover!EveryButtonInABucket /\ Cover!DialogIsOver

\* A dead button fails its case while the page does nothing by itself, and a
\* press reaches the planned one while nothing is renumbered (Sweep).
DeadButtonsFail ==
  part = "press" => Press!DeadButtonsFail /\ Press!ThePlannedIsPressed

\* An arrival is held, no frame in time is missed, stillness is proved (Waits); a
\* report that had to hold held, and a change took two writes (GpuOutcome).
WaitsAreHonest ==
  /\ part = "wait" =>
       Wait!ArrivalIsHeld /\ Wait!NoFrameMissed /\ Wait!StillnessIsProved
  /\ part = "gpu" => Gpu!HeldForStable /\ Gpu!ChangesMeansTwoWrites

\* No check runs on a surface that another file opened (Checks), and every
\* account is driven, reported skipped, or covered by its twin (Plans).
SuitesRunAsDeclared ==
  /\ part = "load" => Load!InheritsNoSurface
  /\ part = "plan" => Plan!AccountsCovered

\* No host or control directory outlives its run, no two hosts are up at
\* once, a cap stops every host it knows of (HostProcesses).
NothingLeaks ==
  part = "hosts" => Hosts!NothingLeaks /\ Hosts!OneHostAtATime /\ Hosts!CapStopsEveryHost

\* Expansion, scrolling and pagination come to an end (Reveal), and so does
\* every wait (Waits).
Ends == <>((part = "tour" => Tour!Over) /\ (part = "wait" => Wait!Over))

-----------------------------------------------------------------------------
\* "run-plan keeps a signed-in" host (runner.rs:366): a session's check runs
\* signed in to that session's account (Plans).
SessionChecksRunSignedIn == part = "plan" => Plan!SessionChecksRunSignedIn
=============================================================================
