------------------------------ MODULE MCSurfaces ------------------------------
(***************************************************************************)
(* The parts of MCHarness, and beside them what ps-qa makes of a page: the *)
(* aim of a pointer, the inventory of its controls, the condensed trees,   *)
(* and the writer that keeps secrets out of what is recorded.  These four  *)
(* take another name for `part` and the same slots, so that a behaviour of *)
(* MCHarness is one of this module, and the others are of one of the four. *)
(***************************************************************************)
EXTENDS MCHarness

CondenseKeys == {"a1", "a2", "b1"}

\* A selector followed to the screen (Aim).
Pointer == INSTANCE Aim WITH
    Profile <- AimProfile, Trees <- AimTrees, Wants <- AimWants,
    Headless <- FALSE, AncestorLimit <- 32, DialogClimb <- 8,
    DialogButtons <- 2, Counts <- {}, Looks <- 2,
    want <- s1, phase <- s2, turns <- s3, first <- s4, latest <- s5,
    target <- s6, asked <- s7

\* What the controls of a surface are worth (Inventory).
Stock == INSTANCE Inventory WITH
    Profile <- InventoryProfile, Headless <- FALSE, AncestorLimit <- 32,
    DialogClimb <- 8, DialogButtons <- 2, Counts <- {"3"},
    Surface <- InventorySurface, Pages <- InventoryPages,
    CheckSets <- InventoryChecks, Generated <- {"cl-1"},
    phase <- s1, page <- s2, checks <- s3, report <- s4, buckets <- s5,
    verdict <- s6

\* The guarded writer (GuardedWriter).
Guard == INSTANCE GuardedWriter WITH
    MinSecret <- 2, FormsOf <- GuardForms, Env <- GuardEnv,
    Received <- GuardReceived, Texts <- GuardTexts, Paths <- GuardPaths,
    MaxFile <- 2,
    secrets <- s1, files <- s2, names <- s3

\* Condensed trees and their cache (Condense).
Condensed == INSTANCE Condense WITH
    Length <- CondenseLength, Stop <- {4}, Keys <- CondenseKeys,
    Loads <- CondenseLoads, RoleLength <- CondenseRoleLength, Capacity <- 2,
    MaxInserts <- 4,
    order <- s1, entries <- s2, inserted <- s3, asked <- s4, answer <- s5

-----------------------------------------------------------------------------
SurfacesInit ==
  \/ part = "aim" /\ Pointer!Init /\ Free(7)
  \/ part = "inventory" /\ Stock!Init /\ Free(6)
  \/ part = "guard" /\ Guard!Init /\ Free(3)
  \/ part = "condense" /\ Condensed!Init /\ Free(5)

SurfacesNext ==
  /\ UNCHANGED part
  /\ \/ part = "aim" /\ Pointer!Next /\ Kept(7)
     \/ part = "inventory" /\ Stock!Next /\ Kept(6)
     \/ part = "guard" /\ Guard!Next /\ Kept(3)
     \/ part = "condense" /\ Condensed!Next /\ Kept(5)

SpecOfAll ==
  /\ Init \/ SurfacesInit
  /\ [][Next \/ SurfacesNext]_vars
  /\ Fairness

-----------------------------------------------------------------------------
\* What the four promise; every part is stated and explained in its own
\* module.

\* Every control the inventory reports is in its totals, credited only to a
\* check that drives it, pressed by the sweep when it lies in the pane in
\* front, and never forgiven later (Inventory).
EveryButtonAccounted ==
  part = "inventory" =>
    /\ Stock!TotalsAddUp /\ Stock!NothingInThePaneEscapes /\ Stock!CreditedIsDriven
    /\ Stock!ReconcileForgivesOnlySurfaces /\ Stock!OpenerIsHarmless

\* A control that was found is on the screen where it was found, and the
\* outcome that looks for it says the same (Aim, Verdict).
FoundWhereItIs ==
  part = "aim" => Pointer!FoundWhereItIs /\ Pointer!FoundIsShown /\ Pointer!VerdictsAgree /\
                  Pointer!TargetIsJudged

\* No known secret reaches the disk or a refusal (GuardedWriter).
NothingKnownGetsOut == [][part = "guard" => Guard!WritesNothingKnown]_vars

\* The cache holds the pages used last, and each level of a page is part of
\* the one above (Condense).
CacheIsTheMostRecent ==
  part = "condense" => Condensed!CacheIsTheMostRecent /\ Condensed!LevelsNest
=============================================================================
