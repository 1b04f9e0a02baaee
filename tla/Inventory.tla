------------------------------- MODULE Inventory ------------------------------
(***************************************************************************)
(* What ps-qa says of the controls of one surface: the inventory and the   *)
(* failures it reports (run_inventory), the sweep that leaves out what     *)
(* checks declare (run_cover --unmapped-only), and the report read back    *)
(* later against the checks of that day (reconcile_inventory).             *)
(***************************************************************************)
EXTENDS Tree

CONSTANTS
  Surface,      \* the surface, [opener, marker, root]
  Pages,        \* the trees it may show
  CheckSets,    \* the checks there may be: sets of [id, driven, covers, expect, subject]
  Generated     \* the DOM ids a framework made by counting

VARIABLES
  phase,        \* "start", "surveyed", "covered", "edited", "reconciled", "failed"
  page,         \* the tree
  checks,       \* the checks of the project
  report,       \* the saved inventory: its controls, [node, class, classification],
                \* and how many of its surfaces failed
  buckets,      \* where the sweep puts each button
  verdict       \* what the reconciliation found, [declared, blocking]

vars == <<phase, page, checks, report, buckets, verdict>>

(******************************* attribution *******************************)

Globbed(selector) ==
  LET pattern == IF selector.form = "role" THEN selector.pattern ELSE selector.whole
  IN  pattern.lead \/ pattern.trail

(* Mutation: the predicate of the live driver, which takes substrings.     *)
CoverageMatchesBroadly(node, selector) == SelectorMatches(node, selector)

(* One control is looked at, so the choice of an exact name among all of   *)
(* them cannot be made: only a glob credits what it does not spell out.    *)
CoverageMatches(node, selector) ==
  IF Globbed(selector) THEN SelectorMatches(node, selector) ELSE ExactMatches(node, selector)

Drives(check, node) == \E selector \in check.driven : CoverageMatches(node, selector)

(* Navigating to a control, or past it, is no proof of it.                 *)
Proves(check, node) ==
  \/ Drives(check, node)
  \/ \E selector \in check.covers : SelectorMatches(node, selector)
  \/ /\ check.expect \in {"FocusMoves", "ValueChanges", "SelectionChanges", "NameChanges"}
     /\ ExactMatches(node, check.subject)
  \/ check.expect = "Disabled" /\ ~node.enabled /\ CoverageMatches(node, check.subject)

OutcomeChecks(node, declared) == {check.id : check \in {c \in declared : Proves(c, node)}}

(******************************** inventory ********************************)

DuplicateIds(nodes) ==
  {n.domId : n \in {m \in nodes : m.domId # "" /\ \E k \in nodes : k.id # m.id /\ k.domId = m.domId}}

(* Declared exceptions first: they are never addressed by a check.         *)
InventoryClass(node, duplicates) ==
  CASE RequiresManual(node.name) -> "Manual"
    [] ~RequiresManual(node.name) /\ RequiresIsolated(node.name) -> "Isolated"
    [] OTHER ->
         CASE node.domId = "" -> "MissingId"
           [] node.domId \in Generated -> "UnstableId"
           [] node.domId \in duplicates -> "DuplicateId"
           [] OTHER ->
                IF node.name = <<>> THEN "Anonymous"
                ELSE IF ~Onscreen(node) THEN "Unreachable"
                ELSE IF ~node.enabled THEN "Disabled" ELSE "Reachable"

(* The controls of the surface, with their classes.                        *)
Components(nodes) ==
  LET scope == InventorySubtree(nodes, Surface)[1]
      mine == {n \in ToSet(nodes) : n.id \in scope}
      duplicates == DuplicateIds(mine)
  IN  {[node |-> n, class |-> InventoryClass(n, duplicates)] : n \in {m \in mine : Interactive(m)}}

Unproved == {"MissingId", "UnstableId", "DuplicateId", "Anonymous"}

Unverified(row, declared) ==
  \/ row.class = "Isolated"
  \/ row.class # "Manual" /\ OutcomeChecks(row.node, declared) = {}

OutcomeDeclared(row, declared) ==
  row.class \notin {"Manual", "Isolated"} /\ OutcomeChecks(row.node, declared) # {}

(* What the report says of a control: a hidden one is proved by the check  *)
(* that reveals it.                                                        *)
Classification(row, declared) ==
  LET matched == OutcomeChecks(row.node, declared) # {}
  IN  CASE row.class \in Unproved -> "failed"
        [] row.class = "Unreachable" -> IF matched THEN "declared-hidden" ELSE "failed"
        [] row.class = "Disabled" -> IF matched THEN "declared-disabled" ELSE "disabled-unverified"
        [] row.class = "Reachable" -> IF matched THEN "declared" ELSE "unverified"
        [] row.class = "Manual" -> "excluded-manual"
        [] OTHER -> "isolated-unverified"

(* The failures of a report with --require-outcomes.                       *)
Failures(of, declared) ==
  LET rows == of.controls
      isolated == {r \in rows : r.class = "Isolated"}
      failed == {r \in rows : Classification(r, declared) = "failed"}
      unverified == {r \in rows : Unverified(r, declared)}
  IN  Cardinality(failed) + Cardinality(unverified) - Cardinality(isolated) + of.failed

(****************************** reconciliation *****************************)

(* The saved control, as a node again: what the report does not hold is    *)
(* taken for the ordinary, and no classification spells "unreachable".     *)
SavedControlNode(row) ==
  [row.node EXCEPT !.id = 0, !.parent = 0, !.value = None, !.focusable = FALSE, !.fixed = FALSE,
                   !.enabled = row.classification \notin {"disabled-unverified", "declared-disabled"},
                   !.visible = TRUE, !.selected = FALSE, !.box = <<0, 0, 1, 1>>, !.attrs = {}]

Matched(row, declared) == OutcomeChecks(SavedControlNode(row), declared) # {}

(* A failure stands whatever checks there are now; an isolated control is  *)
(* decided by a gate of its own and does not block.                        *)
Reconciled(row, declared) ==
  CASE row.classification = "excluded-manual" -> "manual"
    [] row.classification = "failed" -> "failed"
    [] row.classification = "isolated-unverified" -> "isolated"
    [] OTHER -> IF Matched(row, declared) THEN "declared" ELSE "unverified"

(********************************** sweep **********************************)

SweptButtons(nodes) ==
  LET scope == OnSurfaceSubtree(nodes, Surface)
  IN  {n \in ToSet(nodes) : n.role = "button" /\ n.name # <<>> /\ n.visible /\ n.id \in scope}

(* The first bucket that fits; what hides or leaves the surface is pressed *)
(* after the rest of the plan, an opener when its own surface is opened.   *)
Bucket(nodes, n, declared) ==
  IF ~Onscreen(n) THEN "unreachable"
  ELSE IF RequiresIsolated(n.name) THEN "isolated"
  ELSE IF RequiresManual(n.name) THEN "manual"
  ELSE IF OutcomeChecks(n, declared) # {} THEN "declared"
  ELSE IF HasPrefix(n.name, Profile.folds) \/ n.name \in Profile.deferred \/ FoldsASection(n.name) THEN "collapser"
  ELSE IF Navigates(n.name) \/ OpensDocumentRow(nodes, n.id) THEN "navigation"
  ELSE IF ClosesASurface(n.name) THEN "closer" ELSE "plan"

-----------------------------------------------------------------------------
Init ==
  /\ phase = "start" /\ page \in Pages /\ checks \in CheckSets
  /\ report = [controls |-> {}, failed |-> 0] /\ buckets = <<>> /\ verdict = [declared |-> 0, blocking |-> 0]

(* ps-qa inventory: the rows are saved with the checks of the day.         *)
Survey ==
  /\ phase = "start" /\ InventorySubtree(page, Surface) # None
  /\ report' = [failed |-> 0, controls |->
       {row @@ [classification |-> Classification(row, checks)] : row \in Components(page)}]
  /\ phase' = "surveyed"
  /\ UNCHANGED <<page, checks, buckets, verdict>>

(* A surface that cannot be opened, or whose inspection fails, has a row   *)
(* and no controls; only the second counts as a failure.  The report is    *)
(* written all the same.                                                   *)
SurveyNothing ==
  /\ phase = "start"
  /\ \E failed \in {0, 1} : report' = [controls |-> {}, failed |-> failed]
  /\ phase' = "surveyed"
  /\ UNCHANGED <<page, checks, buckets, verdict>>

(* A root that is missing or not unique ends the run.                      *)
SurveyFails ==
  /\ phase = "start" /\ InventorySubtree(page, Surface) = None
  /\ phase' = "failed"
  /\ UNCHANGED <<page, checks, report, buckets, verdict>>

(* ps-qa cover --unmapped-only over the same page and checks.              *)
CoverPage ==
  /\ phase = "surveyed"
  /\ buckets' = [id \in {n.id : n \in SweptButtons(page)} |-> Bucket(page, At(page, id), checks)]
  /\ phase' = "covered"
  /\ UNCHANGED <<page, checks, report, verdict>>

(* Checks are written and dropped after the report was saved.              *)
Edit ==
  /\ phase \in {"surveyed", "covered"}
  /\ checks' \in CheckSets \ {checks}
  /\ phase' = "edited"
  /\ UNCHANGED <<page, report, buckets, verdict>>

Reconcile ==
  /\ phase \in {"surveyed", "covered", "edited"}
  /\ verdict' = LET of(bs) == {row \in report.controls : Reconciled(row, checks) \in bs}
                IN  [declared |-> Cardinality(of({"declared"})), blocking |-> Cardinality(of({"failed", "unverified"}))]
  /\ phase' = "reconciled"
  /\ UNCHANGED <<page, checks, report, buckets>>

Next == Survey \/ SurveyNothing \/ SurveyFails \/ CoverPage \/ Edit \/ Reconcile
Spec == Init /\ [][Next]_vars
-----------------------------------------------------------------------------
(* The totals add up: a control is declared, unverified or manual          *)
(* (inventory_outcome_declared, inventory_control_unverified), so the      *)
(* report leaves none of its components out.                               *)
TotalsAddUp ==
  LET declared == {row \in report.controls : OutcomeDeclared(row, checks)}
      unverified == {row \in report.controls : Unverified(row, checks)}
      manual == {row \in report.controls : row.class = "Manual"}
  IN  phase = "surveyed" =>
        Cardinality(report.controls)
          = Cardinality(declared) + Cardinality(unverified) + Cardinality(manual)

(* A reconciliation forgives nothing but a failed surface: when it passes, *)
(* an inventory of the same page with the checks of today would report no  *)
(* more failures than the surfaces it failed on, of which the saved report *)
(* holds no control; and what it calls declared is declared                *)
(* (reconcile_inventory).                                                  *)
ReconcileForgivesOnlySurfaces ==
  phase = "reconciled" =>
    /\ verdict.blocking = 0 => Failures(report, checks) = report.failed
    /\ verdict.declared <= Cardinality({row \in report.controls : OutcomeDeclared(row, checks)})

(* A button escapes both commands only outside the pane in front: one the  *)
(* inventory finds reachable and unverified is, inside the pane, pressed   *)
(* by the sweep of what is unmapped, or opens or closes a surface; outside *)
(* it, where the inventory's root may reach, the sweep never looks         *)
(* (run_cover, "--unmapped-only").                                         *)
NothingInThePaneEscapes ==
  phase = "covered" =>
    \A row \in report.controls :
      row.classification = "unverified" /\ row.node.role = "button" =>
        IF row.node.id \in OnSurfaceSubtree(page, Surface)
        THEN /\ row.node.id \in DOMAIN buckets
             /\ buckets[row.node.id] \in {"plan", "navigation", "collapser", "closer"}
        ELSE row.node.id \notin DOMAIN buckets

(* "Coverage cannot claim a selector the runner itself would never         *)
(* resolve": a control credited to the action of a check is one that this  *)
(* action may press on this page (outcome_check_ids, locate_control).      *)
CreditedIsDriven ==
  phase = "surveyed" =>
    \A row \in report.controls, check \in checks :
      \A selector \in check.driven :
        row.classification = "declared" /\ CoverageMatches(row.node, selector) =>
          row.node \in ToSet(Candidates(page, selector))

(* What opens a document is neither a close nor an action on a row.        *)
OpenerIsHarmless ==
  LET opener == DocumentOpener(page)
  IN  opener # None => ~ClosesASurface(opener) /\ ~HasPrefix(opener, Profile.rowActions)
=============================================================================
