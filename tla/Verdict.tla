------------------------------- MODULE Verdict ------------------------------
(***************************************************************************)
(* How a check is judged: the verdict over the semantic tree before and    *)
(* after its action.  Lengths are whole pixels; the tolerances are the     *)
(* code's.                                                                 *)
(***************************************************************************)
EXTENDS Tree

(* The expectations a pair of trees can answer, those that need the focus, *)
(* the exact target or other evidence that only the live run has.          *)
TreeExpects == {"Paints", "Present", "Enabled", "Disabled", "Absent", "Vanishes", "Grows",
                "PaintsMore", "FamilyChanges", "Holds", "Count", "PaintsNamed",
                "DistinctPositions", "ContainedBy", "Measures", "Above", "RightOf",
                "CenterAlignedY", "ValueChanges", "ValueIs", "SelectionChanges", "NameChanges"}
TargetExpects == {"TargetPaints", "FocusMoves"}
PixelExpects == {"PixelsHold", "PixelsHoldAfterHover", "PixelsChange", "VisibleInk",
                 "InteriorInk", "OpaqueBackground", "TransparentBackground", "FullOpacity",
                 "TransparentWindowTint", "Contrast", "FontSizeGrows"}
GpuExpects == {"GpuNoErrors", "GpuHasResource", "GpuDraws", "GpuTextureInk",
               "GpuBufferRange", "GpuBufferEquals", "GpuBufferAtLeast", "GpuBufferChanges"}

(* What a node must be to count as shown, and to have its state read.      *)
Shows(check, node) == Sized(node.box) /\ (check.requireVisible => node.visible)
StateReadable(check, node) == IF check.textSized THEN node.box # None ELSE Sized(node.box)

(* Judged against the viewport the tree itself implies, which knows nothing *)
(* of the snapshot's own viewport nor of controls fixed to the window.      *)
Parked(nodes, node) == node.box # None /\ Offscreen(node.box, ViewportForNodeIn(nodes, node.id))

Found(check, nodes) == Matching(nodes, check.subject)
Painted(seq) == SelectSeq(seq, LAMBDA n : Sized(n.box))
SomeNode(seq, Test(_)) == \E i \in DOMAIN seq : Test(seq[i])
EveryNode(seq, Test(_)) == \A i \in DOMAIN seq : Test(seq[i])

Vanishes(check, after) ==
  LET onScreen(n) == n.visible /\ Sized(n.box) /\ ~Parked(after, n)
  IN  ~SomeNode(Found(check, after), onScreen)

Paints(check, after) ==
  LET shown(n) == Shows(check, n) IN Found(check, after) # <<>> /\ EveryNode(Found(check, after), shown)

EnabledIs(check, after, wanted) ==
  LET right(n) == StateReadable(check, n) /\ n.enabled = wanted IN SomeNode(Found(check, after), right)

Present(check, after) ==
  LET laidOut(n) == n.box # None IN SomeNode(Found(check, after), laidOut)

PaintsNamed(check, after) ==
  LET named(n) == Shows(check, n) /\ ~Parked(after, n) IN SomeNode(Found(check, after), named)

DistinctPositions(check, after) ==
  LET painted == Painted(Found(check, after))
      centres == {<<2 * n.box[1] + n.box[3], 2 * n.box[2] + n.box[4]>> : n \in Range(painted)}
  IN  Len(painted) >= 2 /\ Cardinality(centres) = Len(painted)

(* Every painted subject lies in the first painted node of the comparison  *)
(* that is not itself a subject.                                           *)
ContainedBy(check, after) ==
  LET painted == Painted(Found(check, after))
      own == {n.id : n \in Range(painted)}
      outer == SelectSeq(Painted(Matching(after, check.compare)), LAMBDA n : n.id \notin own)
      inside(n) == LET c == outer[1].box
                   IN  /\ n.box[1] >= c[1] - 1 /\ n.box[2] >= c[2] - 1
                       /\ n.box[1] + n.box[3] <= c[1] + c[3] + 1
                       /\ Bottom(n.box) <= Bottom(c) + 1
  IN  painted # <<>> /\ outer # <<>> /\ EveryNode(painted, inside)

(* A size is a bound for each axis: none, or <<how, pixels>>.              *)
Fits(bound, actual) ==
  \/ bound = None
  \/ bound # None /\ bound[1] = "at most" /\ actual <= bound[2] + 1
  \/ bound # None /\ bound[1] = "at least" /\ actual >= bound[2] - 1
  \/ bound # None /\ bound[1] = "exactly" /\ actual \in bound[2] - 1..bound[2] + 1

Measures(check, after) ==
  LET fits(n) == Fits(check.size[1], n.box[3]) /\ Fits(check.size[2], n.box[4])
  IN  check.size # None /\ Painted(Found(check, after)) # <<>> /\ EveryNode(Painted(Found(check, after)), fits)

(* Every subject paints and stands so to some painted comparison node      *)
(* other than itself.                                                      *)
StandsTo(check, after, Relation(_, _)) ==
  LET others == Painted(Matching(after, check.compare))
      stands(n) == /\ Sized(n.box)
                   /\ \E i \in DOMAIN others : others[i].id # n.id /\ Relation(n.box, others[i].box)
  IN  Found(check, after) # <<>> /\ others # <<>> /\ EveryNode(Found(check, after), stands)

Above(check, after) == StandsTo(check, after, LAMBDA b, o : b[2] < o[2])
RightOf(check, after) == StandsTo(check, after, LAMBDA b, o : b[1] >= o[1] + o[3] - 1)
CenterAlignedY(check, after) ==
  StandsTo(check, after, LAMBDA b, o : 2 * b[2] + b[4] - 2 * o[2] - o[4] \in -4..4)

ShownCount(check, nodes) == Len(SelectSeq(Found(check, nodes), LAMBDA n : Shows(check, n)))
PaintsMore(check, before, after) == ShownCount(check, after) > ShownCount(check, before)

FamilyChanges(check, before, after) ==
  LET family(nodes) == {<<n.id, n.name>> : n \in Range(Painted(Found(check, nodes)))}
  IN  family(after) # {} /\ family(after) # family(before)

Grows(check, before, after) == Len(Found(check, after)) > Len(Found(check, before))
Holds(check, before, after) == Len(Found(check, after)) = Len(Found(check, before))

CountIs(check, after) ==
  /\ check.count # None
  /\ check.count[1] = IF check.requireVisible THEN ShownCount(check, after) ELSE Len(Found(check, after))

ValueIs(check, after) ==
  LET right(n) == StateReadable(check, n) /\ n.value = check.value
  IN  check.value # None /\ SomeNode(Found(check, after), right)

(* One exact node, by its id, before and after the action.                 *)
BothHold(id, before, after) == id \in Ids(before) /\ id \in Ids(after)
ValueChanged(id, before, after) ==
  /\ BothHold(id, before, after)
  /\ At(before, id).value # None /\ At(after, id).value # None
  /\ At(before, id).value # At(after, id).value
SelectionChanged(id, before, after) ==
  BothHold(id, before, after) /\ At(before, id).selected # At(after, id).selected
NameChanged(id, before, after) ==
  BothHold(id, before, after) /\ At(before, id).name # At(after, id).name

(* The node a change is asked of: the first painted match of the tree      *)
(* before the action.                                                      *)
OfFirst(check, before, after, Changed(_, _, _)) ==
  LET painted == Painted(Found(check, before))
  IN  painted # <<>> /\ Changed(painted[1].id, before, after)

JudgeOne(check, before, after) ==
  CASE check.expect = "Vanishes" -> Vanishes(check, after)
    [] check.expect = "Paints" -> Paints(check, after)
    [] check.expect \in {"Enabled", "Disabled"} -> EnabledIs(check, after, check.expect = "Enabled")
    [] check.expect = "Absent" -> Found(check, after) = <<>>
    [] check.expect = "Present" -> Present(check, after)
    [] check.expect = "PaintsNamed" -> PaintsNamed(check, after)
    [] check.expect = "DistinctPositions" -> DistinctPositions(check, after)
    [] check.expect = "ContainedBy" -> ContainedBy(check, after)
    [] check.expect = "Measures" -> Measures(check, after)
    [] check.expect = "Above" -> Above(check, after)
    [] check.expect = "RightOf" -> RightOf(check, after)
    [] check.expect = "CenterAlignedY" -> CenterAlignedY(check, after)
    [] check.expect = "PaintsMore" -> PaintsMore(check, before, after)
    [] check.expect = "FamilyChanges" -> FamilyChanges(check, before, after)
    [] check.expect = "Grows" -> Grows(check, before, after)
    [] check.expect = "Holds" -> Holds(check, before, after)
    [] check.expect = "Count" -> CountIs(check, after)
    [] check.expect = "ValueIs" -> ValueIs(check, after)
    [] check.expect = "ValueChanges" -> OfFirst(check, before, after, ValueChanged)
    [] check.expect = "SelectionChanges" -> OfFirst(check, before, after, SelectionChanged)
    [] check.expect = "NameChanges" -> OfFirst(check, before, after, NameChanged)
    [] OTHER -> FALSE

(* A check with alternatives passes when any of its outcomes does.         *)
Judge(check, before, after) ==
  LET outcomes == IF check.anyOf = <<>> THEN <<[subject |-> check.subject, expect |-> check.expect]>>
                  ELSE <<[subject |-> check.subject, expect |-> check.expect]>> \o check.anyOf
  IN  \E i \in DOMAIN outcomes :
        JudgeOne([check EXCEPT !.subject = outcomes[i].subject, !.expect = outcomes[i].expect], before, after)

(* What the live run adds: the exact node the action resolved to, and the  *)
(* focus.  An action is [target, id, focusBefore, focusAfter]; target is a *)
(* selector of form "empty" and the ids 0 when there is none.              *)
OutcomeVerdict(check, before, after, action) ==
  LET exact == action.target = check.subject /\ action.id # 0
      painted == Painted(Found(check, after))
  IN  CASE check.expect = "TargetPaints" ->
             /\ action.target.form # "empty"
             /\ Judge([check EXCEPT !.subject = action.target, !.expect = "Paints"], before, after)
        [] check.expect = "ValueChanges" /\ exact -> ValueChanged(action.id, before, after)
        [] check.expect = "SelectionChanges" /\ exact -> SelectionChanged(action.id, before, after)
        [] check.expect = "FocusMoves" ->
             /\ painted # <<>> /\ action.focusAfter = painted[1].id
             /\ action.focusBefore # action.focusAfter
        [] OTHER -> Judge(check, before, after)
=============================================================================
