--------------------------------- MODULE Aim --------------------------------
(***************************************************************************)
(* How a control is found before it is pressed (locate_control): which of  *)
(* several nodes of one name is taken, and the looks and scrolls that      *)
(* bring it into the window.  The page may move between two looks: every   *)
(* look reads any of the trees the page can show.                          *)
(***************************************************************************)
EXTENDS Verdict

CONSTANTS
  Trees,        \* the snapshots the page may show: [nodes, viewport]
  Wants,        \* the selectors a caller asks for
  Looks         \* how often a moving target is looked at again, and scrolled (4)

VARIABLES
  want,         \* the selector asked for
  phase,        \* "look", "settle", "reveal", "found", "lost" or "failed"
  turns,        \* looks or scrolls already spent in this phase
  first,        \* the tree of the first look
  latest,       \* the tree of the last one
  target,       \* None, or the node picked last: <<id, box>>
  asked         \* the nodes the last turn asked the page to scroll

vars == <<want, phase, turns, first, latest, target, asked>>

ModalScope(nodes) ==
  IF Dismissers(nodes) = <<>> THEN {} ELSE EnclosingDialog(nodes, Dismissers(nodes)[1].id)

SurfaceScope(nodes) ==
  LET here == SelectSeq(Profile.surfaces, LAMBDA s : OnSurface(nodes, s))
  IN  IF here = <<>> THEN {} ELSE OnSurfaceSubtree(nodes, here[1])

InWindow(tree, id, box) == ~Offscreen(box, ViewportForNode(tree.nodes, tree.viewport, id))

(* The dialog in front, then the active surface, then the rest of the      *)
(* window, then what a scroll can still bring in.                          *)
Ranked(tree, all) ==
  LET seen(scope) == SelectSeq(all, LAMBDA n : n.id \in scope /\ InWindow(tree, n.id, n.box))
  IN  seen(ModalScope(tree.nodes)) \o seen(SurfaceScope(tree.nodes)) \o seen(Ids(tree.nodes))
        \o SelectSeq(all, LAMBDA n : n.box[1] + n.box[3] > 0) \o all

FirstOf(ranked) == IF ranked = <<>> THEN None ELSE <<ranked[1].id, ranked[1].box>>

Pick(tree, selector) == FirstOf(Ranked(tree, Candidates(tree.nodes, selector)))

Landed(tree, picked) == picked # None /\ InWindow(tree, picked[1], picked[2])

Init ==
  /\ want \in Wants
  /\ phase = "look" /\ turns = 0
  /\ first = [nodes |-> <<>>, viewport |-> None] /\ latest = first
  /\ target = None /\ asked = <<>>

(* The first look decides alone when the control is in the window.         *)
Look ==
  /\ phase = "look"
  /\ \E tree \in Trees :
       /\ first' = tree /\ latest' = tree
       /\ target' = Pick(tree, want)
       /\ phase' = IF target' = None THEN "lost" ELSE IF Landed(tree, target') THEN "found" ELSE "settle"
  /\ UNCHANGED <<want, turns, asked>>

\* Mutation: the target stays the one of the tree before.
SettleOnOldTarget ==
  /\ phase = "settle" /\ turns < Looks
  /\ \E tree \in Trees :
       /\ latest' = tree
       /\ target' = target
       /\ phase' = IF Landed(tree, Pick(tree, want)) THEN "found" ELSE "settle"
  /\ turns' = turns + 1
  /\ UNCHANGED <<want, first, asked>>

(* A moving page is looked at again; a look that finds nothing keeps the   *)
(* target of the one before.                                               *)
Settle ==
  /\ phase = "settle" /\ turns < Looks
  /\ \E tree \in Trees :
       /\ latest' = tree
       /\ \E picked \in {Pick(tree, want)} :
            /\ target' = IF picked = None THEN target ELSE picked
            /\ phase' = IF Landed(tree, picked) THEN "found" ELSE "settle"
  /\ turns' = turns + 1
  /\ UNCHANGED <<want, first, asked>>

StartReveal ==
  /\ phase = "settle" /\ turns = Looks
  /\ phase' = "reveal" /\ turns' = 0
  /\ UNCHANGED <<want, first, latest, target, asked>>

(* What is still missing after a scroll into view: down, up or nothing.    *)
Gap(tree, picked) ==
  LET strip == ViewportForNode(tree.nodes, tree.viewport, picked[1])
  IN  IF picked[2][2] > strip[2] THEN "down" ELSE IF Bottom(picked[2]) < strip[1] THEN "up" ELSE "none"

(* One turn: scroll every ancestor of the target, look again, and nudge    *)
(* the outermost one by what is still missing.                             *)
Reveal ==
  /\ phase = "reveal" /\ turns < Looks
  /\ \E tree \in Trees :
       /\ latest' = tree
       /\ \E picked \in {Pick(tree, want)}, chain \in {RevealChain(latest.nodes, target[1])} :
            /\ target' = IF picked = None THEN target ELSE picked
            /\ phase' = IF picked = None THEN "lost" ELSE IF Landed(tree, picked) THEN "found" ELSE "reveal"
            /\ asked' = IF phase' = "reveal" /\ Gap(tree, picked) # "none" /\ RevealChain(tree.nodes, picked[1]) # <<>>
                        THEN Append(chain, RevealChain(tree.nodes, picked[1])[1]) ELSE chain
  /\ turns' = turns + 1
  /\ UNCHANGED <<want, first>>

RunOut ==
  /\ phase = "reveal" /\ turns = Looks
  /\ phase' = "lost"
  /\ UNCHANGED <<want, turns, first, latest, target, asked>>

(* Any exchange with the host may fail, which ends the search.             *)
ExchangeFails ==
  /\ phase \in {"look", "settle", "reveal"}
  /\ phase' = "failed"
  /\ UNCHANGED <<want, turns, first, latest, target, asked>>

Searching == Look \/ Settle \/ StartReveal \/ Reveal \/ RunOut
Next == Searching \/ ExchangeFails
Spec == Init /\ [][Next]_vars /\ WF_vars(Searching)
-----------------------------------------------------------------------------
(* What is returned is a node of the last tree, at the box it has there,   *)
(* inside the window: nobody presses where a control used to be            *)
(* (locate_control, target.rs:202-204).                                    *)
FoundWhereItIs ==
  phase = "found" =>
    /\ target[1] \in Ids(latest.nodes)
    /\ At(latest.nodes, target[1]).box = target[2]
    /\ InWindow(latest, target[1], target[2])

(* A check that asks no more than that a subject is seen, or is gone.      *)
Plain(expect, subject) ==
  [expect |-> expect, subject |-> subject, anyOf |-> <<>>, requireVisible |-> TRUE, textSized |-> FALSE,
   compare |-> subject, size |-> <<None, None>>, count |-> None, value |-> None]

(* The driving side and the judging side agree on what a person can see: a *)
(* control found for pressing is judged shown and not vanished.  A         *)
(* control fixed to the window is not: the judging side clips it against   *)
(* the boxes that contain it in the document.                              *)
FoundIsShown ==
  (phase = "found" /\ ~Headless /\ ~At(latest.nodes, target[1]).fixed) =>
    /\ Judge(Plain("PaintsNamed", want), first.nodes, latest.nodes)
    /\ ~Judge(Plain("Vanishes", want), first.nodes, latest.nodes)

(* The expectations form one consistent set: shown and vanished exclude    *)
(* each other and leave nothing between them, absent is gone, a verdict    *)
(* about something seen is about something laid out, a page that did not   *)
(* change satisfies no expectation of a change, and what a pair of trees   *)
(* cannot answer is never answered by it.                                  *)
VerdictsAgree ==
  LET holds(expect) == Judge(Plain(expect, want), first.nodes, latest.nodes)
      quiet(expect) == Judge(Plain(expect, want), latest.nodes, latest.nodes)
      changes == {"Grows", "PaintsMore", "FamilyChanges", "ValueChanges", "SelectionChanges", "NameChanges"}
      counts == {"Absent", "Vanishes", "Grows", "Holds", "Count"}
  IN  latest.nodes # <<>> =>
        /\ holds("Vanishes") = ~holds("PaintsNamed")
        /\ holds("Absent") => holds("Vanishes") /\ ~holds("Present")
        /\ \A e \in TreeExpects \ (counts \cup changes) : holds(e) => holds("Present")
        /\ ~(holds("Grows") /\ holds("Holds"))
        /\ \A e \in changes : ~quiet(e)
        /\ \A e \in TargetExpects \cup PixelExpects \cup GpuExpects : ~holds(e)

(* The verdict on a control that was found and pressed: it paints as the   *)
(* target when its name does, takes the focus only from another, and what  *)
(* changed on it was there before.                                         *)
TargetIsJudged ==
  LET live(expect) == OutcomeVerdict(Plain(expect, want), first.nodes, latest.nodes,
                        [target |-> want, id |-> target[1], focusBefore |-> first.nodes[1].id,
                         focusAfter |-> target[1]])
  IN  phase = "found" =>
        /\ live("TargetPaints") = Judge(Plain("Paints", want), first.nodes, latest.nodes)
        /\ live("FocusMoves") => target[1] # first.nodes[1].id /\ Sized(target[2])
        /\ live("SelectionChanges") => target[1] \in Ids(first.nodes)
=============================================================================
