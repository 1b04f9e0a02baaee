-------------------------------- MODULE Sweep --------------------------------
(***************************************************************************)
(* sweep.rs and run_sweep of runner.rs: every button of a page is pressed  *)
(* once, found again by its identity or its place among its namesakes, and *)
(* judged by what its own name promises.                                   *)
(*                                                                         *)
(* A name is a verb and a subject: the verb stands for the prefixes that   *)
(* expectation_for knows.  `who` is the control itself, which the harness  *)
(* does not see: it survives a remount, the id does not.                   *)
(*                                                                         *)
(* A case is three exchanges with a page that does not wait: the tree is   *)
(* read and the button found in it, the id is clicked, and the tree is     *)
(* read again until the promise holds or the time is up.  Between any two  *)
(* of them the page may do anything that a press may do, and renumber.     *)
(***************************************************************************)
EXTENDS Naturals, Sequences, Functions, FiniteSets, Positions

CONSTANTS
    Start,       \* the pages a sweep starts on: sequences of buttons
    Subjects,    \* what their names are about
    Viewport,    \* the rows of the page that are in the viewport: 1..Viewport
    MaxLength,   \* bound: the buttons of a page
    MaxDrifts    \* bound: changes of the page by itself

VARIABLES
    page,        \* the buttons in tree order
    cases,       \* what was planned: [id, who, name, occurrence]
    next,        \* the next case
    outcomes,    \* the verdicts, with what the page did and why
    fresh,       \* the next id or identity to be given out
    phase,       \* of the case: "read", "press" or "settle"; "over" if it ends early
    before,      \* the tree that the case was found in
    aim,         \* the button it was found to be
    hit,         \* the button that was clicked, and what it did
    drift        \* what the page did by itself since that read

vars == <<page, cases, next, outcomes, fresh, phase, before, aim, hit, drift>>

-----------------------------------------------------------------------------
(* sweep.rs                                                                *)

Named(node) == node.name.verb # "none"

\* Names that differ only in their letter case.
Alike(name, other) == name.verb = other.verb /\ name.subject = other.subject

\* painted_button.
Painted(node) == node.visible /\ node.box

Opposite(verb) == IF verb = "expand" THEN "collapse" ELSE "expand"

\* expectation_for.
ExpectationFor(name) ==
  CASE name.verb = "inert" -> "inert"
    [] name.verb \in {"expand", "collapse"} -> "toggles"
    [] name.verb = "hide" -> "changes"
    [] name.verb = "delete" -> "removes"
    [] name.verb = "add" -> "adds"
    [] name.verb \in {"copy", "copied"} -> "inert"
    [] OTHER -> "changes"

\* cases, each with its place among its namesakes in whatever letter case
\* (run_sweep).
Cases(nodes) ==
  LET worth == {i \in DOMAIN nodes : Painted(nodes[i]) /\ nodes[i].enabled /\ Named(nodes[i])}
      earlier(i) == {j \in worth : j < i /\ Alike(nodes[j].name, nodes[i].name)}
  IN  AtPositions([i \in DOMAIN nodes |->
                     [id |-> nodes[i].id, who |-> nodes[i].who, name |-> nodes[i].name,
                      occurrence |-> Cardinality(earlier(i))]], worth)

ByPlace(case, nodes) ==
  LET same == {i \in DOMAIN nodes : /\ nodes[i].name = case.name
                                    /\ Painted(nodes[i]) /\ nodes[i].enabled}
  IN  {nodes[i] : i \in {k \in same : Cardinality({j \in same : j < k}) = case.occurrence}}

ById(case, nodes) ==
  {node \in Range(nodes) : node.id = case.id /\ Painted(node) /\ node.enabled}

\* resolve_case: an id counts while it still has the planned name, and the
\* place is counted among the buttons of exactly that name.
ResolveCase(case, nodes) ==
  LET byId == {node \in ById(case, nodes) : node.name = case.name}
  IN  IF byId # {} THEN byId ELSE ByPlace(case, nodes)

\* has_button.
HasButton(nodes, name) ==
  \E i \in DOMAIN nodes : Painted(nodes[i]) /\ Alike(nodes[i].name, name)

\* confirmation_appeared: a way out that was not there before.
WaysOut(nodes) ==
  Cardinality({i \in DOMAIN nodes : Painted(nodes[i]) /\ nodes[i].name.verb = "cancel"})

ConfirmationAppeared(old, after) == WaysOut(after) > WaysOut(old)

\* Mutation: the fingerprint takes in where the nodes are.
GeometricFingerprint(nodes) ==
  [i \in DOMAIN nodes |-> <<nodes[i].name, nodes[i].enabled, nodes[i].visible,
                            nodes[i].selected, nodes[i].place>>]

\* tree_fingerprint: no geometry.
TreeFingerprint(nodes) ==
  [i \in DOMAIN nodes |-> <<nodes[i].name, nodes[i].enabled, nodes[i].visible,
                            nodes[i].selected>>]

\* A choice that is selected already may leave the page as it is.
SelectedChoice(id, nodes) ==
  \E i, j \in DOMAIN nodes :
    /\ nodes[i].id = id /\ nodes[i].selected
    /\ nodes[j].id # id /\ nodes[j].group = nodes[i].group
    /\ nodes[j].enabled /\ ~ nodes[j].selected

\* The controls other than a copy and its feedback, counted.
Controls(nodes) ==
  LET rows == SelectSeq(nodes, LAMBDA node : node.name.verb \notin {"copy", "copied"})
      rowOf(node) == <<node.name, node.enabled>>
  IN  [row \in {rowOf(n) : n \in Range(rows)} |->
         Cardinality({i \in DOMAIN rows : rowOf(rows[i]) = row})]

\* judge: whether the press failed.
Fails(id, name, old, after) ==
  LET promise == ExpectationFor(name)
  IN  CASE promise = "toggles" -> ~ HasButton(after, [name EXCEPT !.verb = Opposite(@)])
        [] promise = "removes" -> ~ ConfirmationAppeared(old, after) /\ HasButton(after, name)
        [] promise = "adds" -> Len(after) <= Len(old) /\ HasButton(after, name)
        [] promise = "changes" -> /\ TreeFingerprint(old) = TreeFingerprint(after)
                                  /\ ~ SelectedChoice(id, old)
        [] promise = "inert" -> Controls(old) # Controls(after)

InViewport(node) == node.place \in 1..Viewport

-----------------------------------------------------------------------------
(* The page: what a press does to it, and what it does by itself.          *)

Button(n, verb, subject) ==
  [who |-> n, id |-> n, name |-> [verb |-> verb, subject |-> subject, letters |-> "title"],
   group |-> 0, visible |-> TRUE, enabled |-> TRUE, selected |-> FALSE, box |-> TRUE, place |-> 1]

Without(nodes, i) == SubSeq(nodes, 1, i - 1) \o SubSeq(nodes, i + 1, Len(nodes))

\* What no reading of the tree tells from nothing.
Unseen == {"nothing", "highlight"}

Reactions(i) ==
  LET node == page[i]
      grown == [Button(fresh, "cancel", node.name.subject) EXCEPT !.place = 2]
      another == [Button(fresh, node.name.verb, node.name.subject) EXCEPT !.place = 2]
  IN  {[did |-> "nothing", page |-> page],
       [did |-> "highlight", page |-> [page EXCEPT ![i].place = 3 - @]],
       [did |-> "turn", page |->
          [page EXCEPT ![i].name.verb = IF @ = "expand" THEN "collapse" ELSE
                                        IF @ = "collapse" THEN "expand" ELSE
                                        IF @ = "copy" THEN "copied" ELSE "other"]],
       [did |-> "select", page |-> [page EXCEPT ![i].selected = TRUE]],
       [did |-> "remove", page |-> Without(page, i)],
       [did |-> "ask", page |-> Append(page, grown)],
       [did |-> "grow", page |-> <<another>> \o page]}

\* A button is remounted under a new id, or two buttons of different names
\* take each other's.
Remounted(nodes) ==
  {nodes}
  \cup {[nodes EXCEPT ![i].id = fresh + 1] : i \in DOMAIN nodes}
  \cup {[nodes EXCEPT ![p[1]].id = nodes[p[2]].id, ![p[2]].id = nodes[p[1]].id] :
          p \in {q \in (DOMAIN nodes) \X (DOMAIN nodes) :
                   q[1] < q[2] /\ nodes[q[1]].name # nodes[q[2]].name}}

Drifted(changed, renumbered) ==
  [left |-> drift.left - 1, changed |-> changed, renumbered |-> renumbered]

Drift ==
  /\ phase # "over" /\ drift.left > 0
  /\ \/ page' \in Remounted(page) /\ drift' = Drifted(drift.changed, TRUE)
     \/ \E i \in DOMAIN page : \E change \in Reactions(i) :
          /\ Len(change.page) <= MaxLength
          /\ page' = change.page
          /\ drift' = Drifted(drift.changed \/ change.did \notin Unseen, drift.renumbered)
  /\ fresh' = fresh + 2
  /\ UNCHANGED <<cases, next, outcomes, phase, before, aim, hit>>

-----------------------------------------------------------------------------
(* run_sweep.                                                              *)

Unaimed ==
  [id |-> 0, who |-> 0, name |-> [verb |-> "none", subject |-> "none", letters |-> "title"],
   there |-> FALSE, excused |-> FALSE]
Unhit == [who |-> 0, did |-> "nothing", direct |-> FALSE]

Init ==
  /\ page \in Start
  /\ cases = Cases(page)
  /\ next = 1
  /\ outcomes = << >>
  /\ fresh = 100
  /\ phase = "read" /\ before = << >> /\ aim = Unaimed /\ hit = Unhit
  /\ drift = [left |-> MaxDrifts, changed |-> FALSE, renumbered |-> FALSE]

\* A case whose button is gone, or out of the viewport, is passed over.
Skip ==
  /\ phase = "read" /\ next <= Len(cases)
  /\ \A node \in ResolveCase(cases[next], page) : ~ InViewport(node)
  /\ next' = next + 1
  /\ UNCHANGED <<page, cases, outcomes, fresh, phase, before, aim, hit, drift>>

\* What a button that does nothing passes for: a selected choice may stay as
\* it is, a copy should, and a disclosure is taken for a namesake that was
\* open already.
Excused(id, name, nodes) ==
  \/ ExpectationFor(name) = "inert"
  \/ ExpectationFor(name) = "changes" /\ SelectedChoice(id, nodes)
  \/ /\ ExpectationFor(name) = "toggles"
     /\ HasButton(nodes, [name EXCEPT !.verb = Opposite(@)])

\* The tree is read, and the case found in it.
Aim ==
  /\ phase = "read" /\ next <= Len(cases)
  /\ \E node \in ResolveCase(cases[next], page) :
       /\ InViewport(node)
       /\ aim' = [id |-> node.id, who |-> node.who, name |-> node.name,
                  there |-> \E i \in DOMAIN page : /\ page[i].id = cases[next].id
                                                   /\ page[i].who = cases[next].who
                                                   /\ page[i].name = cases[next].name,
                  excused |-> Excused(node.id, node.name, page)]
  /\ before' = page /\ phase' = "press"
  /\ drift' = [drift EXCEPT !.changed = FALSE, !.renumbered = FALSE]
  /\ UNCHANGED <<page, cases, next, outcomes, fresh, hit>>

\* click_by_id: whatever button has the id by now.
Press ==
  /\ phase = "press"
  /\ \E i \in DOMAIN page :
       /\ page[i].id = aim.id
       /\ \E reaction \in Reactions(i) :
            /\ Len(reaction.page) <= MaxLength
            /\ page' = reaction.page
            /\ hit' = [who |-> page[i].who, did |-> reaction.did,
                       direct |-> ~ drift.renumbered]
  /\ phase' = "settle"
  /\ fresh' = fresh + 2
  /\ UNCHANGED <<cases, next, outcomes, before, aim, drift>>

Outcome(did, failed) ==
  [case |-> next, aimed |-> aim.who, name |-> aim.name, there |-> aim.there,
   excused |-> aim.excused, who |-> hit.who, did |-> did, direct |-> hit.direct,
   drifted |-> drift.changed, failed |-> failed]

\* The case has its verdict, and the next one begins.
Concluded(did, failed) ==
  /\ outcomes' = Append(outcomes, Outcome(did, failed))
  /\ next' = next + 1 /\ phase' = "read"
  /\ before' = << >> /\ aim' = Unaimed /\ hit' = Unhit
  /\ UNCHANGED <<page, cases, fresh, drift>>

\* The host refuses the click, or does not answer: what it still did to the
\* page is a drift of the next case.
PressFails == phase = "press" /\ Concluded("refused", TRUE)

\* settle_sweep_case: a tree that keeps the promise ends the wait, and the
\* last one before the time is up does.
Settle ==
  /\ phase = "settle"
  /\ Concluded(hit.did, Fails(aim.id, cases[next].name, before, page))

\* A tree that cannot be read ends the sweep without a report.
Bail ==
  /\ phase \in {"read", "settle"} /\ next <= Len(cases)
  /\ phase' = "over"
  /\ UNCHANGED <<page, cases, next, outcomes, fresh, before, aim, hit, drift>>

Next == Skip \/ Aim \/ Press \/ PressFails \/ Settle \/ Bail \/ Drift

Spec == Init /\ [][Next]_vars

-----------------------------------------------------------------------------
\* While the page changes nothing by itself that the tree shows, a press that
\* changed nothing, or only where a button is drawn, fails its case, whatever
\* else the page holds, however its nodes are renumbered, and whichever button
\* the click reached; and a disclosure that swapped its name passes.  (A page
\* that does change by itself between the two reads is credited to the press,
\* where the name promises a change, or more nodes: judge compares the whole
\* tree.)
DeadButtonsFail ==
  \A i \in DOMAIN outcomes :
    LET o == outcomes[i] IN
    ~ o.drifted =>
      /\ (o.did \in Unseen /\ ~ o.excused => o.failed)
      /\ (o.name.verb \in {"expand", "collapse"} /\ o.did = "turn" /\ o.direct => ~ o.failed)

\* A case is aimed at a button of the planned name, and at the planned one
\* while it still has its id: neither a recycled id nor rows that come and go
\* before it turn the press to another.  The press reaches the button it was
\* aimed at, unless the page renumbered between the read and the click.
ThePlannedIsPressed ==
  \A i \in DOMAIN outcomes :
    LET o == outcomes[i]
        case == cases[o.case]
    IN  /\ o.name = case.name
        /\ o.there => o.aimed = case.who
        /\ o.did # "refused" /\ o.direct => o.who = o.aimed

-----------------------------------------------------------------------------
(* Why they hold.                                                          *)

Verbs == {"expand", "collapse", "hide", "delete", "add", "copy", "copied", "cancel", "inert",
          "other", "none"}
NameType == [verb : Verbs, subject : Subjects, letters : {"title", "lower"}]
ButtonType ==
  [who : Nat, id : Nat, name : NameType, group : Nat, visible : BOOLEAN, enabled : BOOLEAN,
   selected : BOOLEAN, box : BOOLEAN, place : {1, 2}]
CaseType == [id : Nat, who : Nat, name : NameType, occurrence : Nat]
Dids == Unseen \cup {"turn", "select", "remove", "ask", "grow", "refused"}
OutcomeType ==
  [case : Nat, aimed : Nat, name : NameType, there : BOOLEAN, excused : BOOLEAN, who : Nat,
   did : Dids, direct : BOOLEAN, drifted : BOOLEAN, failed : BOOLEAN]

\* No two buttons of a page have the same id, and every id was given out.
IdsAreUnique(nodes, bound) ==
  /\ \A i \in DOMAIN nodes : nodes[i].id < bound
  /\ \A i, j \in DOMAIN nodes : nodes[i].id = nodes[j].id => i = j

\* The pages a sweep may start on.
PagesAreWellFormed ==
  /\ MaxDrifts \in Nat
  /\ \A nodes \in Start :
       /\ nodes \in Seq(ButtonType) /\ IdsAreUnique(nodes, 100)
       /\ \A i, j \in DOMAIN nodes : nodes[i].who = nodes[j].who => i = j

TypeOK ==
  /\ page \in Seq(ButtonType) /\ cases \in Seq(CaseType) /\ outcomes \in Seq(OutcomeType)
  /\ next \in Nat \ {0} /\ fresh \in Nat
  /\ phase \in {"read", "press", "settle", "over"}
  /\ phase \in {"press", "settle"} => next \in DOMAIN cases
  /\ drift \in [left : Nat, changed : BOOLEAN, renumbered : BOOLEAN]
  /\ hit \in [who : Nat, did : Dids, direct : BOOLEAN]

\* A planned button stays painted and enabled as long as it is there.
Pressable(nodes, whom) ==
  \A i \in DOMAIN nodes : nodes[i].who = whom => Painted(nodes[i]) /\ nodes[i].enabled

PlannedStayPressable == \A c \in DOMAIN cases : Pressable(page, cases[c].who)

\* An outcome belongs to a case that was planned.
OutcomesAreOfCases == \A i \in DOMAIN outcomes : outcomes[i].case \in DOMAIN cases

\* Two trees that a verdict cannot tell apart.
SameLooks(old, new) ==
  /\ DOMAIN new = DOMAIN old
  /\ \A j \in DOMAIN old :
       /\ new[j].name = old[j].name /\ new[j].enabled = old[j].enabled
       /\ new[j].visible = old[j].visible /\ new[j].box = old[j].box
       /\ new[j].selected = old[j].selected

SameIds(old, new) == \A j \in DOMAIN old : new[j].id = old[j].id

\* The button that is aimed at was found in the tree that was read.
AimIsTrue ==
  phase \in {"press", "settle"} =>
    /\ before \in Seq(ButtonType) /\ IdsAreUnique(before, fresh)
    /\ aim.name = cases[next].name /\ aim.who \in Nat /\ aim.name \in NameType
    /\ aim.there \in BOOLEAN /\ aim.excused = Excused(aim.id, aim.name, before)
    /\ aim.there => aim.who = cases[next].who
    /\ \E k \in DOMAIN before :
         /\ before[k].id = aim.id /\ before[k].who = aim.who
         /\ before[k].name = aim.name /\ Painted(before[k])

\* Until the click, the tree that was read tells what is on the page.
PageIsKnown ==
  phase = "press" =>
    /\ ~ drift.changed => SameLooks(before, page)
    /\ ~ drift.renumbered => \A i \in DOMAIN page : page[i].id = aim.id => page[i].who = aim.who
    /\ ~ drift.changed /\ ~ drift.renumbered => SameIds(before, page)

\* After it, the page is what the press made of it.
PressIsSeen ==
  phase = "settle" =>
    /\ hit.did # "refused"
    /\ hit.direct => hit.who = aim.who
    /\ ~ drift.changed /\ hit.did \in Unseen => SameLooks(before, page)
    /\ ~ drift.changed /\ hit.direct /\ hit.did = "turn"
         /\ aim.name.verb \in {"expand", "collapse"} =>
         HasButton(page, [aim.name EXCEPT !.verb = Opposite(@)])

SweepInv ==
  /\ TypeOK /\ IdsAreUnique(page, fresh) /\ PlannedStayPressable /\ OutcomesAreOfCases
  /\ AimIsTrue /\ PageIsKnown /\ PressIsSeen
  /\ DeadButtonsFail /\ ThePlannedIsPressed
=============================================================================
