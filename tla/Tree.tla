-------------------------------- MODULE Tree --------------------------------
(***************************************************************************)
(* What ps-qa reads off one semantic tree: which node a selector names,    *)
(* which part of the window a node may appear in, and which controls form  *)
(* a surface, a dialog, a document row or a row of a list.  A tree is the  *)
(* sequence of nodes of one snapshot, in document order; a name is a       *)
(* sequence of words, whose letter case is not modelled.                   *)
(***************************************************************************)
EXTENDS Shapes, Integers, FiniteSets, SequencesExt

CONSTANTS
  Profile,          \* the application profile: permanent surfaces, prefixes, markers
  Headless,         \* whether the run was started with --headless
  AncestorLimit,    \* how many parents a walk follows (32 in the code)
  DialogClimb,      \* how many parents a dialog may lie above its dismisser (8)
  DialogButtons,    \* the most buttons a dialog is believed to have (12)
  Counts            \* the words that read as a number above zero

Far == 1000000      \* f64::MAX, below every box

(*********************************** nodes *********************************)

(* The kinds of role the code tells apart by name. *)
Widgets == {"button", "checkbox", "combobox", "link", "menuitem", "menuitemcheckbox",
            "menuitemradio", "radio", "slider", "searchbox", "spinbutton", "switch",
            "tab", "textarea", "textbox", "treeitem"}

Ids(nodes) == {nodes[i].id : i \in DOMAIN nodes}
At(nodes, id) == nodes[CHOOSE i \in DOMAIN nodes : nodes[i].id = id]
Bottom(box) == box[2] + box[4]
Sized(box) == box # None /\ box[3] > 0 /\ box[4] > 0
Onscreen(node) == node.visible /\ Sized(node.box)
Button(node) == node.role = "button" /\ Onscreen(node)

(* The ids from a node to the root, the node first, at most limit of them. *)
Ancestry(nodes, id, limit) ==
  LET up[k \in 0..limit] ==
        IF k = 0 THEN id
        ELSE IF up[k - 1] \in Ids(nodes) THEN At(nodes, up[k - 1]).parent ELSE 0
      length == Cardinality({k \in 0..limit - 1 : up[k] \in Ids(nodes)})
  IN  [k \in 1..length |-> up[k - 1]]

Subtree(nodes, root) ==
  {id \in Ids(nodes) : Contains(Ancestry(nodes, id, Len(nodes)), root)} \cup {root}

(********************************* selectors *******************************)

Occurs(words, name) ==
  \E i \in 0..Len(name) - Len(words) : SubSeq(name, i + 1, i + Len(words)) = words

NameMatches(name, pattern) ==
  \/ ~pattern.lead /\ ~pattern.trail /\ Occurs(pattern.words, name)
  \/ ~pattern.lead /\ pattern.trail /\ IsPrefix(pattern.words, name)
  \/ pattern.lead /\ ~pattern.trail /\ IsSuffix(pattern.words, name)
  \/ pattern.lead /\ pattern.trail /\ Occurs(pattern.words, name)

(* What can be wrong with a written selector; the code says which in words. *)
Malformations == {"empty", "stray bracket", "css class", "no base", "unterminated",
                  "two predicates", "no equals sign", "bad attribute name", "unquoted",
                  "quote in value"}

(* A selector is [form, key, pattern, whole, attr]: form says how          *)
(* its base reads or what is wrong with it, whole is the base read as a    *)
(* plain name (the text with its colon), attr its final [name='value'].    *)
Understood(selector) == selector.form \notin Malformations
Grammatical(selector) == selector.form \in {"id", "slot", "role"}

MatchesBase(node, selector) ==
  \/ selector.form = "id" /\ node.domId = selector.key
  \/ selector.form = "slot" /\ node.slot = selector.key
  \/ selector.form = "role" /\ selector.key = node.role /\ NameMatches(node.name, selector.pattern)
  \/ selector.form = "role" /\ selector.key # node.role /\ NameMatches(node.name, selector.whole)
  \/ selector.form = "name" /\ NameMatches(node.name, selector.whole)

MatchesExactBase(node, selector) ==
  LET Is(pattern) == ~pattern.lead /\ ~pattern.trail /\ node.name = pattern.words
  IN  \/ selector.form = "id" /\ node.domId = selector.key
      \/ selector.form = "slot" /\ node.slot = selector.key
      \/ selector.form = "role" /\ selector.key = node.role /\ Is(selector.pattern)
      \/ selector.form = "role" /\ selector.key # node.role /\ Is(selector.whole)
      \/ selector.form = "name" /\ Is(selector.whole)

AttributeMatches(node, selector) == selector.attr = None \/ selector.attr \in node.attrs

SelectorMatches(node, selector) ==
  Understood(selector) /\ MatchesBase(node, selector) /\ AttributeMatches(node, selector)
ExactMatches(node, selector) ==
  Understood(selector) /\ MatchesExactBase(node, selector) /\ AttributeMatches(node, selector)

Matching(nodes, selector) == SelectSeq(nodes, LAMBDA node : SelectorMatches(node, selector))

(********************************* viewports *******************************)

Strip(box) == <<box[2], Bottom(box)>>
Narrower(one, other) ==
  <<IF one[1] > other[1] THEN one[1] ELSE other[1], IF one[2] < other[2] THEN one[2] ELSE other[2]>>

(* The window is the largest root, the last one of equals; without a root  *)
(* box everything above the lowest <main> counts.                          *)
ViewportOfNodes(nodes) ==
  LET roots == {i \in DOMAIN nodes : nodes[i].parent = 0 /\ nodes[i].box # None}
      area(i) == nodes[i].box[3] * nodes[i].box[4]
      window == CHOOSE i \in roots : \A j \in roots : area(j) < area(i) \/ (area(j) = area(i) /\ j <= i)
      mains == {Bottom(nodes[i].box) : i \in {j \in DOMAIN nodes : nodes[j].role = "main" /\ nodes[j].box # None}}
  IN  IF roots # {} THEN Strip(nodes[window].box)
      ELSE <<0, IF mains # {} THEN CHOOSE b \in mains : \A c \in mains : c <= b ELSE Far>>

(* The strip of the window a node is seen through: its window, and the     *)
(* outermost <main> above it when there is one.                            *)
ViewportForNodeIn(nodes, id) ==
  LET chain == Ancestry(nodes, id, AncestorLimit)
      root == SelectSeq(chain, LAMBDA a : At(nodes, a).parent = 0 /\ At(nodes, a).box # None)
      mains == SelectSeq(chain, LAMBDA a : At(nodes, a).role = "main" /\ At(nodes, a).box # None)
  IN  IF root = <<>> THEN ViewportOfNodes(nodes)
      ELSE IF mains = <<>> THEN Strip(At(nodes, root[1]).box)
      ELSE Narrower(Strip(At(nodes, root[1]).box), Strip(At(nodes, Last(mains)).box))

(* The same with the viewport the snapshot reports: a control fixed to the *)
(* window is not clipped by what contains it in the document.              *)
ViewportForNode(nodes, viewport, id) ==
  IF viewport = None THEN ViewportForNodeIn(nodes, id)
  ELSE IF id \in Ids(nodes) /\ At(nodes, id).fixed THEN Strip(viewport)
  ELSE Narrower(ViewportForNodeIn(nodes, id), Strip(viewport))

Offscreen(box, strip) == Bottom(box) < strip[1] \/ box[1] + box[3] < 0 \/ box[2] > strip[2]

(***************************** kinds of control ****************************)

Interactive(node) ==
  \/ node.role = "option" /\ node.visible
  \/ node.focusable /\ node.role \in {"columnheader", "rowheader"}
  \/ node.role \in Widgets

(***************************** what may be pressed **************************)

Targetable(node) == Sized(node.box) \/ (Headless /\ node.box # None)

(* Only an interactive node answers to a plain name; a selector that names *)
(* a role, an id or a slot says itself what it wants.                      *)
Eligible(node, selector) ==
  /\ Grammatical(selector) \/ Interactive(node)
  /\ SelectorMatches(node, selector)
  /\ node.visible \/ Headless
  /\ Targetable(node)

(* An exact name excludes longer ones, also when it is disabled.           *)
RetainExact(candidates, selector) ==
  LET exact == SelectSeq(candidates, LAMBDA n : ExactMatches(n, selector))
  IN  IF exact = <<>> THEN candidates ELSE exact

(* What a person sees comes first; with nothing to see, what is visible,   *)
(* then what has an area.                                                  *)
Prioritized(candidates) ==
  LET kept(visible, sized) == SelectSeq(candidates, LAMBDA n : n.visible = visible /\ Sized(n.box) = sized)
  IN  IF kept(TRUE, TRUE) # <<>> THEN kept(TRUE, TRUE)
      ELSE kept(TRUE, FALSE) \o kept(FALSE, TRUE) \o kept(FALSE, FALSE)

Candidates(nodes, selector) ==
  LET named == RetainExact(SelectSeq(nodes, LAMBDA n : Eligible(n, selector)), selector)
  IN  Prioritized(SelectSeq(named, LAMBDA n : n.enabled))

Half(name) == SubSeq(name, 1, Len(name) \div 2)
Doubled(name) == name # <<>> /\ name = Half(name) \o Half(name)
Twice(name) == name \o name
Permanent(name) == \E surface \in Profile.permanent : name \in {surface, Twice(surface)}
HasPrefix(name, prefixes) == \E prefix \in prefixes : IsPrefix(prefix, name)
After(prefix, name) == SubSeq(name, Len(prefix) + 1, Len(name))

Navigates(name) == Permanent(name) \/ name \in Profile.navigation \/ Doubled(name)
ClosesASurface(name) == HasPrefix(name, Profile.closes)
RequiresManual(name) == HasPrefix(name, Profile.manual)
RequiresIsolated(name) == name \in Profile.isolated
FoldsASection(name) ==
  \E section \in Profile.sections : IsPrefix(section, name) /\ Range(After(section, name)) \subseteq Counts \cup {"0"}

(* The row a row action belongs to is the button whose name the action     *)
(* carries after its prefix.                                               *)
OpensDocumentRow(nodes, id) ==
  \E i \in DOMAIN nodes : nodes[i].id = id /\ Button(nodes[i])
    /\ \E prefix \in Profile.rowActions, j \in DOMAIN nodes :
         /\ nodes[j].id # id /\ Button(nodes[j])
         /\ IsPrefix(prefix, nodes[j].name) /\ After(prefix, nodes[j].name) = nodes[i].name

(* The control that opens a document: a tab of the strip, or a row that    *)
(* counts something before the first marker, or any row with a marker.     *)
DocumentOpener(nodes) ==
  LET buttons == SelectSeq(nodes, Button)
      closed == {After(q[1], buttons[q[2]].name) : q \in
                   {q \in Profile.closes \X DOMAIN buttons : IsPrefix(q[1], buttons[q[2]].name)}}
      tabs == SelectSeq(buttons, LAMBDA n : ~Permanent(n.name)
                /\ \/ Doubled(n.name) /\ ~Permanent(Half(n.name))
                   \/ \E subject \in closed : n.name = Twice(subject))
      rows == SelectSeq(buttons, LAMBDA n : ~HasPrefix(n.name, Profile.closes) /\ ~HasPrefix(n.name, Profile.rowActions))
      head(n) == IF Occurs(Profile.markers[1], n.name)
                 THEN SubSeq(n.name, 1, IndexFirstSubSeq(Profile.markers[1], n.name) - 1) ELSE n.name
      populated == IF Profile.markers = <<>> THEN <<>>
                   ELSE SelectSeq(rows, LAMBDA n : head(n) # <<>> /\ Last(head(n)) \in Counts)
      marked == SelectSeq(rows, LAMBDA n : \E k \in DOMAIN Profile.markers : Occurs(Profile.markers[k], n.name))
      found == tabs \o populated \o marked
  IN  IF found = <<>> THEN None ELSE found[1].name

(*************************** surfaces and dialogs **************************)

(* A surface is [opener, marker, root]; marker and root are selectors,     *)
(* with form "empty" when the profile states none.                         *)
Marked(nodes, surface) ==
  SelectSeq(nodes, LAMBDA n : Onscreen(n) /\ SelectorMatches(n, surface.marker))

OnSurface(nodes, surface) ==
  /\ Permanent(surface.opener) =>
       \E i \in DOMAIN nodes : nodes[i].selected /\ Button(nodes[i])
         /\ nodes[i].name \in {surface.opener, Twice(surface.opener)}
  /\ surface.marker.form = "empty" \/ Marked(nodes, surface) # <<>>

ButtonsIn(nodes, ids) == Cardinality({i \in DOMAIN nodes : nodes[i].id \in ids /\ Button(nodes[i])})

(* The pane of the surface: what lies under <main> above the marker, or    *)
(* else the ancestor that holds the most buttons and not all of them.      *)
OnSurfaceSubtree(nodes, surface) ==
  IF surface.marker.form = "empty" THEN Ids(nodes)
  ELSE IF Marked(nodes, surface) = <<>> THEN {}
  ELSE LET chain == Ancestry(nodes, Marked(nodes, surface)[1].id, Len(nodes))
           above == [k \in 1..Len(chain) |-> Subtree(nodes, chain[k])]
           panes == {k \in 1..Len(chain) - 1 : At(nodes, chain[k + 1]).role = "main"}
           buttons(k) == ButtonsIn(nodes, above[k])
           total == ButtonsIn(nodes, Ids(nodes))
           short == {k \in 2..Len(chain) : \A j \in 2..k : total = 0 \/ buttons(j) < total}
           best == {k \in short : buttons(k) > 0 /\ \A j \in short : buttons(j) < buttons(k) \/ (buttons(j) = buttons(k) /\ j >= k)}
       IN  IF panes # {} THEN above[CHOOSE k \in panes : \A j \in panes : k <= j]
           ELSE IF best = {} THEN {}
           ELSE above[CHOOSE k \in best : TRUE]

(* Where an inventory counts: the one node its root selects and all under  *)
(* it; several roots or none is an error, None.                            *)
InventorySubtree(nodes, surface) ==
  IF surface.root.form = "empty" THEN <<OnSurfaceSubtree(nodes, surface)>>
  ELSE LET roots == Matching(nodes, surface.root)
       IN  IF Len(roots) = 1 THEN <<Subtree(nodes, roots[1].id)>> ELSE None

Dismisses(name) == \E k \in DOMAIN Profile.dismiss : Profile.dismiss[k] = name

(* The buttons that end a dialog, the profile's first choice first.        *)
Dismissers(nodes) ==
  LET of(control) == SelectSeq(nodes, LAMBDA n : Button(n) /\ n.name = control)
  IN  FlattenSeq([k \in 1..Len(Profile.dismiss) |-> of(Profile.dismiss[k])])

(* The dialog of a dismisser: the highest ancestor, a few levels up, below *)
(* the first that holds more buttons than a dialog would.                  *)
EnclosingDialog(nodes, id) ==
  LET chain == Ancestry(nodes, id, DialogClimb + 1)
      buttons(k) == Cardinality({i \in DOMAIN nodes : nodes[i].role = "button" /\ nodes[i].id \in Subtree(nodes, chain[k])})
      plausible == {k \in 1..Len(chain) : \A j \in 2..k : buttons(j) <= DialogButtons}
      top == CHOOSE k \in plausible : \A j \in plausible : j <= k
  IN  Subtree(nodes, chain[top])

(* The scrollers to move, outermost first, to bring a node into its pane.  *)
RevealChain(nodes, id) ==
  LET chain == Ancestry(nodes, id, AncestorLimit)
      short == {k \in 1..Len(chain) : \A j \in 1..k : At(nodes, chain[j]).role # "main"}
  IN  Reverse(SubSeq(chain, 1, Cardinality(short)))
=============================================================================
