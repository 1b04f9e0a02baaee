------------------------------- MODULE Reveal -------------------------------
(***************************************************************************)
(* Bringing content into the tree before it is counted or aimed at:        *)
(* run_inventory over its surfaces, reveal_deferred_content for a check,   *)
(* and the helpers both use (expand_everything, materialize_*_content,     *)
(* hover_all_rows; runner.rs).                                             *)
(*                                                                         *)
(* `page` is what the application holds, `tree` what the inspector shows   *)
(* of it: a gesture is acknowledged before it is rendered, and what is     *)
(* read until then is the tree before it.                                  *)
(***************************************************************************)
EXTENDS Naturals, FiniteSets

CONSTANTS
  Tasks,       \* what is driven: "inventory" and the kinds of a check's target
  Surfaces,    \* how many surfaces an inventory selects
  Depth,       \* sections, each inside the one before
  Pages,       \* how many pages there may be behind each of two pagers
  Rows,        \* controls mounted by scrolling
  MaxPasses, MaxScrolls, MaxPagers, MaxClicks  \* the literal loop bounds

Sizes ==
  /\ Surfaces \in Nat \ {0} /\ Depth \in Nat /\ Rows \in Nat \ {0} /\ Pages \subseteq Nat
  /\ MaxPasses \in Nat /\ MaxScrolls \in Nat

VARIABLES
  task, pc,
  page, tree,  \* [open: sections, left: pages, mounted: controls, field]
  own,         \* what the reveal field held when discovery began
  at,          \* the surface of the inventory
  held,        \* what the inventory read in the field before it cleared it
  turns,       \* turns of the current loop
  todo,        \* disclosures still to press in this pass
  stable,      \* the count of the last scroll, and how often it was the same
  pager,       \* the pager being clicked, 0 for none
  shown,       \* what was left behind it in the last tree read
  retired,     \* pagers done with
  rounds,      \* how often a pager was looked for
  failed,      \* the inspection of this surface failed
  short,       \* the parts of the page that were read from an older tree, or
               \* given up on by a loop bound ("arrival" for a wait)
  result       \* what became of each surface, and the parts that were missing
               \* from it though nothing is short of them: [as, lacks]

walk == <<task, own, at, held, result>>
turn == <<turns, todo, stable, pager, shown, retired, rounds, failed>>
loop == <<turn, short>>
vars == <<pc, page, tree, walk, loop>>

Empty == "empty"   \* of a field
Pagers == {1, 2}
Parts == {"open", "left", "mounted", "field"}
Fresh(text) ==
  {[open |-> {}, left |-> l, mounted |-> m, field |-> text] :
     l \in [Pagers -> Pages], m \in {1, Rows}}
Whole == [open |-> 1..Depth, left |-> [p \in Pagers |-> 0], mounted |-> Rows, field |-> Empty]
NoCount == [last |-> 0, times |-> 0]

Init ==
  /\ task \in Tasks
  /\ pc = IF task = "inventory" THEN "open" ELSE "query"
  /\ own \in {Empty, "old"} /\ page \in Fresh(own) /\ tree = page
  /\ at = 1 /\ held = Empty
  /\ turns = 0 /\ todo = {} /\ stable = NoCount
  /\ pager = 0 /\ shown = 0 /\ retired = {} /\ rounds = 0 /\ failed = FALSE /\ short = {}
  /\ result = [s \in 1..Surfaces |-> [as |-> "none", lacks |-> {}]]

-----------------------------------------------------------------------------
\* A gesture changes the page; the tree follows, at once or later.
Does(new) == page' = new /\ tree' \in {tree, new}

\* A part is read, from a tree that may be older than the page.
Older(parts) == {part \in parts : tree[part] # page[part]}
Reads(parts) == short' = short \cup Older(parts)

Still == UNCHANGED <<page, tree>>
Goto(p) == pc' = p /\ Still /\ UNCHANGED <<walk, loop>>

\* Where an error goes: an inspection of an inventory gives the filter back
\* first, everything else ends the run.
Abort ==
  /\ IF task = "inventory" /\ pc \in {"scroll", "pager", "click", "hover", "read"}
     THEN /\ pc' = "restore" /\ failed' = TRUE
          /\ UNCHANGED <<turns, todo, stable, pager, shown, retired, rounds, short>>
     ELSE pc' = "failed" /\ UNCHANGED loop
  /\ Still /\ UNCHANGED walk

RequestFails == pc \notin {"done", "failed"} /\ Abort

-----------------------------------------------------------------------------
(* expand_everything: what is still collapsed is pressed, again and again. *)

Collapsed(t) == {d \in 1..Depth \ t.open : 1..(d - 1) \subseteq t.open}
Toggle(set, d) == IF d \in set THEN set \ {d} ELSE set \cup {d}

ExpandPass ==
  /\ pc = "expand" /\ todo = {}
  /\ IF turns = MaxPasses
     THEN todo' = {} /\ short' = short \cup {"open"}
     ELSE todo' = Collapsed(tree) /\ Reads({"open"})
  /\ turns' = IF todo' = {} THEN 0 ELSE turns + 1
  /\ pc' = IF todo' = {} THEN "reopen" ELSE "expand"
  /\ Still /\ UNCHANGED <<walk, stable, pager, shown, retired, rounds, failed>>

\* What is called "Expand" in the tree by now is pressed, and what is not
\* found, or refused, is passed over in this pass.
PressDisclosure ==
  /\ pc = "expand"
  /\ \E d \in todo :
       /\ todo' = todo \ {d}
       /\ \/ d \notin tree.open /\ Does([page EXCEPT !.open = Toggle(@, d)])
          \/ Still
  /\ Reads({"open"})
  /\ UNCHANGED <<pc, walk, turns, stable, pager, shown, retired, rounds, failed>>

-----------------------------------------------------------------------------
(* run_inventory.                                                          *)

Row(as, lacks) == result' = [result EXCEPT ![at] = [as |-> as, lacks |-> lacks]]

\* The next surface; open_surface goes on when the tree shows it.
NextSurface ==
  /\ IF at < Surfaces
     THEN at' = at + 1 /\ pc' = "open" /\ page' \in Fresh(page.field) /\ tree' = page'
     ELSE at' = at /\ pc' = "done" /\ Still
  /\ turns' = 0 /\ todo' = {} /\ stable' = NoCount
  /\ pager' = 0 /\ shown' = 0 /\ retired' = {} /\ rounds' = 0 /\ failed' = FALSE
  /\ UNCHANGED <<task, own, held>>

\* open_surface, before and after the expansion.
Open == pc \in {"open", "reopen"} /\ Goto(IF pc = "open" THEN "expand" ELSE "hold")
CannotOpen ==
  /\ pc \in {"open", "reopen"}
  /\ short' = {} /\ Row("unopened", {}) /\ NextSurface

\* The reveal field is held empty until the surface has been read.
Hold ==
  /\ pc = "hold" /\ held' = tree.field /\ pc' = "scroll"
  /\ IF tree.field # Empty THEN Does([page EXCEPT !.field = Empty]) ELSE Still
  /\ Reads({"field"})
  /\ UNCHANGED <<task, own, at, result, turn>>

\* materialize_scrolled_content: until two turns found nothing new.
Scroll ==
  /\ pc = "scroll"
  /\ LET same == tree.mounted = stable.last
         times == IF same THEN stable.times + 1 ELSE 0
     IN IF turns = MaxScrolls \/ times = 2
        THEN /\ pc' = "pager" /\ turns' = 0 /\ stable' = NoCount /\ Still
        ELSE /\ pc' = pc /\ turns' = turns + 1
             /\ stable' = [last |-> tree.mounted, times |-> times]
             /\ Does([page EXCEPT !.mounted = IF @ < Rows THEN @ + 1 ELSE @])
  /\ IF turns = MaxScrolls THEN short' = short \cup {"mounted"} ELSE Reads({"mounted"})
  /\ UNCHANGED <<walk, todo, pager, shown, retired, rounds, failed>>

AfterPagers == IF task = "inventory" THEN "hover" ELSE "look"

\* materialize_paginated_content: the next pager that is not retired.
NextPager ==
  /\ pc = "pager" /\ rounds < MaxPagers
  /\ turns' = 0
  /\ LET left == {p \in Pagers \ retired : tree.left[p] > 0} IN
     IF left = {} THEN pc' = AfterPagers /\ rounds' = 0 /\ UNCHANGED <<pager, shown>>
     ELSE /\ pager' \in left /\ shown' = tree.left[pager']
          /\ pc' = "click" /\ rounds' = rounds + 1
  /\ Reads({"left"})
  /\ Still /\ UNCHANGED <<walk, todo, stable, retired, failed>>

LeavePager == pager' = 0 /\ shown' = 0 /\ pc' = "pager" /\ turns' = 0
Retire == retired' = retired \cup {pager} /\ LeavePager

\* Mutation: a pager is left after one page.
ClickPagerOnce ==
  /\ pc = "click" /\ turns < MaxClicks
  /\ Does([page EXCEPT !.left[pager] = IF @ > 0 THEN @ - 1 ELSE @])
  /\ short' = IF tree'.left = page'.left THEN short ELSE short \cup {"left"}
  /\ Retire
  /\ UNCHANGED <<walk, todo, stable, rounds, failed>>

\* A pager that shows no progress since the last tree read is retired.
ClickPager ==
  /\ pc = "click" /\ turns < MaxClicks
  /\ Does([page EXCEPT !.left[pager] = IF @ > 0 THEN @ - 1 ELSE @])
  /\ short' = IF tree'.left = page'.left THEN short ELSE short \cup {"left"}
  /\ IF tree'.left[pager] # shown /\ tree'.left[pager] > 0
     THEN turns' = turns + 1 /\ shown' = tree'.left[pager] /\ UNCHANGED <<pc, pager, retired>>
     ELSE Retire
  /\ UNCHANGED <<walk, todo, stable, rounds, failed>>

\* A click that is refused leaves the pager to be found again.
ClickRefused ==
  /\ pc = "click" /\ turns < MaxClicks
  /\ LeavePager
  /\ Still /\ UNCHANGED <<walk, todo, stable, retired, rounds, failed, short>>

\* Too many rounds, or a pager that never ends.
Bail ==
  /\ \/ pc = "click" /\ turns = MaxClicks
     \/ pc = "pager" /\ rounds = MaxPagers
  /\ Abort

Hover == pc = "hover" /\ Goto("read")

ReadSurface ==
  /\ pc = "read" /\ Reads(Parts) /\ pc' = "restore"
  /\ Row("counted", {part \in Parts \ short' : tree[part] # Whole[part]})
  /\ Still /\ UNCHANGED <<task, own, at, held, turn>>

\* The filter is given back also when the inspection failed.
Restore ==
  /\ pc = "restore" /\ pc' = "row"
  /\ IF held # Empty THEN Does([page EXCEPT !.field = held]) ELSE Still
  /\ UNCHANGED <<walk, loop>>

EndRow ==
  /\ pc = "row"
  /\ short' = {}
  /\ IF failed THEN Row("error", {}) ELSE UNCHANGED result
  /\ NextSurface

\* What the exit status counts, besides what is wrong with single controls.
Failures == Cardinality({s \in DOMAIN result : result[s].as = "error"})

-----------------------------------------------------------------------------
(* reveal_deferred_content for a check: its target is kept once a query    *)
(* mounted it, needs the query, comes by scrolling, or never comes.        *)

PaintedIn(t) ==
  CASE task = "kept" -> t.field \in {Empty, "query"}
    [] task = "query" -> t.field = "query"
    [] task = "scrolled" -> t.field = Empty /\ t.mounted = Rows
    [] OTHER -> FALSE

Type(text, p) ==
  /\ Does([page EXCEPT !.field = text]) /\ pc' = p
  /\ UNCHANGED <<walk, loop>>

TypeQuery == pc = "query" /\ Type("query", "found")

\* wait_for_arrival: what the tree shows by the deadline.
Arrives(yes, no) ==
  /\ pc' = IF PaintedIn(tree) THEN yes ELSE no
  /\ short' = IF PaintedIn(tree) = PaintedIn(page) THEN short ELSE short \cup {"arrival"}
  /\ Still /\ UNCHANGED <<walk, turn>>

Found == pc = "found" /\ Arrives("clear", "abandon")
Clear == pc = "clear" /\ Type(Empty, "kept")
Kept == pc = "kept" /\ Arrives("pager", "again")
Again == pc = "again" /\ Type("query", "pager")

Abandon == pc = "abandon" /\ Type(Empty, "pager")

\* Mutation: the scrolls are not counted.
LookAndScrollForever ==
  /\ pc = "look"
  /\ IF PaintedIn(tree) THEN pc' = "done" /\ Still
     ELSE /\ UNCHANGED pc
          /\ Does([page EXCEPT !.mounted = IF @ < Rows THEN @ + 1 ELSE @])
  /\ UNCHANGED <<walk, loop>>

\* The target wins as soon as it is painted; otherwise the deepest node is
\* scrolled into view.
LookAndScroll ==
  /\ pc = "look"
  /\ IF PaintedIn(tree) \/ turns = MaxScrolls
     THEN pc' = "done" /\ UNCHANGED turns /\ Still
     ELSE /\ turns' = turns + 1 /\ UNCHANGED pc
          /\ Does([page EXCEPT !.mounted = IF @ < Rows THEN @ + 1 ELSE @])
  /\ UNCHANGED <<walk, todo, stable, pager, shown, retired, rounds, failed, short>>

-----------------------------------------------------------------------------
Render == tree # page /\ tree' = page /\ UNCHANGED <<pc, page, walk, loop>>

Step ==
  \/ ExpandPass \/ PressDisclosure \/ Open \/ CannotOpen \/ Hold \/ Scroll
  \/ NextPager \/ ClickPager \/ ClickRefused \/ Bail \/ Hover \/ ReadSurface \/ Restore \/ EndRow
  \/ TypeQuery \/ Found \/ Clear \/ Abandon \/ Kept \/ Again \/ LookAndScroll

Next == Step \/ RequestFails \/ Render

\* Every helper goes on: none of its loops is unbounded.
Spec == Init /\ [][Next]_vars /\ WF_vars(Step)

-----------------------------------------------------------------------------
(* A surface the inventory counted was whole when it was read: every       *)
(* section open, every page and every scrolled row mounted, no filter left *)
(* ("until all pages are mounted before it counts component instances").   *)
(* A part of it may be missing only where a helper decided on a tree that  *)
(* was older than the page in that very part (a pager whose next page is   *)
(* not in the tree by the next reading is retired for good), or where the  *)
(* passes or the scrolls ran out, of which nothing is said.                *)
CountedWhole ==
  \A s \in DOMAIN result : result[s].as = "counted" => result[s].lacks = {}

(* The reveal field never keeps what discovery wrote into it: an inventory *)
(* gives back what the field held, also after a failed inspection and      *)
(* whatever tree it read it from, and a check leaves its query only where  *)
(* the target disappears without it, or a wait decided on an older tree.   *)
FilterGivenBack ==
  /\ task = "inventory" /\ pc \in {"open", "row", "done"} => page.field = own
  /\ task # "inventory" /\ pc = "done" /\ page.field # Empty =>
       task = "query" \/ "arrival" \in short

(* Expansion, scrolling and pagination always come to this end.            *)
Over == pc \in {"done", "failed"}

-----------------------------------------------------------------------------
(* Why a counted surface is whole.                                         *)

Texts == {Empty, "old", "query"}
Openings == SUBSET (1..Depth)
PageType == [open : Openings, left : [Pagers -> Nat], mounted : 1..Rows, field : Texts]
Shorts == SUBSET (Parts \cup {"arrival"})
RowType == [as : {"none", "unopened", "counted", "error"}, lacks : SUBSET Parts]

Walking == {"open", "expand", "reopen", "hold", "scroll", "hover", "read", "restore", "row"}
Revealing == {"query", "found", "clear", "kept", "again", "abandon", "look"}
Shared == {"pager", "click", "done", "failed"}

TypeOK ==
  /\ page \in PageType /\ tree \in PageType
  /\ at \in 1..Surfaces /\ held \in Texts /\ own \in {Empty, "old"}
  /\ turns \in Nat /\ stable \in [last : Nat, times : Nat] /\ shown \in Nat
  /\ todo \subseteq 1..Depth
  /\ short \in Shorts /\ result \in [1..Surfaces -> RowType]
  /\ pc \in Shared \cup (IF task = "inventory" THEN Walking ELSE Revealing)

\* A loop starts from nothing.
LoopsStartAfresh ==
  /\ pc \in {"open", "expand", "reopen", "hold"} => stable = NoCount
  /\ pc = "open" => todo = {}
  /\ pc \in {"open", "expand", "reopen", "hold", "scroll"} => retired = {}

\* The open sections are the outermost ones, and a pass opens one more.
SectionsAreOpened ==
  task = "inventory" /\ pc # "done" /\ "open" \notin short =>
    \E k \in 0..Depth :
      /\ page.open = 1..k
      /\ pc = "expand" => todo = {} \/ (todo = {k + 1} /\ k < Depth)
      /\ pc \in {"reopen", "hold", "scroll", "pager", "click", "hover", "read"} => k = Depth

\* A scroll mounts a row as long as one is missing.
RowsAreMounted ==
  task = "inventory" /\ "mounted" \notin short =>
    /\ pc = "scroll" => /\ stable.times > 0 => page.mounted = Rows
                        /\ stable.last < page.mounted \/ page.mounted = Rows
    /\ pc \in {"pager", "click", "hover", "read"} => page.mounted = Rows

\* A pager is retired when nothing is left behind it.
PagesAreMounted ==
  /\ pc = "click" => pager \in Pagers
  /\ retired \subseteq Pagers
  /\ "left" \notin short =>
       /\ \A p \in retired : page.left[p] = 0
       /\ pc = "click" => shown = page.left[pager] /\ shown > 0
       /\ pc \in {"hover", "read"} => \A p \in Pagers : page.left[p] = 0

\* What the reveal field holds while an inventory keeps it empty, and what
\* the tree may show of it.
FieldIsHeld ==
  task = "inventory" =>
    /\ {page.field, tree.field} \subseteq {Empty, own}
    /\ pc \in {"open", "expand", "reopen", "hold", "row", "done"} => page.field = own
    /\ pc \in {"scroll", "pager", "click", "hover", "read", "restore"} =>
         /\ IF held # Empty THEN held = own /\ page.field = Empty ELSE page.field = own
         /\ "field" \notin short => page.field = Empty

\* Which target a check looks for with which text in the field.
FieldIsKnown ==
  task # "inventory" =>
    /\ pc = "found" => page.field = "query"
    /\ pc \in {"clear", "kept"} => task \in {"kept", "query"} \/ "arrival" \in short
    /\ pc = "kept" => page.field = Empty
    /\ pc = "again" => task = "query" \/ "arrival" \in short
    /\ pc \in {"pager", "click", "look", "done"} /\ page.field # Empty =>
         task = "query" \/ "arrival" \in short

RevealInv ==
  /\ TypeOK /\ LoopsStartAfresh /\ SectionsAreOpened /\ RowsAreMounted
  /\ PagesAreMounted /\ FieldIsHeld /\ FieldIsKnown /\ CountedWhole
=============================================================================
