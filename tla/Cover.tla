-------------------------------- MODULE Cover --------------------------------
(***************************************************************************)
(* `cover` in ps-qa (run_cover, open_surface and sweep_modal in runner.rs):*)
(* every surface is opened, expanded and counted, and every button counted *)
(* there ends in exactly one bucket of reach::Coverage.                    *)
(*                                                                         *)
(* A control is a row of the surface and its name; rows share names.  The  *)
(* tree is the rows on screen in order and whether their ids are still the *)
(* planned ones (a re-render gives every row a fresh id).                  *)
(***************************************************************************)
EXTENDS Naturals, Sequences, FiniteSets, Functions, Positions

CONSTANTS
  Surfaces,   \* the surfaces of a run, [opener, rows], a row being [name, kind]
  MaxInner    \* bound: buttons of a dialog, and ways out of it

Kinds == {"plain", "fold", "close", "delete", "dialog", "declared", "navigation",
          "manual", "isolated"}

\* A run covers at least one surface, and every surface is a list of rows.
SurfacesAreWellFormed ==
  /\ Surfaces \in Seq([opener : {"none", "document", "named"},
                       rows : Seq([name : STRING, kind : Kinds])])
  /\ Surfaces # <<>>
  /\ MaxInner \in Nat

VARIABLES
  pc,         \* the step of run_cover, of open_surface, or of sweep_modal
  at,         \* the surface being covered
  back,       \* the step open_surface was called from
  front,      \* the surface is in front
  shown,      \* its rows on screen, in tree order
  fresh,      \* their ids are no longer the planned ones
  dialog,     \* the buttons and ways out left in the open dialog, or Closed
  plan,       \* the rows still to press
  done,       \* how many times each name was found
  here,       \* the buckets of this surface
  total,      \* the buckets of the run
  pressed,    \* how often each row of this surface was pressed
  trapped     \* a dialog was found that nothing closes

covering == <<at, plan, done, here, total, pressed, trapped>>
tree == <<front, shown, fresh, dialog>>
vars == <<pc, back, tree, covering>>

Closed == [open |-> FALSE, inner |-> 0, ways |-> 0]
Rows == Surfaces[at].rows
Name(r) == Rows[r].name
Names == UNION {{row.name : row \in Range(s.rows)} : s \in Range(Surfaces)}

Planned == {"swept", "vanished", "blocked"}
Excluded == {"declared", "unreachable", "navigation", "manual", "isolated"}
Buckets == Planned \cup Excluded \cup {"revealed"}
Zero == [b \in Buckets \cup {"tree"} |-> 0]

Add(counts, b, n) == [counts EXCEPT ![b] = @ + n]

\* Coverage::accounted: every button of the surface, and every button a
\* dialog brought, ended in a bucket.
Accounted(counts) ==
  counts["swept"] + counts["declared"] + counts["unreachable"] + counts["vanished"]
    + counts["navigation"] + counts["manual"] + counts["isolated"]
    + counts["blocked"] + counts["revealed"]
  = counts["tree"] + counts["revealed"]

\* The total as it once was summed, without what a dialog brought or blocked.
SumsOfTheTree(a, b) ==
  [k \in DOMAIN a |-> IF k \in {"blocked", "revealed"} THEN a[k] ELSE a[k] + b[k]]

Sums(a, b) == [k \in DOMAIN a |-> a[k] + b[k]]

Init ==
  /\ at = 1 /\ pc = "look" /\ back = "expand"
  /\ front \in BOOLEAN
  /\ shown = <<>> /\ fresh = FALSE /\ dialog = Closed
  /\ plan = <<>> /\ done = [n \in Names |-> 0]
  /\ here = Zero /\ total = Zero /\ pressed = <<>> /\ trapped = FALSE

Goto(p) == pc' = p /\ UNCHANGED <<back, tree, covering>>

\* A read or a wait that returns an error ends the run.
Fails == pc \notin {"done", "failed"} /\ Goto("failed")

-----------------------------------------------------------------------------
(* Opening a surface.                                                      *)

Opened(yes) ==
  CASE yes -> back
    [] ~yes /\ back = "planned" -> "lost"
    [] OTHER -> "skip"

Look ==
  /\ pc = "look"
  /\ Goto(CASE front \/ Surfaces[at].opener = "none" -> Opened(TRUE)
            [] ~front /\ Surfaces[at].opener = "document" -> "opener"
            [] ~front /\ Surfaces[at].opener = "named" -> "path")

\* A dynamic document is found by shape, through the home surface if need be;
\* its row is scrolled into view, then double-clicked, once.
FindOpener ==
  /\ pc = "opener"
  /\ \E found \in BOOLEAN : Goto(IF found THEN "double" ELSE Opened(FALSE))

\* A gesture on an opener: the surface comes to the front, or it does not.
Arrives(p) ==
  /\ \E there \in BOOLEAN : front' = there
  /\ pc' = p
  /\ UNCHANGED <<back, shown, fresh, dialog, covering>>

DoubleClick == pc = "double" /\ Arrives("settle")

ClickPath ==
  /\ pc \in {"path", "again"}
  /\ \/ Arrives(IF pc = "path" THEN "settle" ELSE "resettle")
     \/ Goto(Opened(FALSE))

\* settle_on: looked at, not assumed from the click; one retry through home.
Settle ==
  /\ pc \in {"settle", "resettle"}
  /\ Goto(CASE front -> Opened(TRUE)
            [] ~front /\ (pc = "resettle" \/ Surfaces[at].opener = "document") -> Opened(FALSE)
            [] OTHER -> "again")

-----------------------------------------------------------------------------
(* Counting a surface and planning it.                                     *)

\* expand_everything may press an opener of another surface.
Expand ==
  /\ pc = "expand"
  /\ front' \in BOOLEAN
  /\ pc' = "look" /\ back' = "materialize"
  /\ UNCHANGED <<shown, fresh, dialog, covering>>

\* Deferred and paginated content; a pager that does not advance skips the
\* surface.  Then the rows are counted, where some are not on screen.
Materialize ==
  /\ pc = "materialize"
  /\ \/ Goto("skip")
     \/ /\ pc' = "count"
        /\ shown' = [r \in 1..Len(Rows) |-> r]
        /\ fresh' = FALSE
        /\ UNCHANGED <<back, front, dialog, covering>>

\* The bucket a button is put in without being pressed, or "plan".
Class(r, hidden) ==
  IF r \in hidden THEN "unreachable"
  ELSE IF Rows[r].kind \in Excluded THEN Rows[r].kind ELSE "plan"

\* Harmless first, then destructive, then what folds, then what closes.
Turn(r) ==
  CASE Rows[r].kind = "fold" -> 3
    [] Rows[r].kind = "close" -> 4
    [] Rows[r].kind = "delete" -> 2
    [] OTHER -> 1

Ordered(rows) ==
  LET of(k) == AtPositions([r \in DOMAIN Rows |-> r], {r \in rows : Turn(r) = k})
  IN of(1) \o of(2) \o of(3) \o of(4)

Count ==
  /\ pc = "count"
  /\ \E hidden \in SUBSET {r \in DOMAIN Rows : Rows[r].kind = "plain"} :
       LET class == [r \in DOMAIN Rows |-> Class(r, hidden)] IN
       /\ shown' = SelectSeq(shown, LAMBDA r : r \notin hidden)
       /\ plan' = Ordered({r \in DOMAIN Rows : class[r] = "plan"})
       /\ here' = [b \in DOMAIN Zero |->
                     IF b = "tree" THEN Len(Rows)
                     ELSE Cardinality({r \in DOMAIN Rows : class[r] = b})]
  /\ done' = [n \in Names |-> 0]
  /\ pressed' = [r \in DOMAIN Rows |-> 0]
  /\ pc' = "next"
  /\ UNCHANGED <<back, front, fresh, dialog, at, total, trapped>>

-----------------------------------------------------------------------------
(* Pressing the plan.                                                      *)

Next1 == Head(plan)

\* By its id while that is on screen, otherwise the nth of its name.
Found ==
  LET same == SelectSeq(shown, LAMBDA r : Name(r) = Name(Next1))
      nth == done[Name(Next1)] + 1
  IN IF ~fresh /\ Next1 \in Range(shown) THEN {Next1}
     ELSE IF nth <= Len(same) THEN {same[nth]} ELSE {}

Charge(b) ==
  /\ here' = Add(here, b, 1) /\ plan' = Tail(plan)
  /\ UNCHANGED <<at, total, pressed, trapped>>

\* The surface is reopened only when it has been left.
Return ==
  /\ pc = "next" /\ plan # <<>>
  /\ pc' = IF front THEN "planned" ELSE "look"
  /\ back' = "planned"
  /\ UNCHANGED <<tree, covering>>

CannotReturn ==
  /\ pc = "lost"
  /\ Charge("vanished") /\ pc' = "next"
  /\ UNCHANGED <<back, tree, done>>

Vanished ==
  /\ pc = "planned" /\ Found = {}
  /\ Charge("vanished") /\ pc' = "next"
  /\ UNCHANGED <<back, tree, done>>

\* A found control that is disabled is charged as vanished too.
Disabled ==
  /\ pc = "planned" /\ Found # {}
  /\ done' = [done EXCEPT ![Name(Next1)] = @ + 1]
  /\ Charge("vanished") /\ pc' = "next"
  /\ UNCHANGED <<back, tree>>

\* What a control does to the page: it re-renders the rows in some order, it
\* removes or hides rows, it leaves the surface or it opens a dialog.
Acts(r) ==
  \/ UNCHANGED tree
  \/ /\ Rows[r].kind \in {"plain", "delete", "fold"}
     /\ fresh' = TRUE
     /\ shown' \in
          CASE Rows[r].kind = "plain" ->
                 {shown, Append(SelectSeq(shown, LAMBDA x : x # r), r)}
            [] Rows[r].kind = "delete" -> {SelectSeq(shown, LAMBDA x : x # r)}
            [] OTHER -> {SelectSeq(shown, LAMBDA x : x = r)}
     /\ UNCHANGED <<front, dialog>>
  \/ /\ Rows[r].kind \in {"plain", "close"} /\ front' = FALSE
     /\ UNCHANGED <<shown, fresh, dialog>>
  \/ /\ Rows[r].kind = "dialog"
     /\ \E i, w \in 0..MaxInner :
          dialog' = [open |-> TRUE, inner |-> i, ways |-> w]
     /\ UNCHANGED <<front, shown, fresh>>

Press ==
  /\ pc = "planned"
  /\ \E r \in Found :
       /\ Acts(r)
       /\ pressed' = [pressed EXCEPT ![r] = @ + 1]
  /\ done' = [done EXCEPT ![Name(Next1)] = @ + 1]
  /\ here' = Add(here, "swept", 1) /\ plan' = Tail(plan)
  /\ pc' = IF dialog'.open THEN "inner" ELSE "next"
  /\ UNCHANGED <<back, at, total, trapped>>

\* A failed or overdue activation stops the whole sweep.
Bail == pc = "planned" /\ Found # {} /\ Goto("failed")

-----------------------------------------------------------------------------
(* Inside a dialog: its own controls, then its ways out, then Escape.      *)

Reveal(p, d) ==
  /\ here' = Add(here, "revealed", 1) /\ dialog' = d
  /\ pc' = IF d.open THEN p ELSE "next"
  /\ UNCHANGED <<back, front, shown, fresh, at, plan, done, total, pressed, trapped>>

\* A dialog's control may close it; one that is gone or refuses is passed.
PressInner ==
  /\ pc = "inner" /\ dialog.inner > 0
  /\ LET rest == [dialog EXCEPT !.inner = @ - 1] IN
     \/ \E d \in {rest, Closed} : Reveal("inner", d)
     \/ /\ dialog' = rest
        /\ UNCHANGED <<pc, back, front, shown, fresh, covering>>

Dismiss ==
  /\ pc = "inner" /\ dialog.inner = 0 /\ dialog.ways > 0
  /\ LET rest == [dialog EXCEPT !.ways = @ - 1] IN
     \/ \E d \in {rest, Closed} : Reveal("inner", d)
     \/ /\ dialog' = rest
        /\ UNCHANGED <<pc, back, front, shown, fresh, covering>>

Escape ==
  /\ pc = "inner" /\ dialog.inner = 0 /\ dialog.ways = 0
  /\ \E d \in {dialog, Closed} :
       dialog' = d /\ pc' = IF d.open THEN "trapped" ELSE "next"
  /\ UNCHANGED <<back, front, shown, fresh, covering>>

\* The rest of the surface is unreachable behind a dialog nobody can close.
Trapped ==
  /\ pc = "trapped"
  /\ here' = Add(here, "blocked", Len(plan)) /\ plan' = <<>> /\ pc' = "next"
  /\ trapped' = TRUE
  /\ UNCHANGED <<back, tree, at, done, total, pressed>>

-----------------------------------------------------------------------------
(* The end of a surface.                                                   *)

Leave(counts) ==
  /\ total' = Sums(total, counts)
  /\ IF at < Len(Surfaces)
     THEN at' = at + 1 /\ pc' = "look" /\ front' = FALSE
     ELSE at' = at /\ pc' = "done" /\ front' = front
  /\ back' = "expand" /\ here' = Zero
  /\ UNCHANGED <<shown, fresh, dialog, plan, done, pressed, trapped>>

SurfaceDone == pc = "next" /\ plan = <<>> /\ Leave(here)
Skip == pc = "skip" /\ Leave(Zero)

Next ==
  \/ Look \/ FindOpener \/ DoubleClick \/ ClickPath \/ Settle
  \/ Expand \/ Materialize \/ Count
  \/ Return \/ CannotReturn \/ Vanished \/ Disabled \/ Press \/ Bail
  \/ PressInner \/ Dismiss \/ Escape \/ Trapped
  \/ SurfaceDone \/ Skip \/ Fails

Spec == Init /\ [][Next]_vars

-----------------------------------------------------------------------------
(* Every button a surface was counted with, and every button a dialog      *)
(* brought, is in exactly one bucket or still in the plan, at every step;  *)
(* so a finished surface and the run's total are accounted for             *)
(* (Coverage::accounted, run_cover).                                       *)
EveryButtonInABucket ==
  /\ Accounted(Add(here, "vanished", Len(plan)))
  /\ Accounted(total)

(* After a control opened a dialog the sweep goes on only when the dialog  *)
(* was seen closed, or was proved a trap and the surface given up          *)
(* (sweep_modal).                                                          *)
DialogIsOver == pc \in {"next", "planned"} /\ dialog.open => trapped

-----------------------------------------------------------------------------
(* What holds them up.                                                     *)

Reaching == {"look", "opener", "double", "settle", "path", "again", "resettle"}
Planning == {"next", "planned", "lost"}
Dialogue == {"inner", "trapped"}
Steps == Reaching \cup Planning \cup Dialogue
           \cup {"skip", "expand", "materialize", "count", "done", "failed"}

TypeOK ==
  /\ pc \in Steps /\ back \in {"expand", "materialize", "planned"}
  /\ at \in DOMAIN Surfaces /\ front \in BOOLEAN
  /\ dialog \in [open : BOOLEAN, inner : Nat, ways : Nat]
  /\ here \in [Buckets \cup {"tree"} -> Nat] /\ total \in [Buckets \cup {"tree"} -> Nat]
  /\ plan \in Seq(Nat) /\ trapped \in BOOLEAN

\* A surface has no buckets and no plan before it is counted: it is then
\* that it may be skipped.
NothingBeforeTheCount ==
  pc \in {"skip", "expand", "materialize", "count"} \/ (pc \in Reaching /\ back # "planned")
    => here = Zero /\ plan = <<>>

\* Whoever returns to a surface has a control of it to press.
SomethingIsPlanned ==
  (pc \in {"planned", "lost"} \/ (pc \in Reaching /\ back = "planned")) => plan # <<>>

\* A dialog is left only closed, or as a trap.
DialogIsHeld == dialog.open /\ ~trapped => pc \in Dialogue \cup {"failed"}

CoverInv ==
  /\ TypeOK /\ NothingBeforeTheCount /\ SomethingIsPlanned /\ DialogIsHeld
  /\ EveryButtonInABucket

=============================================================================
