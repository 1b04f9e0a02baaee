---------------------------- MODULE HarnessValues ----------------------------
(***************************************************************************)
(* What the modules of the harness are run on: the shapes of checks, the   *)
(* pages, plans, hosts, files and reports of MCHarness.                    *)
(***************************************************************************)
EXTENDS Shapes, SecretForms, Invocations, Integers, SequencesExt

(* CheckRun: one shape for every step that a declared check may have.      *)
Bare == [navigate |-> FALSE, open |-> "no", setup |-> FALSE, exposed |-> "here",
         hover |-> 0, unless |-> FALSE, prepare |-> FALSE, until |-> FALSE,
         linger |-> FALSE, reveal |-> FALSE, expect |-> "differs", acts |-> <<"click">>]

CheckShapes == {
  [Bare EXCEPT !.navigate = TRUE, !.setup = TRUE, !.acts = <<"text", "click">>],
  [Bare EXCEPT !.open = "document", !.exposed = "collapsed", !.acts = <<"key">>],
  [Bare EXCEPT !.open = "surface", !.exposed = "deferred", !.prepare = TRUE,
               !.until = TRUE],
  [Bare EXCEPT !.hover = 1, !.prepare = TRUE, !.acts = <<"press">>],
  [Bare EXCEPT !.hover = 2, !.unless = TRUE, !.expect = "paints"],
  [Bare EXCEPT !.prepare = TRUE, !.unless = TRUE, !.acts = <<"drag", "keys">>],
  [Bare EXCEPT !.prepare = TRUE, !.linger = TRUE, !.expect = "hold", !.acts = <<>>],
  [Bare EXCEPT !.linger = TRUE, !.expect = "live", !.acts = <<"scroll">>],
  [Bare EXCEPT !.expect = "change", !.reveal = TRUE]}

(* Cover: three surfaces, with rows of one name, dialogs, and every kind   *)
(* of control that is counted and not pressed.                             *)
Row(n, k) == [name |-> n, kind |-> k]

CoverSurfaces ==
  << [opener |-> "named",
      rows |-> <<Row("row", "plain"), Row("row", "plain"), Row("menu", "dialog"),
                 Row("trash", "delete"), Row("home", "navigation")>>],
     [opener |-> "document",
      rows |-> <<Row("fold", "fold"), Row("row", "plain"), Row("row", "close"),
                 Row("file", "manual"), Row("wipe", "isolated"), Row("row", "declared")>>],
     [opener |-> "none", rows |-> <<Row("row", "plain")>>] >>

(* Sweep: buttons of one name, a disclosure between them, a radio choice,  *)
(* and a control below the fold.                                           *)
Button(n, verb, subject) ==
  [who |-> n, id |-> n, name |-> [verb |-> verb, subject |-> subject, letters |-> "title"],
   group |-> 0, visible |-> TRUE, enabled |-> TRUE, selected |-> FALSE, box |-> TRUE, place |-> 1]

StartPages ==
  {<<Button(1, "expand", "a"), Button(2, "expand", "a"), Button(3, "delete", "b")>>,
   <<Button(1, "other", "a"), Button(2, "other", "a"), [Button(3, "add", "b") EXCEPT !.group = 1]>>,
   <<[Button(1, "other", "a") EXCEPT !.selected = TRUE], Button(2, "copy", "a"),
     [Button(4, "copy", "c") EXCEPT !.place = 2]>>,
   <<Button(1, "collapse", "a"), Button(2, "inert", "b")>>,
   <<Button(1, "other", "a"), [Button(2, "other", "a") EXCEPT !.name.letters = "lower"]>>}

(* GpuOutcome: reports whose words, resources, passes and errors differ.   *)
Word(n) == [u8 |-> <<<<n>>, <<0>>, <<0>>, <<0>>>>, u32 |-> <<n>>, i32 |-> <<n>>,
            f32 |-> IF n = 3 THEN None ELSE <<n>>]
Buffer(size, submit, words) ==
  [label |-> "b", size |-> size, usage |-> 1, offset |-> 4, submit |-> submit, words |-> words]
Pass(label, canvas, draws) ==
  [targets |-> {[canvas |-> canvas, label |-> label]}, draws |-> draws]
Calm == [errors |-> 0, resources |-> {}, frame |-> None, buffer |-> None]

GpuStates ==
  {Calm,
   [Calm EXCEPT !.buffer = <<Buffer(8, 0, <<Word(0)>>)>>],
   [Calm EXCEPT !.buffer = <<Buffer(8, 1, <<Word(1)>>)>>,
                !.resources = {[kind |-> "buffer", label |-> <<"s", "x">>]}],
   [Calm EXCEPT !.buffer = <<Buffer(8, 2, <<Word(2)>>)>>, !.errors = 1],
   [Calm EXCEPT !.buffer = <<Buffer(12, 3, <<Word(3)>>)>>,
                !.frame = <<[complete |-> TRUE, passes |-> <<Pass(<<"s">>, TRUE, 1),
                                                             Pass(<<"s", "x">>, FALSE, 1)>>]>>],
   [Calm EXCEPT !.buffer = <<Buffer(4, 3, <<Word(3)>>)>>, !.errors = 1,
                !.frame = <<[complete |-> FALSE, passes |-> <<>>]>>]}

Ask == [expect |-> "GpuNoErrors", subject |-> <<"s", "*">>, kind |-> "buffer", draws |-> 1,
        stable |-> 0, format |-> "f32", offset |-> 4, length |-> 4, min |-> 0, max |-> 1,
        value |-> 1, nonFinite |-> FALSE]

GpuAsked ==
  {Ask, [Ask EXCEPT !.expect = "GpuHasResource", !.stable = 2],
   [Ask EXCEPT !.expect = "GpuDraws", !.draws = 2],
   [Ask EXCEPT !.expect = "GpuDraws", !.subject = <<"s">>],
   [Ask EXCEPT !.expect = "GpuBufferRange", !.stable = 2, !.max = 2],
   [Ask EXCEPT !.expect = "GpuBufferEquals", !.format = "u32", !.value = 2],
   [Ask EXCEPT !.expect = "GpuBufferAtLeast", !.format = "u8"],
   [Ask EXCEPT !.expect = "GpuBufferChanges"],
   [Ask EXCEPT !.expect = "GpuBufferChanges", !.stable = 2]}

GpuLowest == [u8 |-> 0, u32 |-> 0, i32 |-> -2]
GpuLargest == [u8 |-> 3, u32 |-> 7, i32 |-> 3]

(* HostProcesses: a component that is not built, a manifest that cannot be *)
(* read, and hosts that write a descriptor inside, outside or not at all.  *)
Of(built, checks, mode) == [built |-> built, checks |-> checks, mode |-> mode]

HostSweeps ==
  {<<Of(TRUE, <<2>>, "isolated"), Of(FALSE, <<1>>, "isolated"), Of(TRUE, None, "isolated")>>,
   <<Of(TRUE, <<0>>, "sweep"), Of(TRUE, <<3>>, "sweep")>>,
   <<Of(TRUE, <<1>>, "plan"), Of(TRUE, <<2>>, "plan")>>}

HostScripts == {<<"log", "inside", "log">>, <<"missing", "outside">>, <<"log">>}

(* Condense: two pages, one with a node that is not seen.                  *)
NodeOf(id, parent, role, name, value, visible) ==
  [id |-> id, parent |-> parent, role |-> role, name |-> name, value |-> value,
   visible |-> visible]

CondenseLength == (1 :> 3) @@ (2 :> 4) @@ (3 :> 2) @@ (4 :> 3)
CondenseRoleLength == [h1 |-> 2, p |-> 1, link |-> 4]
CondensePages ==
  << << NodeOf(1, 0, "h1", <<1, 2>>, << >>, TRUE),
        NodeOf(2, 1, "p", <<2, 3, 4>>, <<1>>, TRUE),
        NodeOf(3, 1, "link", <<1, 1, 1>>, << >>, FALSE) >>,
     << NodeOf(5, 9, "p", <<1>>, << >>, FALSE),
        NodeOf(6, 5, "link", <<3>>, <<2>>, TRUE),
        NodeOf(7, 6, "p", << >>, << >>, TRUE),
        NodeOf(8, 5, "h1", <<2>>, <<2>>, TRUE) >> >>
CondenseLoads ==
  {[page |-> CondensePages[1], preview |-> 1, sentences |-> 1, keywords |-> 1],
   [page |-> CondensePages[2], preview |-> 2, sentences |-> 2, keywords |-> 9]}

(* SecretForms and GuardedWriter: a key with a character that forms are    *)
(* made of, stored values, and texts that are harmless alone.              *)
Chars(s) == [i \in DOMAIN s |-> <<s[i]>>]
Key == Chars(<<"a", "/">>)

GuardEnv ==
  << [name |-> "APP_KEY", kind |-> "marker", value |-> Chars(<<"c", " ">>), entries |-> << >>],
     [name |-> "HOME", kind |-> "plain", value |-> Chars(<<"a", "b">>), entries |-> << >>],
     [name |-> "QA_INSPECT_STORAGE", kind |-> "storage", value |-> << >>,
      entries |-> << << Chars(<<"a">>), Chars(<<"b", "e">>) >> >>] >>
GuardReceived == {[name |-> "login", value |-> Key], [name |-> "flag", value |-> Chars(<<"a">>)]}
GuardTexts == {Chars(<<"a">>), Chars(<<"/">>), << <<"%", "/", "lower">> >>}
GuardPaths == {Chars(<<"c", "d">>), Chars(<<"d", "a", "/">>)}
GuardForms == [v \in {Key} \cup {GuardEnv[i].value : i \in DOMAIN GuardEnv}
                       \cup {Chars(<<"a">>), Chars(<<"b", "e">>)} |-> Forms(v)]

(* Plans: one to three accounts, some optional, some the same one, and     *)
(* a plan for every rule that refuses one.                                 *)
Users == <<"user1", "user2", "user3">>
Passes == <<"pass1", "pass2", "pass3">>
PlanCheck == [id |-> "c", group |-> "g", setupSecret |-> None, subjectSecret |-> None, setupText |-> None, text |-> None,
            setupEnv |-> None, subjectEnv |-> None, subject |-> "row", anyOf |-> {}]
PlanSuite(checks) == [selector |-> "g", checks |-> checks, path |-> "inside"]
Variable(id, name, kind, suffix) == [id |-> id, name |-> name, kind |-> kind, default |-> None, format |-> None, suffix |-> suffix]
Secrets(n) == FlattenSeq([i \in 1..n |-> <<Variable(Users[i], Users[i], "Secret", "USERNAME"), Variable(Passes[i], Passes[i], "Secret", "PASSWORD")>>])
Regular == [optional |-> FALSE, alias |-> FALSE, group |-> None]
SessionKinds == {Regular, [Regular EXCEPT !.group = <<"team">>], [Regular EXCEPT !.optional = TRUE, !.alias = TRUE]}
SessionOf(i, kind) ==
  [id |-> Users[i], landing |-> "home", optional |-> kind.optional, skipOnAlias |-> kind.alias, group |-> kind.group,
   username |-> Users[i], password |-> Passes[i],
   suites |-> <<PlanSuite(<<PlanCheck, [PlanCheck EXCEPT !.subjectEnv = <<"title">>]>>)>>]
PlanLogin == <<PlanSuite(<<[PlanCheck EXCEPT !.setupSecret = <<"username">>], [PlanCheck EXCEPT !.setupSecret = <<"password">>]>>)>>
PlanGuest == [id |-> "guest", profile |-> "inside", suites |-> <<PlanSuite(<<PlanCheck>>)>>, inventory |-> None]
PlanTour == [PlanGuest EXCEPT !.id = "tour", !.suites = <<>>, !.inventory = <<[checks |-> <<PlanCheck>>, outcomes |-> TRUE, path |-> "inside"]>>]
PlanOf(sessions) ==
  [version |-> 1, startup |-> 45, host |-> "host", page |-> "page", guests |-> <<PlanGuest, PlanTour>>, sessions |-> sessions,
   environment |-> <<Variable("host", "CHUZZ_HEADLESS_BIN", "Host", ""), Variable("page", "QA_SITE_URL", "Page", ""),
                     [Variable("title", "TITLE", "Assertion", "") EXCEPT !.format = <<"Text">>, !.default = <<"t">>]>> \o Secrets(Len(sessions)),
   login |-> PlanLogin]
TwoSessions == {PlanOf(<<SessionOf(1, a), SessionOf(2, b)>>) : a \in SessionKinds, b \in SessionKinds}
OneSession == PlanOf(<<SessionOf(1, Regular)>>)
PlanRunPlans ==
  TwoSessions \cup {PlanOf(<<SessionOf(1, a), SessionOf(2, b), SessionOf(3, Regular)>>) : a \in SessionKinds, b \in SessionKinds}
  \cup {[OneSession EXCEPT !.version = 2], [OneSession EXCEPT !.startup = 0], [OneSession EXCEPT !.login = None], [OneSession EXCEPT !.guests = <<PlanGuest, PlanGuest>>],
        [OneSession EXCEPT !.guests[1].inventory = PlanTour.inventory], [OneSession EXCEPT !.guests[1].profile = "outside"],
        [OneSession EXCEPT !.sessions[1].password = "user1"], [OneSession EXCEPT !.login[1].checks[1].text = <<"x">>],
        [OneSession EXCEPT !.sessions[1].suites[1].checks[1].setupSecret = <<"password">>],
        [OneSession EXCEPT !.sessions[1].suites[1].checks[1].subject = "ann"],
        [OneSession EXCEPT !.guests[2].inventory[1].checks[1].subjectSecret = <<"username">>],
        [OneSession EXCEPT !.sessions[1].suites[1].selector = "none"]}
Accounts == {<<"", "">>, <<"ann", "x">>, <<"bob", "y">>}
PlanEnvironments ==
  {[v \in {"CHUZZ_HEADLESS_BIN", "QA_SITE_URL"} |-> IF v = "QA_SITE_URL" THEN "site" ELSE "file"]
     @@ [k \in Range(Users) |-> a[CHOOSE i \in 1..3 : Users[i] = k][1]] @@ [k \in Range(Passes) |-> a[CHOOSE i \in 1..3 : Passes[i] = k][2]] :
     a \in {<<a1, a2, <<"ann", "x">>>> : a1 \in Accounts, a2 \in Accounts}}
  \cup {[v \in {"CHUZZ_HEADLESS_BIN", "QA_SITE_URL"} |-> "bad"]}

(* Aim: one window with a header, a main area that holds the surface, and  *)
(* at times a dialog over it; controls of one name in several of them.     *)
ByName(words) == [form |-> "name", key |-> "", pattern |-> [lead |-> FALSE, trail |-> FALSE, words |-> words],
                 whole |-> [lead |-> FALSE, trail |-> FALSE, words |-> words], attr |-> None]
Nowhere == [ByName(<<>>) EXCEPT !.form = "empty"]

AimProfile ==
  [permanent |-> {<<"Home">>}, navigation |-> {}, closes |-> {<<"Close", "tab">>}, manual |-> {}, inert |-> {},
   isolated |-> {}, sections |-> {}, rowActions |-> {<<"Delete">>}, markers |-> <<>>, dismiss |-> <<<<"Cancel">>>>,
   expands |-> {}, surfaces |-> <<[opener |-> <<"Home">>, marker |-> ByName(<<"Send">>), root |-> Nowhere]>>]

Element(id, parent, role, name, box) ==
  [Node EXCEPT !.id = id, !.parent = parent, !.role = role, !.name = name, !.box = box]

(* The page with its controls at the given heights; the dialog and its     *)
(* Send are left out with depth None.                                      *)
Screen(depth, height, shown, notice, viewport) ==
  LET send == [Element(4, 3, "button", <<"Send">>, <<10, height, 20, 10>>) EXCEPT !.visible = shown]
      base == <<Element(1, 0, "window", <<>>, <<0, 0, 100, 100>>), Element(2, 1, "main", <<>>, <<0, 20, 100, 80>>),
                Element(3, 2, "generic", <<>>, <<0, 20, 100, 80>>), send,
                [Element(5, 3, "button", <<"Send", "now">>, <<40, 40, 30, 10>>) EXCEPT !.visible = shown],
                [Element(6, 3, "button", <<"Notice">>, <<40, notice, 30, 10>>) EXCEPT !.fixed = TRUE]>>
      dialog == <<Element(7, 1, "dialog", <<>>, <<20, 30, 60, 60>>), Element(8, 7, "button", <<"Cancel">>, <<25, 70, 20, 10>>),
                  Element(9, 7, "button", <<"Send">>, <<50, depth, 20, 10>>)>>
  IN  [nodes |-> IF depth = 0 THEN base ELSE base \o dialog, viewport |-> viewport]

AimTrees ==
  {Screen(0, 30, TRUE, 50, None), Screen(0, 120, TRUE, 50, None), Screen(0, -30, TRUE, 50, <<0, 0, 100, 100>>),
   Screen(0, 30, FALSE, 5, <<0, 0, 100, 100>>), Screen(75, 30, TRUE, 50, None), Screen(140, 30, TRUE, 5, <<0, 0, 100, 100>>),
   Screen(75, 120, FALSE, 50, None), Screen(140, 120, TRUE, 50, None)}

AimWants == {ByName(<<"Send">>), ByName(<<"now">>), ByName(<<"Notice">>),
            [ByName(<<"main:*">>) EXCEPT !.form = "role", !.key = "main", !.pattern.words = <<>>, !.pattern.lead = TRUE]}

(* Inventory: one surface under <main>, its ordinary controls and one that *)
(* is wrong in some way, in the pane or beside it; checks that name them   *)
(* exactly, by part, or by id.                                             *)
InventoryProfile ==
  [AimProfile EXCEPT !.navigation = {<<"Away">>}, !.manual = {<<"Upload">>}, !.isolated = {<<"Quit">>},
                     !.sections = {<<"Recent">>}, !.markers = <<<<"pages">>>>]
    @@ [folds |-> {<<"Collapse">>}, deferred |-> {<<"New">>}]

InventorySurface == [opener |-> <<"Home">>, marker |-> ByName(<<"Save">>), root |-> ByName(<<"stock">>)]

Control(id, name) == [Element(id, 3, "button", name, <<10, 30, 20, 10>>) EXCEPT !.domId = ToString(id)]
InventoryPage(odd) ==
  <<Element(1, 0, "window", <<>>, <<0, 0, 100, 100>>), Element(2, 1, "main", <<>>, <<0, 20, 100, 80>>),
    [Element(3, 2, "generic", <<"stock">>, <<0, 20, 100, 80>>) EXCEPT !.domId = "stock"],
    Control(4, <<"Save">>), Control(5, <<"Save", "all">>), Control(6, <<"Upload", "logo">>), Control(7, <<"Quit">>),
    Control(8, <<"Delete", "Report", "3", "pages">>), Control(9, <<"Report", "3", "pages">>), Control(10, <<"Recent", "3">>),
    Control(11, <<"Close", "tab">>), Control(12, <<"Tab", "Tab">>), Control(13, <<"Collapse">>), Control(14, <<"Quit", "later">>), odd>>

Odd == Control(15, <<"Odd">>)
(* The root of the inventory is all of <main>, the odd one beside the pane. *)
Beside(odd) ==
  [InventoryPage([odd EXCEPT !.parent = 2]) EXCEPT ![2].name = <<"stock">>, ![2].domId = "stock",
                                                   ![3].name = <<>>, ![3].domId = "3"]
InventoryPages ==
  {Beside(Odd), Beside([Odd EXCEPT !.visible = FALSE])} \cup
  {InventoryPage(odd) : odd \in
     {Odd, [Odd EXCEPT !.domId = ""], [Odd EXCEPT !.domId = "cl-1"], [Odd EXCEPT !.domId = "4"],
      [Odd EXCEPT !.name = <<>>], [Odd EXCEPT !.visible = FALSE], [Odd EXCEPT !.box = None],
      [Odd EXCEPT !.enabled = FALSE], [Odd EXCEPT !.enabled = FALSE, !.visible = FALSE],
      [Odd EXCEPT !.role = "generic", !.name = <<"stock">>]}}

Proof(id, driven) == [id |-> id, driven |-> driven, covers |-> {}, expect |-> "Present", subject |-> Nowhere]
Glob(words) == [ByName(words) EXCEPT !.whole.trail = TRUE]
Everything == [Proof("all", {}) EXCEPT !.covers = {Glob(<<>>)}]
InventoryChecks ==
  {{}, {Everything}, {Proof("save", {ByName(<<"Save">>)})}, {Proof("odd", {ByName(<<"Odd">>)}), Proof("glob", {Glob(<<"Save">>)})},
   {[Proof("dead", {}) EXCEPT !.expect = "Disabled", !.subject = ByName(<<"Odd">>)]},
   {Everything, [Proof("value", {}) EXCEPT !.expect = "ValueChanges", !.subject = ByName(<<"Odd">>)]}}

(* Checks: four checks of two files in every combination that matters to   *)
(* inheritance, and one check for every rule.                              *)
Simple == [Blank EXCEPT !.subject = "row", !.group = "g"]
Variants == {Simple, [Simple EXCEPT !.open = <<"tab">>], [Simple EXCEPT !.navigate = <<"site">>],
               [Simple EXCEPT !.destructive = TRUE, !.group = "h"]}
LoadBuffer == [named |-> TRUE, fits |-> TRUE, min |-> 0, max |-> 1, offset |-> 4, length |-> 4]
LoadDrag == [from |-> "row", to |-> <<"tab">>, dx |-> 0, dy |-> 0]

\* One check for every rule, and one bound to a plan or a session.
Alone == {
  [Simple EXCEPT !.stable = 900], [Simple EXCEPT !.stable = 900, !.timeout = 1000],
  [Simple EXCEPT !.expect = "Vanishes", !.prepare = <<"tab">>, !.prepareKey = <<"esc">>, !.prepareUnless = <<"row">>],
  [Simple EXCEPT !.prepareWait = 5, !.prepare = <<"tab">>],
  [Simple EXCEPT !.setupInto = <<"row">>], [Simple EXCEPT !.setupText = <<"x">>],
  [Simple EXCEPT !.anyOf = << <<>> >>, !.subject = ""],
  [Simple EXCEPT !.arrival = <<"">>], [Simple EXCEPT !.navigate = <<"site">>, !.expect = "Absent"],
  [Simple EXCEPT !.navigate = <<"site">>, !.expect = "Absent", !.click = <<"tab">>],
  [Simple EXCEPT !.expect = "ValueChanges", !.setupInto = <<"row">>, !.setupText = <<"x">>],
  [Simple EXCEPT !.scrollOver = <<"row">>], [Simple EXCEPT !.drag = <<LoadDrag>>],
  [Simple EXCEPT !.drag = <<[LoadDrag EXCEPT !.dx = 1]>>],
  [Simple EXCEPT !.textSized = TRUE], [Simple EXCEPT !.buffer = <<LoadBuffer>>, !.subject = "label:b"],
  [Simple EXCEPT !.buffer = <<[LoadBuffer EXCEPT !.length = 4096]>>, !.subject = "label:b"],
  [Simple EXCEPT !.expect = "GpuHasResource"], [Simple EXCEPT !.expect = "Count"],
  [Simple EXCEPT !.value = <<"x">>], [Simple EXCEPT !.subject = "div.row"],
  [Simple EXCEPT !.subjectEnv = <<"title">>, !.subjectSecret = <<"user">>],
  [Simple EXCEPT !.subjectEnv = <<"title">>], [Simple EXCEPT !.subjectEnv = <<"other">>],
  [Simple EXCEPT !.subjectSecret = <<"user">>, !.subject = ""],
  [Simple EXCEPT !.setupInto = <<"row">>, !.setupSecret = <<"user">>],
  [Simple EXCEPT !.setupInto = <<"row">>, !.setupEnv = <<"title">>]}

LoadSupplied == {None, <<[title |-> "div.row"]>>}
LoadCredentials == {None, <<[user |-> "ann"]>>}

WithId(check, id) == [check EXCEPT !.id = id]
LoadManifests ==
  {<< <<WithId(a, "a1"), WithId(b, "a2")>>, <<WithId(c, "b1"), WithId(d, "b2")>> >> :
     a \in Variants, b \in Variants, c \in Variants, d \in Variants}
  \cup {<< <<WithId(c, "a1")>> >> : c \in Alone}
  \cup {<< <<WithId(Simple, "a1")>>, <<>>, <<WithId(Simple, "a1")>> >>}
===============================================================================
