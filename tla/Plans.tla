-------------------------------- MODULE Plans -------------------------------
(***************************************************************************)
(* A run plan: what it may declare (RunPlan::validate), which accounts its *)
(* sessions get from the environment (resolve), what is refused before any *)
(* host starts (preflight_plan), and the guest and signed-in invocations   *)
(* it then drives, each on a host of its own that is replaced when a check *)
(* loses its page (run_plan, run_plan_host).                               *)
(***************************************************************************)
EXTENDS Integers, Sequences, FiniteSets, Functions, Positions

CONSTANTS
  RunPlans,     \* the plans considered
  Environments, \* the environments: [variable -> value], absent when unset
  MaxLosses     \* bound: how often a check loses its page

(* A plan lists finitely many sessions.                                    *)
PlansAreWellFormed == \A p \in RunPlans : Len(p.sessions) \in Nat

VARIABLES
  phase,        \* "load", "resolve", "preflight", then where the run is, or "refused" or "over"
  plan, env,
  accounts,     \* by session: None, or <<[username, password]>>
  skipped,      \* by session: None, or <<why it is not run>>
  who,          \* the invocation driven: <<"guest" or "session", index>>
  left,         \* its checks still to run
  signedIn,     \* the account the page of the standing host is signed in to
  losses,
  failed,
  ran           \* the checks driven after a login: [session, signedIn]

runVars == <<who, left, signedIn, losses, failed, ran>>
vars == <<phase, plan, env, accounts, skipped, runVars>>

None == <<>>
Sessions == 1..Len(plan.sessions)

(******************************* validation ********************************)

(* Names are what matters of them: "bad" stands for a name, a location or  *)
(* a value that its format refuses.                                        *)
Valid(text) == text # "bad"
ValidDefault(binding) == binding.default = None \/ Valid(binding.default[1])

BindingAllowed(b) ==
  /\ Valid(b.id) /\ Valid(b.name)
  /\ \/ b.kind = "Host" /\ b.name = "CHUZZ_HEADLESS_BIN" /\ b.default = None /\ b.format = None
     \/ b.kind = "Page" /\ b.name = "QA_SITE_URL" /\ b.format = None /\ ValidDefault(b)
     \/ b.kind = "Secret" /\ b.default = None /\ b.format = None
     \/ b.kind = "Assertion" /\ b.format # None /\ ValidDefault(b)

OfKind(p, kind) == {i \in DOMAIN p.environment : p.environment[i].kind = kind}
Binding(p, id) == CHOOSE b \in Range(p.environment) : b.id = id
Requires(p, id, kind) == \E i \in OfKind(p, kind) : p.environment[i].id = id

BindingsAllowed(p) ==
  /\ \A b \in Range(p.environment) : BindingAllowed(b)
  /\ \A i, j \in DOMAIN p.environment : i # j =>
       p.environment[i].id # p.environment[j].id /\ p.environment[i].name # p.environment[j].name
  /\ Cardinality(OfKind(p, "Host")) = 1 /\ Cardinality(OfKind(p, "Page")) = 1
  /\ Requires(p, p.host, "Host") /\ Requires(p, p.page, "Page")

SuiteAllowed(suite) == suite.selector # "" /\ suite.checks # <<>>
SuitesAllowed(suites) == suites # <<>> /\ \A i \in DOMAIN suites : SuiteAllowed(suites[i])

(* A guest runs suites or one strict inventory, never both.                *)
GuestAllowed(guest) ==
  /\ Valid(guest.id) /\ guest.profile # ""
  /\ (guest.suites # <<>>) # (guest.inventory # None)
  /\ guest.suites # <<>> => SuitesAllowed(guest.suites)
  /\ guest.inventory # None => guest.inventory[1].checks # <<>> /\ guest.inventory[1].outcomes

SessionAllowed(p, session) ==
  /\ Valid(session.id) /\ session.landing # ""
  /\ session.skipOnAlias => session.optional
  /\ session.group = None \/ Valid(session.group[1])
  /\ Requires(p, session.username, "Secret") /\ Requires(p, session.password, "Secret")
  /\ Binding(p, session.username).suffix = "USERNAME" /\ Binding(p, session.password).suffix = "PASSWORD"
  /\ SuitesAllowed(session.suites)

ValidPlan(p) ==
  LET runs == [i \in DOMAIN p.guests |-> p.guests[i].id] \o [i \in DOMAIN p.sessions |-> p.sessions[i].id]
      used == UNION {{s.username, s.password} : s \in Range(p.sessions)}
  IN  /\ p.version = 1 /\ p.startup \in 1..300
      /\ BindingsAllowed(p)
      /\ p.login # None => SuiteAllowed(p.login[1])
      /\ runs # <<>> /\ Cardinality(Range(runs)) = Len(runs)
      /\ \A g \in Range(p.guests) : GuestAllowed(g)
      /\ (p.sessions # <<>>) = (p.login # None)
      /\ \A s \in Range(p.sessions) : SessionAllowed(p, s)
      /\ {p.environment[i].id : i \in OfKind(p, "Secret")} \subseteq used

(* Every path of a plan is a file below the directory of the plan.         *)
Contained(p) ==
  LET profiles == {g.profile : g \in Range(p.guests)}
      of(suites) == UNION {{s.path} : s \in Range(suites)}
      paths == of(p.login) \cup UNION {of(g.suites) : g \in Range(p.guests)}
               \cup UNION {of(s.suites) : s \in Range(p.sessions)}
               \cup UNION {of(g.inventory) : g \in Range(p.guests)}
  IN  \A path \in profiles \cup paths : path = "inside"

Init ==
  /\ plan \in RunPlans /\ env \in Environments
  /\ phase = "load" /\ accounts = <<>> /\ skipped = <<>>
  /\ who = None /\ left = <<>> /\ signedIn = None /\ losses = 0 /\ failed = 0 /\ ran = <<>>

Load ==
  /\ phase = "load"
  /\ phase' = IF ValidPlan(plan) /\ Contained(plan) THEN "resolve" ELSE "refused"
  /\ UNCHANGED <<plan, env, accounts, skipped, runVars>>

(****************************** resolution *********************************)

(* A variable that is unset or blank has no value.                         *)
Set(id) == LET name == Binding(plan, id).name IN name \in DOMAIN env /\ env[name] # ""
Value(id) == env[Binding(plan, id).name]

Supplied(i) == {f \in {"username", "password"} : Set(plan.sessions[i][f])}
Configured(i) == Supplied(i) = {"username", "password"}
Account(i) ==
  IF Configured(i)
  THEN <<[username |-> Value(plan.sessions[i].username), password |-> Value(plan.sessions[i].password)]>>
  ELSE None

(* Half a credential is an error, none is one unless the session is        *)
(* optional.                                                               *)
AccountsSupplied ==
  \A i \in Sessions : Configured(i) \/ (plan.sessions[i].optional /\ Supplied(i) = {})

GroupsAgree ==
  \A i, j \in Sessions :
    (Configured(i) /\ Configured(j) /\ plan.sessions[i].group # None /\ plan.sessions[i].group = plan.sessions[j].group)
      => Account(i) = Account(j)

Sharing(i) == {j \in Sessions : Configured(j) /\ Account(j)[1].username = Account(i)[1].username}
Protected(i) == {j \in Sharing(i) : ~plan.sessions[j].skipOnAlias}
OneGroup(some) ==
  /\ Cardinality({plan.sessions[j].group : j \in some}) = 1
  /\ \A j \in some : plan.sessions[j].group # None

(* Sessions that share an account say so with one group; a session that    *)
(* steps aside does so for one that does not.                              *)
AliasesAllowed ==
  \A i \in Sessions : (Configured(i) /\ Cardinality(Sharing(i)) > 1) =>
    /\ Cardinality(Protected(i)) > 1 => OneGroup(Protected(i))
    /\ Protected(i) # {}

SkipReason(i) ==
  IF ~Configured(i) THEN <<"credentials">>
  ELSE IF Cardinality(Sharing(i)) > 1 /\ plan.sessions[i].skipOnAlias THEN <<"alias">>
  ELSE None

EnvironmentComplete ==
  /\ Set(plan.host) /\ Value(plan.host) = "file"
  /\ \A i \in OfKind(plan, "Page") \cup OfKind(plan, "Assertion") :
       LET b == plan.environment[i]
       IN  IF Set(b.id) THEN Valid(Value(b.id)) ELSE b.default # None /\ Valid(b.default[1])

Resolve ==
  /\ phase = "resolve"
  /\ IF EnvironmentComplete /\ AccountsSupplied /\ GroupsAgree /\ AliasesAllowed
     THEN /\ accounts' = [i \in Sessions |-> Account(i)]
          /\ skipped' = [i \in Sessions |-> SkipReason(i)]
          /\ phase' = "preflight"
     ELSE phase' = "refused" /\ UNCHANGED <<accounts, skipped>>
  /\ UNCHANGED <<plan, env, runVars>>

(******************************** preflight ********************************)

Selected(suite) == SelectSeq(suite.checks, LAMBDA c : suite.selector \in {c.id, c.group})
Selections(suites) == Joined([k \in DOMAIN suites |-> Selected(suites[k])])
Bound(checks) == UNION {Range(c.subjectEnv) \cup Range(c.setupEnv) : c \in checks}
Secretive(c) == c.setupSecret # None \/ c.subjectSecret # None

LoginEstablishes(checks) ==
  /\ \A input \in {"username", "password"} :
       Cardinality({k \in DOMAIN checks : checks[k].setupSecret = <<input>>}) = 1
  /\ \A c \in Range(checks) : c.setupText = None /\ c.setupEnv = None /\ c.text = None

(* No check but the login types a credential, and none spells one out.     *)
Keeps(c, account) ==
  /\ c.setupSecret = None
  /\ c.subjectSecret # None => account # None
  /\ account # None =>
       LET literals == Range(c.setupText) \cup Range(c.text) \cup c.anyOf \cup
                       IF c.subjectSecret = None THEN {c.subject} ELSE {}
       IN  literals \cap {account[1].username, account[1].password} = {}

Preflight ==
  /\ phase = "preflight"
  /\ LET inventoried == UNION {Range(g.inventory[1].checks) : g \in {h \in Range(plan.guests) : h.inventory # None}}
         login == Selections(plan.login)
         guests == {Selections(g.suites) : g \in Range(plan.guests)}
         suites == {g.suites : g \in Range(plan.guests)} \cup {s.suites : s \in Range(plan.sessions)} \cup {plan.login}
         lists == {login} \cup guests \cup {Selections(s.suites) : s \in Range(plan.sessions)}
         everything == UNION {Range(checks) : checks \in lists} \cup inventoried
         declared == {plan.environment[i].id : i \in OfKind(plan, "Assertion")}
         sound == /\ \A list \in suites : \A k \in DOMAIN list : Selected(list[k]) # <<>>
                  /\ \A c \in inventoried : ~Secretive(c)
                  /\ plan.login # None => LoginEstablishes(login)
                  /\ \A checks \in guests : \A c \in Range(checks) : Keeps(c, None)
                  /\ \A i \in Sessions : \A c \in Range(Selections(plan.sessions[i].suites)) : Keeps(c, accounts[i])
                  /\ Bound(everything) = declared
     IN  phase' = IF sound THEN "next" ELSE "refused"
  /\ who' = <<"guest", 0>>
  /\ UNCHANGED <<plan, env, accounts, skipped, left, signedIn, losses, failed, ran>>

(********************************** the run ********************************)

Following == IF who[1] = "guest" /\ who[2] = Len(plan.guests) THEN <<"session", 1>> ELSE <<who[1], who[2] + 1>>

(* The guests, then the sessions, each on a host that starts signed out;   *)
(* a session that is skipped starts none.                                  *)
NextInvocation ==
  /\ phase = "next"
  /\ who' = Following /\ signedIn' = None
  /\ IF who'[1] = "guest"
     THEN /\ phase' = "suites"
          /\ left' = Selections(plan.guests[who'[2]].suites) \o plan.guests[who'[2]].inventory
     ELSE IF who'[2] > Len(plan.sessions) THEN phase' = "over" /\ left' = <<>>
     ELSE IF skipped[who'[2]] # None THEN phase' = "next" /\ left' = <<>>
     ELSE phase' = "login" /\ left' = Selections(plan.login)
  /\ UNCHANGED <<plan, env, accounts, skipped, losses, failed, ran>>

(* An invocation whose host does not start, or whose run ends in an error, *)
(* is one failure.                                                         *)
InvocationFails ==
  /\ phase \in {"login", "landing", "suites"}
  /\ failed' = failed + 1 /\ phase' = "next"
  /\ UNCHANGED <<plan, env, accounts, skipped, who, left, signedIn, losses, ran>>

(* The checks of the login suite; all of them passing signs the page in.   *)
LoginCheck ==
  /\ phase = "login" /\ left # <<>>
  /\ left' = Tail(left)
  /\ signedIn' = IF left' = <<>> THEN accounts[who[2]] ELSE signedIn
  /\ phase' = IF left' = <<>> THEN "landing" ELSE phase
  /\ UNCHANGED <<plan, env, accounts, skipped, who, losses, failed, ran>>

(* A failed login ends the invocation with its suites not run.             *)
LoginFails ==
  /\ phase \in {"login", "landing"}
  /\ failed' = failed + 1 /\ phase' = "next"
  /\ UNCHANGED <<plan, env, accounts, skipped, who, left, signedIn, losses, ran>>

Landed ==
  /\ phase = "landing"
  /\ phase' = "suites" /\ left' = Selections(plan.sessions[who[2]].suites)
  /\ UNCHANGED <<plan, env, accounts, skipped, who, signedIn, losses, failed, ran>>

RunCheck ==
  /\ phase = "suites" /\ left # <<>>
  /\ left' = Tail(left)
  /\ ran' = IF who[1] = "session" THEN Append(ran, [session |-> who[2], signedIn |-> signedIn]) ELSE ran
  /\ \E bad \in 0..1 : failed' = failed + bad
  /\ UNCHANGED <<phase, plan, env, accounts, skipped, who, signedIn, losses>>

(* A check that loses the page: the host is replaced for the rest of the   *)
(* suite, by one that serves the page from its start.                      *)
LosePage ==
  /\ phase = "suites" /\ Len(left) > 1 /\ who[1] = "session" /\ losses < MaxLosses
  /\ losses' = losses + 1 /\ failed' = failed + 1
  /\ left' = Tail(left) /\ signedIn' = None
  /\ UNCHANGED <<phase, plan, env, accounts, skipped, who, ran>>

EndInvocation ==
  /\ phase = "suites" /\ left = <<>>
  /\ phase' = "next"
  /\ UNCHANGED <<plan, env, accounts, skipped, runVars>>

Next == Load \/ Resolve \/ Preflight \/ NextInvocation \/ InvocationFails \/ LoginCheck \/ LoginFails
        \/ Landed \/ RunCheck \/ LosePage \/ EndInvocation
Spec == Init /\ [][Next]_vars
-----------------------------------------------------------------------------
(* "Optional sessions may be skipped if their username aliases a protected *)
(* session" (plan.rs:84), and sessions that share an account name one      *)
(* group: in a plan that runs, every skipped alias has a session that runs *)
(* in its place, and two sessions of one account that run are one group.   *)
AccountsCovered ==
  (phase = "next" \/ phase = "over") =>
    /\ \A i \in Sessions : skipped[i] = <<"alias">> =>
         \E j \in Sessions : skipped[j] = None /\ accounts[j][1].username = accounts[i][1].username
    /\ \A i, j \in Sessions :
         (i # j /\ skipped[i] = None /\ skipped[j] = None /\ accounts[i][1].username = accounts[j][1].username)
           => plan.sessions[i].group # None /\ plan.sessions[i].group = plan.sessions[j].group

(* "run-plan keeps a signed-in one" (runner.rs:366): a check of a session  *)
(* runs on a page signed in to its account.                                *)
SessionChecksRunSignedIn ==
  \A k \in DOMAIN ran : ran[k].signedIn = accounts[ran[k].session]

-----------------------------------------------------------------------------
(* Why every account is covered: the plan that runs is one that Resolve    *)
(* accepted, and nothing changes an account afterwards.                    *)
Resolved ==
  /\ GroupsAgree /\ AliasesAllowed
  /\ accounts = [i \in Sessions |-> Account(i)]
  /\ skipped = [i \in Sessions |-> SkipReason(i)]

PlanInv == plan \in RunPlans /\ (phase \notin {"load", "resolve", "refused"} => Resolved)
=============================================================================
