--------------------------- MODULE HostProcesses ----------------------------
(***************************************************************************)
(* The host processes of a component sweep or of a run plan: how one is    *)
(* launched, announces its descriptor, is replaced while its checks run    *)
(* and is torn down, and what a resource cap kills.  The operating system  *)
(* hands out process ids again as soon as their process has been waited    *)
(* for.                                                                    *)
(***************************************************************************)
EXTENDS Integers, Sequences, FiniteSets

CONSTANTS
  Sweeps,       \* what one command may do: sequences of [built, checks, mode]; checks is None
                \* when the manifest is unreadable, mode is "sweep", "isolated" or "plan"
  Pids,         \* the process ids of the machine
  Tries,        \* how many directory names are tried (32)
  Leftover,     \* the control directories an earlier run left behind
  Scripts,      \* what a host may write: sequences of Lines
  MaxRestarts   \* bound: how often the hosts of one run are replaced

VARIABLES
  phase,        \* where the runner is
  after,        \* where it goes on when the teardown under way is over
  todo,         \* the components, or invocations of a plan, not yet over
  runs,         \* the runs of the first of them still to do
  problems,     \* its failed checks so far
  passed, failed,
  os,           \* [Pids -> "free", "host", "dead" (not waited for) or "other"]
  owned,        \* OWNED: the pids a cap would kill
  dirs, nextDir, \* the control directories, and the next name to try
  standing,     \* None, or <<the process of the session>>: [pid, dir, waited], dir the
                \* set of its control directory, or empty
  launching,    \* None, or <<the process being started>>
  victim,       \* None, or <<the process being torn down>>
  restarts,
  output,       \* what the host has still to write
  descriptor,   \* "awaited", a line, or "abandoned"
  cap           \* whether a cap has ended the run

sweepVars == <<todo, runs, problems, passed, failed>>
systemVars == <<os, owned, dirs, nextDir>>
sessionVars == <<standing, launching, victim, restarts>>
place == <<phase, after>>
vars == <<place, sweepVars, systemVars, sessionVars, output, descriptor, cap>>

None == <<>>
Running == ~cap
Goto(next) == phase' = next /\ UNCHANGED after
TearDown(next) == phase' = "kill" /\ after' = next
\* clean_environment: only the hosts of a plan get a private control directory.
Clean == todo[1].mode = "plan"

Init ==
  /\ phase = "component" /\ after = "" /\ todo \in Sweeps /\ runs = 0 /\ problems = 0 /\ passed = 0 /\ failed = 0
  /\ os = [p \in Pids |-> "free"] /\ owned = {} /\ dirs = Leftover /\ nextDir = 0
  /\ standing = None /\ launching = None /\ victim = None /\ restarts = 0
  /\ output = <<>> /\ descriptor = "awaited" /\ cap = FALSE

(*************************** the sweep around it ***************************)

(* A component that was not built, or has no checks, fails without a host; *)
(* otherwise each check gets a host of its own, or all share one, as those *)
(* of an invocation of a plan do.                                          *)
BeginComponent ==
  /\ Running /\ phase = "component" /\ todo # <<>>
  /\ LET c == todo[1]
         usable == c.built /\ c.checks # None /\ c.checks # <<0>>
     IN  IF usable
         THEN /\ runs' = (IF c.mode = "isolated" THEN c.checks[1] ELSE 1) /\ problems' = 0
              /\ Goto("directory") /\ UNCHANGED <<todo, passed, failed>>
         ELSE /\ failed' = failed + 1 /\ todo' = Tail(todo)
              /\ UNCHANGED <<place, runs, problems, passed>>
  /\ restarts' = 0
  /\ UNCHANGED <<systemVars, standing, launching, victim, output, descriptor, cap>>

EndComponent(ok) ==
  /\ passed' = passed + (IF ok THEN 1 ELSE 0) /\ failed' = failed + (IF ok THEN 0 ELSE 1)
  /\ todo' = Tail(todo) /\ runs' = 0 /\ problems' = 0
  /\ Goto("component")

(* The checks of this run are over; the session is dropped either way.     *)
Judged ==
  /\ Running /\ phase = "driving"
  /\ \E bad \in 0..1 : problems' = problems + bad /\ Goto("drop")
  /\ UNCHANGED <<todo, runs, passed, failed, systemVars, sessionVars, output, descriptor, cap>>
RunFails ==
  /\ Running /\ phase = "driving"
  /\ Goto("drop with error")
  /\ UNCHANGED <<sweepVars, systemVars, sessionVars, output, descriptor, cap>>

\* Mutation: the session is forgotten, its process left running.
DropSessionForgetting ==
  /\ Running /\ phase \in {"drop", "drop with error"}
  /\ victim' = standing /\ standing' = None /\ owned' = owned \ {standing[1].pid}
  /\ TearDown(IF phase = "drop" THEN "next run" ELSE "give up")
  /\ UNCHANGED <<sweepVars, os, dirs, nextDir, launching, restarts, output, descriptor, cap>>

DropSession ==
  /\ Running /\ phase \in {"drop", "drop with error"}
  /\ victim' = standing /\ standing' = None
  /\ TearDown(IF phase = "drop" THEN "next run" ELSE "give up")
  /\ UNCHANGED <<sweepVars, systemVars, launching, restarts, output, descriptor, cap>>

NextRun ==
  /\ Running /\ phase = "next run"
  /\ IF runs > 1 THEN runs' = runs - 1 /\ Goto("directory") /\ UNCHANGED <<todo, problems, passed, failed>>
                 ELSE EndComponent(problems = 0)
  /\ UNCHANGED <<systemVars, sessionVars, output, descriptor, cap>>
GiveUp ==
  /\ Running /\ phase = "give up"
  /\ EndComponent(FALSE)
  /\ UNCHANGED <<systemVars, sessionVars, output, descriptor, cap>>

(*************************** launching a host ******************************)

(* A launch that fails leaves the session, if there is one, with the       *)
(* process it had; the caller gives the component up.                      *)
Failed == IF standing = None THEN "give up" ELSE "driving"

Prepared(dir) ==
  /\ launching' = <<[pid |-> 0, dir |-> dir, waited |-> FALSE]>>
  /\ dirs' = dirs \cup dir
  /\ Goto("spawn")

Free == {d \in nextDir..(nextDir + Tries - 1) : d \notin dirs}

MakeDirectory ==
  /\ Running /\ phase = "directory"
  /\ \/ ~Clean /\ Prepared({}) /\ UNCHANGED nextDir
     \/ /\ Clean
        /\ \E dir \in Free :
             /\ \A other \in Free : dir <= other
             /\ nextDir' = dir + 1 /\ Prepared({dir})
     \/ /\ Clean /\ Free = {}
        /\ nextDir' = nextDir + Tries
        /\ Goto(Failed) /\ UNCHANGED <<launching, dirs>>
  /\ UNCHANGED <<sweepVars, os, owned, standing, victim, restarts, output, descriptor, cap>>

Spawn ==
  /\ Running /\ phase = "spawn"
  /\ \E p \in Pids, script \in Scripts :
       /\ os[p] = "free"
       /\ os' = [os EXCEPT ![p] = "host"] /\ output' = script
       /\ launching' = <<[launching[1] EXCEPT !.pid = p]>>
  /\ Goto("register")
  /\ UNCHANGED <<sweepVars, owned, dirs, nextDir, standing, victim, restarts, descriptor, cap>>

SpawnFails ==
  /\ Running /\ phase = "spawn"
  /\ dirs' = dirs \ launching[1].dir
  /\ launching' = None
  /\ Goto(Failed)
  /\ UNCHANGED <<sweepVars, os, owned, nextDir, standing, victim, restarts, output, descriptor, cap>>

(* A cap that trips before this step does not know the process.            *)
Register ==
  /\ Running /\ phase = "register"
  /\ owned' = owned \cup {launching[1].pid}
  /\ Goto("drain")
  /\ UNCHANGED <<sweepVars, os, dirs, nextDir, sessionVars, output, descriptor, cap>>

StartDrain ==
  /\ Running /\ phase = "drain"
  /\ descriptor' = "awaited"
  /\ Goto("await")
  /\ UNCHANGED <<sweepVars, systemVars, sessionVars, output, cap>>

(* Once a HostProcess exists, every error drops it.                        *)
LaunchFails ==
  /\ Running
  /\ \/ phase = "drain"                                           \* the pipe cannot be read
     \/ phase = "await" /\ descriptor \in {"awaited", "abandoned"} \* a timeout, or the end of the output
     \/ phase = "await" /\ Clean /\ descriptor = "outside"
  /\ victim' = launching /\ launching' = None
  /\ TearDown("launch failed")
  /\ UNCHANGED <<sweepVars, systemVars, standing, restarts, output, descriptor, cap>>

(* The first line that is the path of a file is the descriptor; everything *)
(* before and after it is only forwarded.                                  *)
ReadLine ==
  /\ Running /\ phase \in {"await", "driving"} /\ output # <<>>
  /\ descriptor' = IF descriptor = "awaited" /\ output[1] \in {"inside", "outside"} THEN output[1] ELSE descriptor
  /\ output' = Tail(output)
  /\ UNCHANGED <<place, sweepVars, systemVars, sessionVars, cap>>
OutputEnds ==
  /\ Running /\ phase = "await" /\ output = <<>> /\ descriptor = "awaited"
  /\ os[launching[1].pid] = "dead"
  /\ descriptor' = "abandoned"
  /\ UNCHANGED <<place, sweepVars, systemVars, sessionVars, output, cap>>

(* Up: the process becomes the session's, and the one it replaces is       *)
(* dropped.                                                                *)
Up ==
  /\ Running /\ phase = "await"
  /\ descriptor = "inside" \/ (~Clean /\ descriptor = "outside")
  /\ standing' = launching /\ launching' = None /\ victim' = standing
  /\ IF standing = None THEN Goto("driving") ELSE TearDown("driving")
  /\ UNCHANGED <<sweepVars, systemVars, restarts, output, descriptor, cap>>

(* A replacement is launched after the old process is gone, and the old    *)
(* process stays registered until its replacement is up.                   *)
Restart ==
  /\ Running /\ phase = "driving" /\ restarts < MaxRestarts
  /\ restarts' = restarts + 1
  /\ Goto("stop")
  /\ UNCHANGED <<sweepVars, systemVars, standing, launching, victim, output, descriptor, cap>>

StopOld ==
  /\ Running /\ phase = "stop"
  /\ LET old == standing[1]
     IN  /\ os' = IF old.waited THEN os ELSE [os EXCEPT ![old.pid] = "free"]
         /\ dirs' = dirs \ old.dir
         /\ standing' = <<[old EXCEPT !.waited = TRUE, !.dir = {}]>>
  /\ Goto("directory")
  /\ UNCHANGED <<sweepVars, owned, nextDir, launching, victim, restarts, output, descriptor, cap>>

(*************************** tearing one down ******************************)

(* HostProcess::drop, in its order: kill, wait, forget, remove. A process  *)
(* that was waited for before is neither killed nor waited for again.      *)
Kill ==
  /\ Running /\ phase = "kill" /\ Goto("wait")
  /\ LET v == victim[1]
     IN  os' = IF v.waited \/ os[v.pid] # "host" THEN os ELSE [os EXCEPT ![v.pid] = "dead"]
  /\ UNCHANGED <<sweepVars, owned, dirs, nextDir, sessionVars, output, descriptor, cap>>
Wait ==
  /\ Running /\ phase = "wait" /\ Goto("reaped")
  /\ LET v == victim[1]
     IN  /\ os' = IF v.waited THEN os ELSE [os EXCEPT ![v.pid] = "free"]
         /\ victim' = <<[v EXCEPT !.waited = TRUE]>>
  /\ UNCHANGED <<sweepVars, owned, dirs, nextDir, standing, launching, restarts, output, descriptor, cap>>
Reaped ==
  /\ Running /\ phase = "reaped" /\ Goto("remove")
  /\ owned' = owned \ {victim[1].pid}
  /\ UNCHANGED <<sweepVars, os, dirs, nextDir, sessionVars, output, descriptor, cap>>
RemoveDirectory ==
  /\ Running /\ phase = "remove"
  /\ phase' = (IF after = "launch failed" THEN Failed ELSE after) /\ after' = ""
  /\ dirs' = dirs \ victim[1].dir
  /\ victim' = None
  /\ UNCHANGED <<sweepVars, os, owned, nextDir, standing, launching, restarts, output, descriptor, cap>>

(***************************** everybody else ******************************)

HostDies ==
  /\ \E p \in Pids : os[p] = "host" /\ os' = [os EXCEPT ![p] = "dead"]
  /\ UNCHANGED <<place, sweepVars, owned, dirs, nextDir, sessionVars, output, descriptor, cap>>
OtherStarts ==
  /\ \E p \in Pids : os[p] = "free" /\ os' = [os EXCEPT ![p] = "other"]
  /\ UNCHANGED <<place, sweepVars, owned, dirs, nextDir, sessionVars, output, descriptor, cap>>
OtherEnds ==
  /\ \E p \in Pids : os[p] = "other" /\ os' = [os EXCEPT ![p] = "free"]
  /\ UNCHANGED <<place, sweepVars, owned, dirs, nextDir, sessionVars, output, descriptor, cap>>

(* A tick of the monitor, or any turn of the runner, finds a budget        *)
(* exceeded: every registered process group is killed and the run exits.   *)
CapTrips ==
  /\ Running /\ phase # "over"
  /\ cap' = TRUE
  /\ os' = [p \in Pids |-> IF p \notin owned \/ os[p] = "free" THEN os[p] ELSE "dead"]
  /\ UNCHANGED <<place, sweepVars, owned, dirs, nextDir, sessionVars, output, descriptor>>

Finish ==
  /\ Running /\ phase = "component" /\ todo = <<>>
  /\ Goto("over")
  /\ UNCHANGED <<sweepVars, systemVars, sessionVars, output, descriptor, cap>>

Next ==
  \/ BeginComponent \/ Judged \/ RunFails \/ DropSession \/ NextRun \/ GiveUp
  \/ MakeDirectory \/ Spawn \/ SpawnFails \/ Register \/ StartDrain \/ LaunchFails
  \/ ReadLine \/ OutputEnds \/ Up \/ Restart \/ StopOld \/ Kill \/ Wait \/ Reaped \/ RemoveDirectory
  \/ HostDies \/ OtherStarts \/ OtherEnds \/ CapTrips \/ Finish
Spec == Init /\ [][Next]_vars
-----------------------------------------------------------------------------
(* Every way out of a launch, a restart or a run cleans up after itself:   *)
(* between two components there is no process, no registered pid and no    *)
(* control directory of this run (start_host_with_policy, restart, Drop).  *)
NothingLeaks ==
  (phase \in {"component", "over"} /\ Running) =>
    owned = {} /\ dirs = Leftover /\ \A p \in Pids : os[p] \notin {"host", "dead"}

(* "Stop the current process before the replacement is spawned, so a       *)
(* wedged page cannot keep the control socket the next check has to attach *)
(* to" (runner.rs:421): two hosts of one sweep never run side by side.     *)
OneHostAtATime == Cardinality({p \in Pids : os[p] = "host"}) <= 1

(* The cap ends the runner with fail(), which runs no destructor, so what  *)
(* it does not kill goes on for ever: every host must be registered while  *)
(* it lives (app_caps.rs:372, the order in Drop).  Two windows are left    *)
(* out because the code has them: between spawn and child() the host is    *)
(* not registered (runner.rs:1245-1254); and restart waits for the old     *)
(* process without reaped(), so when the replacement is given its pid,     *)
(* dropping the old HostProcess takes the new one off the list.            *)
CapStopsEveryHost ==
  (cap /\ phase # "register" /\ restarts = 0) => \A p \in Pids : os[p] # "host"
=============================================================================
