-------------------------- MODULE ServerLifecycle --------------------------
(* The announcement of control servers and their discovery (server.rs,     *)
(* client.rs): processes of one machine bind a socket, write a descriptor  *)
(* into the directory they share, delete what dead processes left there and*)
(* serve; a tool scans the directory for the newest socket that answers.   *)
(* Processes crash anywhere and leave their files; pids are reused.        *)
(* An instance is one launch of a process: its file names carry its pid and*)
(* a nanosecond stamp, so they are its own.                                *)
EXTENDS Naturals, FiniteSets

CONSTANTS
  Launches,      \* instances are 1..Launches, launched in that order (bound)
  Pids,        \* process identifiers, fewer than instances so that they recur
  Tools,       \* processes that discover and attach
  MaxCrashes,    \* bound on the crashes of a run
  AcceptMayFail  \* whether accept can return an error

ASSUME LaunchesAssumption == Launches \in Nat \ {0}
ASSUME PidsAssumption == Pids # {}
ASSUME CrashesAssumption == MaxCrashes \in Nat
ASSUME AcceptAssumption == AcceptMayFail \in BOOLEAN

Instances == 1..Launches
NoInstance == 0

VARIABLES
  phase,       \* where AgentControlServer::start or drop of an instance is
  pid,         \* the process identifier of an instance, once launched
  loop,        \* the accept loop: "off", "accepting" or "ended"
  sockets,     \* instances whose socket file exists
  descriptor,  \* the descriptor file: "none", "partial" or "written"
  modified,    \* when an instance's descriptor was last modified, 0 without one
  clock,       \* the time of the last modification
  todo,        \* entries an instance's reaper has yet to look at
  doomed,      \* the entry it is deleting
  dead,        \* the entries it must have deleted when it is done
  tool,        \* step, candidates and instance of a discovery
  steady       \* instances that served all along since a tool's scan

vars == <<phase, pid, loop, sockets, descriptor, modified, clock, todo, doomed,
          dead, tool, steady>>
times == <<modified, clock>>
serverFiles == <<sockets, descriptor, times>>
reaper == <<todo, doomed, dead>>

Phases == {"unborn", "launched", "bound", "creating", "announced", "scanning",
           "serving", "draining", "unlinking", "stopped", "failed", "crashed"}
Gone == {"unborn", "stopped", "failed", "crashed"}
ToolSteps == {"idle", "probing", "found", "none", "queued", "refused", "served", "closed"}

Alive(i) == phase[i] \notin Gone
LivePids == {pid[i] : i \in {j \in Instances : Alive(j)}}

\* The listener is open from bind until the finished task is dropped.
Listening(i) ==
  phase[i] \in {"bound", "creating", "announced", "scanning", "serving", "draining"}

\* Descriptor::is_reachable, and the connection of a client.
Connectable(i) == i \in sockets /\ Listening(i)

Init ==
  /\ phase = [i \in Instances |-> "unborn"]
  /\ pid \in [Instances -> {CHOOSE p \in Pids : TRUE}]
  /\ loop = [i \in Instances |-> "off"]
  /\ sockets = {} /\ descriptor = [i \in Instances |-> "none"]
  /\ modified = [i \in Instances |-> 0] /\ clock = 0
  /\ todo = [i \in Instances |-> {}]
  /\ doomed = [i \in Instances |-> NoInstance]
  /\ dead = [i \in Instances |-> {}]
  /\ tool = [t \in Tools |-> [step |-> "idle", candidates |-> {}, at |-> NoInstance]]
  /\ steady = [t \in Tools |-> {}]

Goes(i, to) == phase' = [phase EXCEPT ![i] = to]

\* Connections of an instance end when its end of them is dropped.
Closed(i, steps) ==
  tool' = [t \in Tools |->
             IF tool[t].at = i /\ tool[t].step \in steps
             THEN [tool[t] EXCEPT !.step = "closed"] ELSE tool[t]]

NoLongerSteady(i) == steady' = [t \in Tools |-> steady[t] \ {i}]

-----------------------------------------------------------------------------
(* AgentControlServer::start.                                              *)

\* A process comes up under a pid no living process has; whoever took the pid
\* of a dead instance for living is right from now on.
Launch(i) ==
  /\ phase[i] = "unborn" /\ \A j \in 1..(i - 1) : phase[j] # "unborn"
  /\ \E p \in Pids \ LivePids :
       /\ pid' = [pid EXCEPT ![i] = p]
       /\ dead' = [j \in Instances |-> {k \in dead[j] : pid[k] # p}]
  /\ Goes(i, "launched")
  /\ UNCHANGED <<loop, serverFiles, todo, doomed, tool, steady>>

\* The socket listens before anything announces it.
Bind(i) ==
  /\ phase[i] = "launched"
  /\ sockets' = sockets \cup {i}
  /\ Goes(i, "bound")
  /\ UNCHANGED <<pid, loop, descriptor, times, reaper, tool, steady>>

\* The reactor or the guarded writer refuses, or the write fails half way: the
\* error is returned, the listener is dropped and the paths stay.
StartFails(i) ==
  /\ phase[i] \in {"bound", "creating"}
  /\ Goes(i, "failed")
  /\ UNCHANGED <<pid, loop, serverFiles, reaper, tool, steady>>

Delete(i) ==
  /\ descriptor' = [descriptor EXCEPT ![i] = "none"]
  /\ modified' = [modified EXCEPT ![i] = 0]
  /\ UNCHANGED clock

\* The write follows the creation in one call, which gives the file its time.
CreateDescriptor(i) ==
  /\ phase[i] = "bound"
  /\ descriptor' = [descriptor EXCEPT ![i] = "partial"]
  /\ modified' = [modified EXCEPT ![i] = clock + 1]
  /\ clock' = clock + 1
  /\ Goes(i, "creating")
  /\ UNCHANGED <<pid, loop, sockets, reaper, tool, steady>>

WriteDescriptor(i) ==
  /\ phase[i] = "creating"
  /\ descriptor' = [descriptor EXCEPT ![i] = "written"]
  /\ Goes(i, "announced")
  /\ UNCHANGED <<pid, loop, sockets, times, reaper, tool, steady>>

\* reap_dead_descriptors: every entry of the directory but the caller's own.
ListDirectory(i) ==
  /\ phase[i] = "announced"
  /\ LET entries == {j \in Instances \ {i} : descriptor[j] # "none"} IN
       /\ todo' = [todo EXCEPT ![i] = entries]
       /\ dead' = [dead EXCEPT ![i] =
                     {j \in entries : descriptor[j] = "written" /\ pid[j] \notin LivePids}]
  /\ Goes(i, "scanning")
  /\ UNCHANGED <<pid, loop, serverFiles, doomed, tool, steady>>

\* Mutation: an entry that cannot be connected to is taken for dead.
ExamineBySocket(i, j) ==
  /\ phase[i] = "scanning" /\ doomed[i] = NoInstance /\ j \in todo[i]
  /\ IF descriptor[j] = "written" /\ loop[j] # "accepting"
     THEN doomed' = [doomed EXCEPT ![i] = j] /\ UNCHANGED todo
     ELSE todo' = [todo EXCEPT ![i] = @ \ {j}] /\ UNCHANGED doomed
  /\ UNCHANGED <<phase, pid, loop, serverFiles, dead, tool, steady>>

\* An entry that is gone or does not parse, or whose pid is live, is kept.
Examine(i, j) ==
  /\ phase[i] = "scanning" /\ doomed[i] = NoInstance /\ j \in todo[i]
  /\ IF descriptor[j] = "written" /\ pid[j] \notin LivePids
     THEN doomed' = [doomed EXCEPT ![i] = j] /\ UNCHANGED todo
     ELSE todo' = [todo EXCEPT ![i] = @ \ {j}] /\ UNCHANGED doomed
  /\ UNCHANGED <<phase, pid, loop, serverFiles, dead, tool, steady>>

ReapSocket(i) ==
  /\ doomed[i] # NoInstance /\ doomed[i] \in sockets /\ phase[i] = "scanning"
  /\ sockets' = sockets \ {doomed[i]}
  /\ UNCHANGED <<phase, pid, loop, descriptor, times, reaper, tool, steady>>

ReapDescriptor(i) ==
  /\ doomed[i] # NoInstance /\ doomed[i] \notin sockets /\ phase[i] = "scanning"
  /\ Delete(doomed[i])
  /\ todo' = [todo EXCEPT ![i] = @ \ {doomed[i]}]
  /\ doomed' = [doomed EXCEPT ![i] = NoInstance]
  /\ UNCHANGED <<phase, pid, loop, sockets, dead, tool, steady>>

\* Mutation: start returns without the accept loop.
ServeNobody(i) ==
  /\ phase[i] = "scanning" /\ todo[i] = {}
  /\ Goes(i, "serving")
  /\ UNCHANGED <<pid, loop, serverFiles, reaper, tool, steady>>

\* The accept loop is spawned and start returns.
Serve(i) ==
  /\ phase[i] = "scanning" /\ todo[i] = {}
  /\ loop' = [loop EXCEPT ![i] = "accepting"]
  /\ Goes(i, "serving")
  /\ UNCHANGED <<pid, serverFiles, reaper, tool, steady>>

-----------------------------------------------------------------------------
(* The accept loop, drop and crash.                                        *)

Accept(i, t) ==
  /\ loop[i] = "accepting" /\ tool[t].step = "queued" /\ tool[t].at = i
  /\ tool' = [tool EXCEPT ![t].step = "served"]
  /\ UNCHANGED <<phase, pid, loop, serverFiles, reaper, steady>>

\* An accept error ends the loop and drops the connections it drove; the
\* listener stays open in the finished task, and the files stay.
AcceptFails(i) ==
  /\ AcceptMayFail /\ loop[i] = "accepting" /\ phase[i] = "serving"
  /\ loop' = [loop EXCEPT ![i] = "ended"]
  /\ Closed(i, {"served"})
  /\ UNCHANGED <<phase, pid, serverFiles, reaper, steady>>

\* Drop raises the flag and waits for the task.
RaiseShutdown(i) ==
  /\ phase[i] = "serving"
  /\ Goes(i, "draining") /\ NoLongerSteady(i)
  /\ UNCHANGED <<pid, loop, serverFiles, reaper, tool>>

\* Mutation: the flag is looked at only when no connection is open.
StopLoopWhenIdle(i) ==
  /\ phase[i] = "draining" /\ loop[i] = "accepting"
  /\ \A t \in Tools : tool[t].step = "served" => tool[t].at # i
  /\ loop' = [loop EXCEPT ![i] = "ended"]
  /\ UNCHANGED <<phase, pid, serverFiles, reaper, tool, steady>>

\* The shutdown flag wins over readiness from any connection.
StopLoop(i) ==
  /\ phase[i] = "draining" /\ loop[i] = "accepting"
  /\ loop' = [loop EXCEPT ![i] = "ended"]
  /\ Closed(i, {"served"})
  /\ UNCHANGED <<phase, pid, serverFiles, reaper, steady>>

\* Mutation: the finished task is leaked, so its listener stays open.
CloseListenerLate(i) ==
  /\ phase[i] = "draining" /\ loop[i] = "ended"
  /\ sockets' = sockets \ {i}
  /\ Goes(i, "unlinking")
  /\ UNCHANGED <<pid, loop, descriptor, times, reaper, tool, steady>>

\* The finished task is dropped with its listener, then the socket is removed.
CloseListener(i) ==
  /\ phase[i] = "draining" /\ loop[i] = "ended"
  /\ Closed(i, {"queued"})
  /\ sockets' = sockets \ {i}
  /\ Goes(i, "unlinking")
  /\ UNCHANGED <<pid, loop, descriptor, times, reaper, steady>>

RemoveDescriptor(i) ==
  /\ phase[i] = "unlinking"
  /\ Delete(i)
  /\ Goes(i, "stopped")
  /\ UNCHANGED <<pid, loop, sockets, reaper, tool, steady>>

Crash(i) ==
  /\ Alive(i)
  /\ Cardinality({j \in Instances : phase[j] = "crashed"}) < MaxCrashes
  /\ Goes(i, "crashed")
  /\ loop' = [loop EXCEPT ![i] = "off"]
  /\ Closed(i, {"queued", "served"})
  /\ NoLongerSteady(i)
  /\ todo' = [todo EXCEPT ![i] = {}] /\ dead' = [dead EXCEPT ![i] = {}]
  /\ doomed' = [doomed EXCEPT ![i] = NoInstance]
  /\ UNCHANGED <<pid, serverFiles>>

-----------------------------------------------------------------------------
(* discover, then Client::connect.                                         *)

\* Every descriptor in the directory, at the time that it then had.
Scan(t) ==
  /\ tool[t].step = "idle"
  /\ tool' = [tool EXCEPT ![t] =
                [step |-> "probing", at |-> NoInstance,
                 candidates |-> {[at |-> i, modified |-> modified[i]] :
                                   i \in {j \in Instances : descriptor[j] # "none"}}]]
  /\ steady' = [steady EXCEPT ![t] = {i \in Instances : phase[i] = "serving"}]
  /\ UNCHANGED <<phase, pid, loop, serverFiles, reaper>>

Answers(i) == descriptor[i] = "written" /\ Connectable(i)

ProbeThat(t, c) ==
  /\ tool' =
       IF Answers(c.at)
       THEN [tool EXCEPT ![t] = [step |-> "found", candidates |-> {}, at |-> c.at]]
       ELSE [tool EXCEPT ![t].candidates = @ \ {c}]
  /\ UNCHANGED <<phase, pid, loop, serverFiles, reaper, steady>>

\* Mutation: the candidates are tried oldest first.
ProbeOldestFirst(t) ==
  /\ tool[t].step = "probing"
  /\ \E c \in tool[t].candidates :
       /\ \A d \in tool[t].candidates : c.modified <= d.modified
       /\ ProbeThat(t, c)

\* Newest first, the first that can be read and connected to; the others are
\* passed over.
Probe(t) ==
  /\ tool[t].step = "probing"
  /\ \E c \in tool[t].candidates :
       /\ \A d \in tool[t].candidates : d.modified <= c.modified
       /\ ProbeThat(t, c)

FindNothing(t) ==
  /\ tool[t].step = "probing" /\ tool[t].candidates = {}
  /\ tool' = [tool EXCEPT ![t].step = "none"]
  /\ UNCHANGED <<phase, pid, loop, serverFiles, reaper, steady>>

\* The probe's connection is gone: the client makes its own.
Connect(t) ==
  /\ tool[t].step = "found"
  /\ tool' = [tool EXCEPT ![t].step =
                IF Connectable(tool[t].at) THEN "queued" ELSE "refused"]
  /\ steady' = [steady EXCEPT ![t] = {}]
  /\ UNCHANGED <<phase, pid, loop, serverFiles, reaper>>

Start(i) ==
  \/ Bind(i) \/ CreateDescriptor(i) \/ WriteDescriptor(i) \/ ListDirectory(i)
  \/ \E j \in Instances : Examine(i, j)
  \/ ReapSocket(i) \/ ReapDescriptor(i) \/ Serve(i)
Stop(i) == StopLoop(i) \/ CloseListener(i) \/ RemoveDescriptor(i)
Accepts(i) == \E t \in Tools : Accept(i, t)
Discover(t) == Scan(t) \/ Probe(t) \/ FindNothing(t) \/ Connect(t)

Code ==
  \/ \E i \in Instances : Start(i) \/ Stop(i) \/ Accepts(i)
  \/ \E t \in Tools : Discover(t)

Next ==
  \/ Code
  \/ \E i \in Instances :
       Launch(i) \/ StartFails(i) \/ AcceptFails(i) \/ RaiseShutdown(i) \/ Crash(i)

(* Some process goes on while one can; nothing launches, drops or kills a  *)
(* process.  Weaker than fairness of each process, and enough: what one has*)
(* to do is finite.                                                        *)
Spec == Init /\ [][Next]_vars /\ WF_vars(Code)

-----------------------------------------------------------------------------
(* Every variable keeps its type.                                          *)
TypeOK ==
  /\ phase \in [Instances -> Phases] /\ pid \in [Instances -> Pids]
  /\ loop \in [Instances -> {"off", "accepting", "ended"}]
  /\ sockets \subseteq Instances
  /\ descriptor \in [Instances -> {"none", "partial", "written"}]
  /\ clock \in Nat /\ modified \in [Instances -> 0..clock]
  /\ todo \in [Instances -> SUBSET Instances]
  /\ doomed \in [Instances -> Instances \cup {NoInstance}]
  /\ dead \in [Instances -> SUBSET Instances]
  /\ tool \in [Tools -> [step : ToolSteps, at : Instances \cup {NoInstance},
                        candidates : SUBSET [at : Instances, modified : Nat]]]
  /\ steady \in [Tools -> SUBSET Instances]

(* No reaper, its scan interleaved with launches, crashes and pid reuse,   *)
(* touches the files of an instance that announced itself and lives: "only *)
(* entries whose pid is dead are removed, so concurrent instances are left *)
(* strictly alone" (server.rs:656).                                        *)
LiveKeepsItsFiles ==
  \A i \in Instances :
    phase[i] \in {"announced", "scanning", "serving", "draining"} =>
      descriptor[i] = "written" /\ i \in sockets

(* When start returns, nothing remains of an instance that was announced   *)
(* and dead when its scan began, unless a new process took its pid         *)
(* meanwhile (server.rs:644).                                              *)
StartReapsTheDead ==
  \A i \in Instances : phase[i] = "serving" =>
    \A j \in dead[i] : descriptor[j] = "none" /\ j \notin sockets

(* A discovery passes over no instance newer than its answer that served   *)
(* from before the scan until now, and finds nothing only if none did      *)
(* (client.rs:163).                                                        *)
NewestSteadyIsFound ==
  \A t \in Tools :
    /\ tool[t].step = "none" => steady[t] = {}
    /\ tool[t].step = "found" =>
         \A i \in steady[t] :
           descriptor[tool[t].at] # "none" => modified[i] <= modified[tool[t].at]

(* After drop returned, the instance's files are gone and no client is left*)
(* waiting on it or talking to it (server.rs:264-275).                     *)
DropLeavesNothing ==
  \A i \in Instances : phase[i] = "stopped" =>
    /\ descriptor[i] = "none" /\ i \notin sockets
    /\ \A t \in Tools : tool[t].at = i => tool[t].step \notin {"queued", "served"}

(* No start and no drop leaves behind what it should have removed, of the  *)
(* dead or of itself, and every file stands where the types say.           *)
NothingLeftBehind == TypeOK /\ StartReapsTheDead /\ DropLeavesNothing

(* A connection made is served or closed in the end, unless the loop that  *)
(* should accept it ended on an accept error (server.rs:300-343).          *)
Undecided(t) ==
  tool[t].step = "queued" /\ ~(loop[tool[t].at] = "ended" /\ phase[tool[t].at] = "serving")
ConnectionsAreDecided == []<>(\A t \in Tools : ~Undecided(t))

(* Drop returns, whatever its connections are doing: it blocks its caller  *)
(* on the task (server.rs:264-275).  An instance is dropped once, and a tool *)
(* connects once, so "at some later time none is pending" says it of each. *)
DropReturns == []<>(\A i \in Instances : phase[i] # "draining")
=============================================================================
