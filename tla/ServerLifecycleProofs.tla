------------------------ MODULE ServerLifecycleProofs ------------------------
(***************************************************************************)
(* The safety properties of ServerLifecycle, for any number of launches,   *)
(* process identifiers, tools and crashes.                                 *)
(***************************************************************************)
EXTENDS ServerLifecycle, TLAPS

-----------------------------------------------------------------------------
(* The inductive invariant.                                                *)

Over == {"stopped", "failed", "crashed"}
NotYet == {"unborn", "launched", "bound"}
Up == {"announced", "scanning", "serving", "draining"}

\* Which files an instance has, by how far it has come.
Files ==
  \A i \in Instances :
    /\ phase[i] \in {"unborn", "launched", "unlinking", "stopped"} => i \notin sockets
    /\ phase[i] \in {"bound", "creating"} \cup Up => i \in sockets
    /\ phase[i] \in NotYet \cup {"stopped"} => descriptor[i] = "none"
    /\ phase[i] = "creating" => descriptor[i] = "partial"
    /\ phase[i] \in Up => descriptor[i] = "written"

\* A reaper is deleting only what an instance that is over has left; its pid
\* may be that of a living process again.
Doomed ==
  \A i \in Instances : doomed[i] # NoInstance =>
    /\ phase[i] = "scanning" /\ doomed[i] \in todo[i]
    /\ phase[doomed[i]] \in Over

\* What a reaper owes: the process is gone, no other has its pid, and its files
\* are there, or both are not; they are not once the reaper is past them.
Owed ==
  \A i \in Instances : \A j \in dead[i] :
    /\ phase[j] \in Over /\ pid[j] \notin LivePids
    /\ descriptor[j] = "written" \/ (descriptor[j] = "none" /\ j \notin sockets)
    /\ ~(phase[i] = "scanning" /\ j \in todo[i]) => descriptor[j] = "none"

\* A connection is with an instance that is up: served by its loop, or queued
\* at its listener.
Connected ==
  /\ \A i \in Instances : loop[i] = "accepting" => phase[i] \in {"serving", "draining"}
  /\ \A t \in Tools :
       /\ tool[t].step \in {"found", "queued", "served"} =>
            tool[t].at \in Instances /\ phase[tool[t].at] \notin NotYet \cup {"creating"}
       /\ tool[t].step = "queued" => phase[tool[t].at] \in Up
       /\ tool[t].step = "served" => loop[tool[t].at] = "accepting"

\* A discovery has every steady instance still before it, each candidate at
\* the time its descriptor has unless that is gone for good, and what it finds
\* is no older than any steady instance.
Discovering ==
  \A t \in Tools :
    /\ \A i \in steady[t] : phase[i] = "serving"
    /\ \A c \in tool[t].candidates :
         /\ phase[c.at] \notin NotYet
         /\ descriptor[c.at] = "none" \/ modified[c.at] = c.modified
    /\ tool[t].step = "probing" =>
         \A i \in steady[t] : [at |-> i, modified |-> modified[i]] \in tool[t].candidates
    /\ tool[t].step = "none" => steady[t] = {}
    /\ tool[t].step = "found" =>
         \A i \in steady[t] :
           descriptor[tool[t].at] # "none" => modified[i] <= modified[tool[t].at]

LifecycleInv == TypeOK /\ Files /\ Doomed /\ Owed /\ Connected /\ Discovering

LEMMA ZeroIsNoInstance == NoInstance \notin Instances
BY LaunchesAssumption DEF NoInstance, Instances

LEMMA InitInv == Init => LifecycleInv
<1> SUFFICES ASSUME Init  PROVE LifecycleInv
    OBVIOUS
<1>1. (CHOOSE p \in Pids : TRUE) \in Pids
    BY PidsAssumption
<1>2. TypeOK
    BY <1>1 DEF Init, TypeOK, Phases, ToolSteps
<1>3. Files /\ Doomed /\ Owed /\ Connected /\ Discovering
    BY DEF Init, Files, Doomed, Owed, Connected, Discovering, Up, NotYet
<1> QED BY <1>2, <1>3 DEF LifecycleInv

-----------------------------------------------------------------------------
(* The types.                                                              *)

LEMMA ToolTypes ==
    ASSUME TypeOK
    PROVE  /\ \A i \in Instances : \A steps : Closed(i, steps) =>
                tool' \in [Tools -> [step : ToolSteps, at : Instances \cup {NoInstance},
                                     candidates : SUBSET [at : Instances, modified : Nat]]]
           /\ \A i \in Instances : NoLongerSteady(i) => steady' \in [Tools -> SUBSET Instances]
<1> DEFINE Records == [step : ToolSteps, at : Instances \cup {NoInstance},
                       candidates : SUBSET [at : Instances, modified : Nat]]
<1>1. \A t \in Tools : tool[t] \in Records
    BY DEF TypeOK
<1>2. \A t \in Tools : [tool[t] EXCEPT !.step = "closed"] \in Records
    BY <1>1 DEF ToolSteps
<1> HIDE DEF Records
<1>3. ASSUME NEW i \in Instances, NEW steps, Closed(i, steps)
      PROVE  tool' \in [Tools -> Records]
    BY <1>1, <1>2, <1>3 DEF Closed
<1>4. ASSUME NEW i \in Instances, NoLongerSteady(i)
      PROVE  steady' \in [Tools -> SUBSET Instances]
    <2>1. \A t \in Tools : steady[t] \ {i} \subseteq Instances
        BY DEF TypeOK
    <2> QED BY <1>4, <2>1 DEF NoLongerSteady
<1> QED BY <1>3, <1>4 DEF Records

LEMMA StartTypes ==
    ASSUME TypeOK, NEW i \in Instances,
           Launch(i) \/ StartFails(i) \/ Start(i)
    PROVE  TypeOK'
<1>1. CASE Launch(i)
    BY <1>1 DEF Launch, Goes, serverFiles, times, TypeOK, Phases
<1>2. CASE StartFails(i)
    BY <1>2 DEF StartFails, Goes, serverFiles, times, reaper, TypeOK, Phases
<1>3. CASE Bind(i) \/ WriteDescriptor(i)
    BY <1>3 DEF Bind, WriteDescriptor, Goes, times, reaper, TypeOK, Phases
<1>9. CASE CreateDescriptor(i)
    <2>1. clock' \in Nat /\ modified' \in [Instances -> 0..clock']
        BY <1>9 DEF CreateDescriptor, TypeOK
    <2>2. phase' \in [Instances -> Phases]
        BY <1>9 DEF CreateDescriptor, Goes, TypeOK, Phases
    <2>3. descriptor' \in [Instances -> {"none", "partial", "written"}]
        BY <1>9 DEF CreateDescriptor, TypeOK
    <2>4. UNCHANGED <<pid, loop, sockets, todo, doomed, dead, tool, steady>>
        BY <1>9 DEF CreateDescriptor, reaper
    <2> QED BY <2>1, <2>2, <2>3, <2>4 DEF TypeOK
<1>4. CASE ListDirectory(i)
    BY <1>4 DEF ListDirectory, Goes, serverFiles, times, TypeOK, Phases
<1>5. ASSUME NEW j \in Instances, Examine(i, j)
      PROVE  TypeOK'
    <2>1. \/ doomed' = [doomed EXCEPT ![i] = j] /\ UNCHANGED todo
          \/ todo' = [todo EXCEPT ![i] = @ \ {j}] /\ UNCHANGED doomed
        BY <1>5 DEF Examine
    <2>2. UNCHANGED <<phase, pid, loop, sockets, descriptor, modified, clock, dead, tool, steady>>
        BY <1>5 DEF Examine, serverFiles, times
    <2> QED BY <2>1, <2>2 DEF TypeOK
<1>6. CASE ReapSocket(i)
    BY <1>6 DEF ReapSocket, times, reaper, TypeOK
<1>7. CASE ReapDescriptor(i)
    BY <1>7 DEF ReapDescriptor, Delete, TypeOK
<1>8. CASE Serve(i)
    BY <1>8 DEF Serve, Goes, serverFiles, times, reaper, TypeOK, Phases
<1> QED BY <1>1, <1>2, <1>3, <1>4, <1>5, <1>6, <1>7, <1>8, <1>9 DEF Start

LEMMA RunTypes ==
    ASSUME TypeOK, NEW i \in Instances,
           \/ Stop(i) \/ Accepts(i) \/ AcceptFails(i) \/ RaiseShutdown(i) \/ Crash(i)
    PROVE  TypeOK'
<1>1. ASSUME NEW t \in Tools, Accept(i, t)
      PROVE  TypeOK'
    BY <1>1 DEF Accept, serverFiles, times, reaper, TypeOK, ToolSteps
<1>2. CASE AcceptFails(i)
    <2>1. loop' \in [Instances -> {"off", "accepting", "ended"}]
        BY <1>2 DEF AcceptFails, TypeOK
    <2>2. tool' \in [Tools -> [step : ToolSteps, at : Instances \cup {NoInstance},
                              candidates : SUBSET [at : Instances, modified : Nat]]]
        BY <1>2, ToolTypes DEF AcceptFails
    <2>3. UNCHANGED <<phase, pid, sockets, descriptor, modified, clock, todo, doomed,
                      dead, steady>>
        BY <1>2 DEF AcceptFails, serverFiles, times, reaper
    <2> QED BY <2>1, <2>2, <2>3 DEF TypeOK
<1>7. CASE StopLoop(i)
    <2>1. loop' \in [Instances -> {"off", "accepting", "ended"}]
        BY <1>7 DEF StopLoop, TypeOK
    <2>2. tool' \in [Tools -> [step : ToolSteps, at : Instances \cup {NoInstance},
                              candidates : SUBSET [at : Instances, modified : Nat]]]
        BY <1>7, ToolTypes DEF StopLoop
    <2>3. UNCHANGED <<phase, pid, sockets, descriptor, modified, clock, todo, doomed,
                      dead, steady>>
        BY <1>7 DEF StopLoop, serverFiles, times, reaper
    <2> QED BY <2>1, <2>2, <2>3 DEF TypeOK
<1>3. CASE RaiseShutdown(i)
    BY <1>3, ToolTypes DEF RaiseShutdown, Goes, serverFiles, times, reaper, TypeOK, Phases
<1>4. CASE CloseListener(i)
    BY <1>4, ToolTypes DEF CloseListener, Goes, times, reaper, TypeOK, Phases
<1>5. CASE RemoveDescriptor(i)
    BY <1>5 DEF RemoveDescriptor, Delete, Goes, reaper, TypeOK, Phases
<1>6. CASE Crash(i)
    BY <1>6, ToolTypes DEF Crash, Goes, serverFiles, times, TypeOK, Phases
<1> QED BY <1>1, <1>2, <1>3, <1>4, <1>5, <1>6, <1>7 DEF Stop, Accepts

LEMMA DiscoverTypes ==
    ASSUME TypeOK, NEW t \in Tools, Discover(t)
    PROVE  TypeOK'
<1> DEFINE Records == [step : ToolSteps, at : Instances \cup {NoInstance},
                       candidates : SUBSET [at : Instances, modified : Nat]]
<1>1. tool \in [Tools -> Records] /\ tool[t] \in Records
    BY DEF TypeOK
<1>2. \A s \in ToolSteps : [tool[t] EXCEPT !.step = s] \in Records
    BY <1>1
<1>3. CASE Scan(t)
    <2> DEFINE seen == {[at |-> i, modified |-> modified[i]] :
                          i \in {j \in Instances : descriptor[j] # "none"}}
    <2>1. seen \subseteq [at : Instances, modified : Nat]
        BY DEF TypeOK
    <2> HIDE DEF seen
    <2>2. [step |-> "probing", at |-> NoInstance, candidates |-> seen] \in Records
        BY <2>1 DEF ToolSteps
    <2>3. tool' = [tool EXCEPT ![t] =
                     [step |-> "probing", at |-> NoInstance, candidates |-> seen]]
        BY <1>3 DEF Scan, seen
    <2> HIDE DEF Records
    <2>4. tool' \in [Tools -> Records]
        BY <1>1, <2>2, <2>3
    <2>5. steady' \in [Tools -> SUBSET Instances]
        BY <1>3 DEF Scan, TypeOK
    <2> QED BY <1>3, <2>4, <2>5 DEF Scan, TypeOK, Records, serverFiles, times, reaper
<1>4. ASSUME NEW c \in tool[t].candidates, ProbeThat(t, c)
      PROVE  TypeOK'
    <2>1. tool[t].candidates \in SUBSET [at : Instances, modified : Nat]
        BY <1>1
    <2>2. c.at \in Instances
        BY <2>1
    <2>3. /\ [step |-> "found", candidates |-> {}, at |-> c.at] \in Records
          /\ [tool[t] EXCEPT !.candidates = @ \ {c}] \in Records
        BY <1>1, <2>1, <2>2 DEF ToolSteps
    <2> HIDE DEF Records
    <2>4. tool' \in [Tools -> Records]
        <3>1. CASE Answers(c.at)
            <4>1. tool' = [tool EXCEPT ![t] = [step |-> "found", candidates |-> {}, at |-> c.at]]
                BY <1>4, <3>1 DEF ProbeThat
            <4> QED BY <1>1, <2>3, <4>1
        <3>2. CASE ~Answers(c.at)
            <4>1. tool' = [tool EXCEPT ![t].candidates = @ \ {c}]
                BY <1>4, <3>2 DEF ProbeThat
            <4> QED BY <1>1, <2>3, <4>1
        <3> QED BY <3>1, <3>2
    <2> QED BY <1>4, <2>4 DEF ProbeThat, TypeOK, Records, serverFiles, times, reaper
<1>5. CASE FindNothing(t)
    <2>1. [tool[t] EXCEPT !.step = "none"] \in Records
        BY <1>2 DEF ToolSteps
    <2> HIDE DEF Records
    <2>2. tool' \in [Tools -> Records]
        BY <1>1, <1>5, <2>1 DEF FindNothing
    <2> QED BY <1>5, <2>2 DEF FindNothing, TypeOK, Records, serverFiles, times, reaper
<1>6. CASE Connect(t)
    <2>1. \A s \in {"queued", "refused"} : [tool[t] EXCEPT !.step = s] \in Records
        BY <1>2 DEF ToolSteps
    <2> HIDE DEF Records
    <2>2. tool' \in [Tools -> Records]
        BY <1>1, <1>6, <2>1 DEF Connect
    <2>3. steady' \in [Tools -> SUBSET Instances]
        BY <1>6 DEF Connect, TypeOK
    <2> QED BY <1>6, <2>2, <2>3 DEF Connect, TypeOK, Records, serverFiles, times, reaper
<1> QED BY <1>3, <1>4, <1>5, <1>6 DEF Discover, Probe

LEMMA TypesStep == ASSUME TypeOK, Next PROVE TypeOK'
BY StartTypes, RunTypes, DiscoverTypes DEF Next, Code

-----------------------------------------------------------------------------
(* What the steps leave alone.                                             *)

\* Looking at an entry, taking or losing a connection and discovering change no
\* phase, no pid and no file.
Quiet ==
  \/ \E i, j \in Instances : Examine(i, j)
  \/ \E i \in Instances : Accepts(i) \/ AcceptFails(i) \/ StopLoop(i)
  \/ \E t \in Tools : Discover(t)

LEMMA QuietFrame ==
    ASSUME Quiet
    PROVE  UNCHANGED <<phase, pid, sockets, descriptor, modified, clock, dead>>
BY DEF Quiet, Examine, Accepts, Accept, AcceptFails, StopLoop, Discover, Scan, Probe,
   ProbeThat, FindNothing, Connect, serverFiles, times, reaper

\* The steps that are not quiet, one instance each.
LEMMA NextCases ==
    ASSUME Next
    PROVE  \/ Quiet
           \/ \E i \in Instances :
                \/ Launch(i) \/ Bind(i) \/ StartFails(i) \/ CreateDescriptor(i)
                \/ WriteDescriptor(i) \/ ListDirectory(i) \/ ReapSocket(i)
                \/ ReapDescriptor(i) \/ Serve(i) \/ RaiseShutdown(i) \/ CloseListener(i)
                \/ RemoveDescriptor(i) \/ Crash(i)
BY DEF Next, Code, Start, Stop, Quiet

-----------------------------------------------------------------------------
(* The files.                                                              *)

LEMMA FilesStep ==
    ASSUME TypeOK, Files, Doomed, Next
    PROVE  Files'
<1> USE DEF TypeOK, Files, NotYet, Up, Goes, Phases
<1>1. CASE Quiet
    BY <1>1, QuietFrame
<1>2. ASSUME NEW i \in Instances, Launch(i)
      PROVE  Files'
    BY <1>2 DEF Launch, serverFiles
<1>3. ASSUME NEW i \in Instances, Bind(i)
      PROVE  Files'
    BY <1>3 DEF Bind
<1>4. ASSUME NEW i \in Instances, StartFails(i)
      PROVE  Files'
    BY <1>4 DEF StartFails, serverFiles
<1>5. ASSUME NEW i \in Instances, CreateDescriptor(i)
      PROVE  Files'
    BY <1>5 DEF CreateDescriptor
<1>6. ASSUME NEW i \in Instances, WriteDescriptor(i)
      PROVE  Files'
    BY <1>6 DEF WriteDescriptor
<1>7. ASSUME NEW i \in Instances, ListDirectory(i)
      PROVE  Files'
    BY <1>7 DEF ListDirectory, serverFiles
<1>8. ASSUME NEW i \in Instances, ReapSocket(i)
      PROVE  Files'
    BY <1>8 DEF ReapSocket, Doomed, Over
<1>9. ASSUME NEW i \in Instances, ReapDescriptor(i)
      PROVE  Files'
    BY <1>9 DEF ReapDescriptor, Delete, Doomed, Over
<1>10. ASSUME NEW i \in Instances, Serve(i)
       PROVE  Files'
    BY <1>10 DEF Serve, serverFiles
<1>11. ASSUME NEW i \in Instances, RaiseShutdown(i)
       PROVE  Files'
    BY <1>11 DEF RaiseShutdown, serverFiles
<1>12. ASSUME NEW i \in Instances, CloseListener(i)
       PROVE  Files'
    BY <1>12 DEF CloseListener
<1>13. ASSUME NEW i \in Instances, RemoveDescriptor(i)
       PROVE  Files'
    BY <1>13 DEF RemoveDescriptor, Delete
<1>14. ASSUME NEW i \in Instances, Crash(i)
       PROVE  Files'
    BY <1>14 DEF Crash, serverFiles
<1> HIDE DEF TypeOK, Files
<1> QED BY <1>1, <1>2, <1>3, <1>4, <1>5, <1>6, <1>7, <1>8, <1>9, <1>10, <1>11, <1>12,
           <1>13, <1>14, NextCases

-----------------------------------------------------------------------------
(* Processes that are gone, and the pids of those that live.               *)

\* Whoever is over stays over, and only a launch turns an unborn instance
\* into a living one and takes a pid.
LEMMA GoneStays ==
    ASSUME TypeOK, Next
    PROVE  /\ \A j \in Instances : phase[j] \in Over => phase'[j] = phase[j]
           /\ \/ /\ pid' = pid
                 /\ \A j \in Instances : phase[j] \in Gone => phase'[j] = phase[j]
              \/ \E i \in Instances : Launch(i)
<1> USE DEF TypeOK, Gone, Over, Goes
<1>1. \A i \in Instances : StartFails(i) =>
        pid' = pid /\ \A j \in Instances : phase[j] \in Gone => phase'[j] = phase[j]
    BY DEF StartFails
<1>2. \A i \in Instances : Bind(i) =>
        pid' = pid /\ \A j \in Instances : phase[j] \in Gone => phase'[j] = phase[j]
    BY DEF Bind
<1>3. \A i \in Instances : CreateDescriptor(i) =>
        pid' = pid /\ \A j \in Instances : phase[j] \in Gone => phase'[j] = phase[j]
    BY DEF CreateDescriptor
<1>4. \A i \in Instances : WriteDescriptor(i) =>
        pid' = pid /\ \A j \in Instances : phase[j] \in Gone => phase'[j] = phase[j]
    BY DEF WriteDescriptor
<1>5. \A i \in Instances : ListDirectory(i) =>
        pid' = pid /\ \A j \in Instances : phase[j] \in Gone => phase'[j] = phase[j]
    BY DEF ListDirectory
<1>6. \A i \in Instances : ReapSocket(i) =>
        pid' = pid /\ \A j \in Instances : phase[j] \in Gone => phase'[j] = phase[j]
    BY DEF ReapSocket
<1>7. \A i \in Instances : ReapDescriptor(i) =>
        pid' = pid /\ \A j \in Instances : phase[j] \in Gone => phase'[j] = phase[j]
    BY DEF ReapDescriptor
<1>8. \A i \in Instances : Serve(i) =>
        pid' = pid /\ \A j \in Instances : phase[j] \in Gone => phase'[j] = phase[j]
    BY DEF Serve
<1>9. \A i \in Instances : RaiseShutdown(i) =>
        pid' = pid /\ \A j \in Instances : phase[j] \in Gone => phase'[j] = phase[j]
    BY DEF RaiseShutdown
<1>10. \A i \in Instances : CloseListener(i) =>
        pid' = pid /\ \A j \in Instances : phase[j] \in Gone => phase'[j] = phase[j]
    BY DEF CloseListener
<1>11. \A i \in Instances : RemoveDescriptor(i) =>
        pid' = pid /\ \A j \in Instances : phase[j] \in Gone => phase'[j] = phase[j]
    BY DEF RemoveDescriptor
<1>12. \A i \in Instances : Crash(i) =>
        pid' = pid /\ \A j \in Instances : phase[j] \in Gone => phase'[j] = phase[j]
    BY DEF Crash, Alive
<1>13. \A i \in Instances : Launch(i) =>
        \A j \in Instances : phase[j] \in Over => phase'[j] = phase[j]
    BY DEF Launch
<1>14. Quiet => pid' = pid /\ phase' = phase
    BY QuietFrame
<1> HIDE DEF TypeOK, Goes
<1> QED BY <1>1, <1>2, <1>3, <1>4, <1>5, <1>6, <1>7, <1>8, <1>9,
           <1>10, <1>11, <1>12, <1>13, <1>14, NextCases

LEMMA LivePidsShrink ==
    ASSUME TypeOK, pid' = pid,
           \A j \in Instances : phase[j] \in Gone => phase'[j] = phase[j]
    PROVE  LivePids' \subseteq LivePids
BY DEF LivePids, Alive

\* A launch takes one pid more, one that no living process has.
LEMMA LaunchTakesOne ==
    ASSUME TypeOK, NEW i \in Instances, Launch(i)
    PROVE  \E p \in Pids :
             /\ pid' = [pid EXCEPT ![i] = p]
             /\ dead' = [j \in Instances |-> {k \in dead[j] : pid[k] # p}]
             /\ LivePids' \subseteq LivePids \cup {p}
<1>1. PICK p \in Pids \ LivePids :
        /\ pid' = [pid EXCEPT ![i] = p]
        /\ dead' = [j \in Instances |-> {k \in dead[j] : pid[k] # p}]
    BY DEF Launch
<1>2. \A j \in Instances \ {i} : phase'[j] = phase[j] /\ pid'[j] = pid[j]
    BY <1>1 DEF Launch, Goes, TypeOK
<1>3. pid'[i] = p
    BY <1>1 DEF TypeOK
<1>4. LivePids' \subseteq LivePids \cup {p}
    BY <1>2, <1>3 DEF LivePids, Alive
<1> QED BY <1>1, <1>4

-----------------------------------------------------------------------------
(* What a reaper deletes.                                                  *)

LEMMA DoomedStep ==
    ASSUME TypeOK, Files, Doomed, Next
    PROVE  Doomed'
<1>0. \A j \in Instances : phase[j] \in Over => phase'[j] = phase[j]
    BY GoneStays
<1> USE DEF TypeOK, Doomed, Goes
<1>1. ASSUME NEW i \in Instances, NEW j \in Instances, Examine(i, j)
      PROVE  Doomed'
    <2>1. descriptor[j] = "written" /\ pid[j] \notin LivePids => phase[j] \in Over
        BY DEF LivePids, Alive, Gone, Over, Files, NotYet
    <2> QED BY <1>1, <2>1 DEF Examine
<1>2. CASE \/ \E i \in Instances : Accepts(i) \/ AcceptFails(i) \/ StopLoop(i)
           \/ \E t \in Tools : Discover(t)
    <2>1. UNCHANGED <<phase, doomed, todo>>
        BY <1>2 DEF Accepts, Accept, AcceptFails, StopLoop, Discover, Scan, Probe,
           ProbeThat, FindNothing, Connect, reaper
    <2> QED BY <2>1
<1>3. ASSUME NEW i \in Instances, Launch(i)
      PROVE  Doomed'
    BY <1>0, <1>3 DEF Launch
<1>4. ASSUME NEW i \in Instances, Bind(i)
      PROVE  Doomed'
    BY <1>0, <1>4 DEF Bind, reaper
<1>5. ASSUME NEW i \in Instances, StartFails(i)
      PROVE  Doomed'
    BY <1>0, <1>5 DEF StartFails, reaper
<1>6. ASSUME NEW i \in Instances, CreateDescriptor(i)
      PROVE  Doomed'
    BY <1>0, <1>6 DEF CreateDescriptor, reaper
<1>7. ASSUME NEW i \in Instances, WriteDescriptor(i)
      PROVE  Doomed'
    BY <1>0, <1>7 DEF WriteDescriptor, reaper
<1>8. ASSUME NEW i \in Instances, ListDirectory(i)
      PROVE  Doomed'
    BY <1>0, <1>8 DEF ListDirectory
<1>9. ASSUME NEW i \in Instances, ReapSocket(i)
      PROVE  Doomed'
    BY <1>0, <1>9 DEF ReapSocket, reaper
<1>10. ASSUME NEW i \in Instances, ReapDescriptor(i)
      PROVE  Doomed'
    BY <1>0, <1>10, ZeroIsNoInstance DEF ReapDescriptor
<1>11. ASSUME NEW i \in Instances, Serve(i)
      PROVE  Doomed'
    BY <1>0, <1>11 DEF Serve, reaper
<1>12. ASSUME NEW i \in Instances, RaiseShutdown(i)
      PROVE  Doomed'
    BY <1>0, <1>12 DEF RaiseShutdown, reaper
<1>13. ASSUME NEW i \in Instances, CloseListener(i)
      PROVE  Doomed'
    BY <1>0, <1>13 DEF CloseListener, reaper
<1>14. ASSUME NEW i \in Instances, RemoveDescriptor(i)
      PROVE  Doomed'
    BY <1>0, <1>14 DEF RemoveDescriptor, reaper
<1>15. ASSUME NEW i \in Instances, Crash(i)
      PROVE  Doomed'
    BY <1>0, <1>15, ZeroIsNoInstance DEF Crash
<1> HIDE DEF TypeOK, Doomed
<1> QED BY <1>1, <1>2, <1>3, <1>4, <1>5, <1>6, <1>7, <1>8, <1>9, <1>10,
           <1>11, <1>12, <1>13, <1>14, <1>15, NextCases DEF Quiet

-----------------------------------------------------------------------------
(* What a reaper owes.                                                     *)

\* The process of an owed entry stays gone, and its pid unused.
LEMMA OwedGone ==
    ASSUME TypeOK, Owed, Next, UNCHANGED dead
    PROVE  \A i \in Instances : \A j \in dead[i] :
             phase'[j] \in Over /\ pid'[j] \notin LivePids'
<1>1. \A i \in Instances : \A j \in dead[i] :
        j \in Instances /\ phase[j] \in Over /\ pid[j] \notin LivePids
    BY DEF Owed, TypeOK
<1>2. \A i \in Instances : \A j \in dead[i] : phase'[j] \in Over
    BY <1>1, GoneStays
<1>3. CASE /\ pid' = pid
           /\ \A j \in Instances : phase[j] \in Gone => phase'[j] = phase[j]
    BY <1>1, <1>2, <1>3, LivePidsShrink
<1>4. ASSUME NEW i \in Instances, Launch(i)
      PROVE  \A k \in Instances : \A j \in dead[k] : pid'[j] \notin LivePids'
    <2>1. PICK p \in Pids :
            /\ pid' = [pid EXCEPT ![i] = p]
            /\ dead' = [j \in Instances |-> {k \in dead[j] : pid[k] # p}]
            /\ LivePids' \subseteq LivePids \cup {p}
        BY <1>4, LaunchTakesOne
    <2>2. \A k \in Instances : \A j \in dead[k] : pid[j] # p
        BY <2>1
    <2>3. \A k \in Instances : \A j \in dead[k] : j # i
        BY <1>1, <1>4 DEF Launch, Over
    <2>4. \A k \in Instances : \A j \in dead[k] : pid'[j] = pid[j]
        BY <1>1, <2>1, <2>3 DEF TypeOK
    <2> QED BY <1>1, <2>1, <2>2, <2>4
<1> QED BY <1>2, <1>3, <1>4, GoneStays

LEMMA OwedStep ==
    ASSUME TypeOK, Files, Doomed, Owed, Next
    PROVE  Owed'
<1>0. UNCHANGED dead => \A i \in Instances : \A j \in dead[i] :
        phase'[j] \in Over /\ pid'[j] \notin LivePids'
    BY OwedGone
<1>1. \A i \in Instances : \A j \in dead[i] : j \in Instances
    BY DEF TypeOK
<1> DEFINE
      Whole(j) == descriptor[j] = "written" \/ (descriptor[j] = "none" /\ j \notin sockets)
      Past(i, j) == ~(phase[i] = "scanning" /\ j \in todo[i]) => descriptor[j] = "none"
<1>2. \A i \in Instances : \A j \in dead[i] :
        phase[j] \in Over /\ pid[j] \notin LivePids /\ Whole(j) /\ Past(i, j)
    BY DEF Owed
<1>4. CASE UNCHANGED <<phase, sockets, descriptor, todo, dead>>
    BY <1>0, <1>2, <1>4 DEF Owed
<1>5. (\E i \in Instances : Accepts(i) \/ AcceptFails(i) \/ StopLoop(i))
        \/ (\E t \in Tools : Discover(t)) =>
        UNCHANGED <<phase, sockets, descriptor, todo, dead>>
    BY DEF Accepts, Accept, AcceptFails, StopLoop, Discover, Scan, Probe,
       ProbeThat, FindNothing, Connect, reaper, serverFiles
<1>6. ASSUME NEW k \in Instances, NEW l \in Instances, Examine(k, l)
      PROVE  Owed'
    <2>1. UNCHANGED <<phase, sockets, descriptor, dead>>
        BY <1>6 DEF Examine, serverFiles
    <2>2. \A i \in Instances : \A j \in dead[i] :
            phase[i] = "scanning" /\ j \in todo[i] /\ j \notin todo'[i] => descriptor[j] = "none"
        BY <1>2, <1>6 DEF Examine, TypeOK
    <2> QED BY <1>0, <1>2, <2>1, <2>2 DEF Owed
<1>7. ASSUME NEW k \in Instances, Launch(k)
      PROVE  Owed'
    <2>1. PICK p \in Pids :
            /\ pid' = [pid EXCEPT ![k] = p]
            /\ dead' = [j \in Instances |-> {l \in dead[j] : pid[l] # p}]
            /\ LivePids' \subseteq LivePids \cup {p}
        BY <1>7, LaunchTakesOne
    <2>2. \A i \in Instances : \A j \in dead'[i] : j \in dead[i] /\ pid[j] # p
        BY <2>1
    <2>3. \A i \in Instances : \A j \in dead'[i] : j # k
        BY <1>2, <1>7, <2>2 DEF Launch, Over
    <2>4. \A i \in Instances : \A j \in dead'[i] : pid'[j] = pid[j] /\ phase'[j] = phase[j]
        BY <1>1, <1>7, <2>1, <2>2, <2>3 DEF TypeOK, Launch, Goes
    <2>5. /\ UNCHANGED <<sockets, descriptor, todo>>
          /\ \A i \in Instances : phase[i] = "scanning" => phase'[i] = "scanning"
        BY <1>7 DEF Launch, Goes, serverFiles, TypeOK
    <2> QED BY <1>2, <2>1, <2>2, <2>4, <2>5 DEF Owed
<1>8. ASSUME NEW k \in Instances, ListDirectory(k)
      PROVE  Owed'
    <2>1. UNCHANGED <<pid, sockets, descriptor>>
          /\ phase' = [phase EXCEPT ![k] = "scanning"]
        BY <1>8 DEF ListDirectory, serverFiles, Goes
    <2>2. \A i \in Instances \ {k} : dead'[i] = dead[i] /\ todo'[i] = todo[i]
        BY <1>8 DEF ListDirectory, TypeOK
    <2>3. /\ dead'[k] = {j \in todo'[k] : descriptor[j] = "written" /\ pid[j] \notin LivePids}
          /\ todo'[k] \subseteq Instances
        BY <1>8 DEF ListDirectory, TypeOK
    <2>4. LivePids' \subseteq LivePids
        BY <1>8, LivePidsShrink DEF ListDirectory, Goes, TypeOK, Gone
    <2>5. \A j \in Instances : pid[j] \notin LivePids /\ descriptor[j] = "written" =>
            phase[j] \in Over
        BY DEF LivePids, Alive, Gone, Over, Files, NotYet, TypeOK
    <2>6. \A j \in Instances : phase[j] \in Over => phase'[j] = phase[j]
        BY GoneStays
    <2>7. \A j \in dead'[k] :
            phase'[j] \in Over /\ pid'[j] \notin LivePids' /\ Whole(j)' /\ Past(k, j)'
        BY <2>1, <2>3, <2>4, <2>5, <2>6 DEF TypeOK
    <2>8. \A i \in Instances \ {k} : \A j \in dead'[i] :
            phase'[j] \in Over /\ pid'[j] \notin LivePids' /\ Whole(j)' /\ Past(i, j)'
        BY <1>1, <1>2, <2>1, <2>2, <2>4, <2>6 DEF TypeOK
    <2> QED BY <2>7, <2>8 DEF Owed
<1>9. ASSUME NEW k \in Instances, ReapDescriptor(k)
      PROVE  Owed'
    <2>1. UNCHANGED <<phase, pid, sockets, dead>>
        BY <1>9 DEF ReapDescriptor
    <2>2. /\ descriptor' = [descriptor EXCEPT ![doomed[k]] = "none"]
          /\ doomed[k] \notin sockets /\ doomed[k] \in Instances
          /\ todo' = [todo EXCEPT ![k] = @ \ {doomed[k]}]
        BY <1>9, ZeroIsNoInstance DEF ReapDescriptor, Delete, TypeOK
    <2>3. \A j \in Instances : descriptor'[j] = IF j = doomed[k] THEN "none" ELSE descriptor[j]
        BY <2>2 DEF TypeOK
    <2>4. \A i, j \in Instances : j \in todo[i] /\ j \notin todo'[i] => j = doomed[k]
        BY <2>2 DEF TypeOK
    <2>5. \A i \in Instances : \A j \in dead[i] : Whole(j)' /\ Past(i, j)'
        BY <1>1, <1>2, <2>1, <2>2, <2>3, <2>4
    <2> QED BY <1>0, <2>1, <2>5 DEF Owed
<1>10. ASSUME NEW k \in Instances, Crash(k)
      PROVE  Owed'
    <2>1. /\ UNCHANGED <<pid, sockets, descriptor>>
          /\ phase' = [phase EXCEPT ![k] = "crashed"]
          /\ todo' = [todo EXCEPT ![k] = {}] /\ dead' = [dead EXCEPT ![k] = {}]
          /\ phase[k] \notin Gone
        BY <1>10 DEF Crash, Goes, serverFiles, Alive
    <2>2. LivePids' \subseteq LivePids
        BY <2>1, LivePidsShrink DEF TypeOK, Gone
    <2>3. \A j \in Instances : phase[j] \in Over => phase'[j] = phase[j]
        BY GoneStays
    <2>4. \A i \in Instances : \A j \in dead'[i] :
            i # k /\ j \in dead[i] /\ phase'[i] = phase[i] /\ todo'[i] = todo[i]
        BY <2>1 DEF TypeOK
    <2> QED BY <1>1, <1>2, <2>1, <2>2, <2>3, <2>4 DEF Owed
<1>11. ASSUME NEW k \in Instances, StartFails(k)
      PROVE  Owed'
    <2>1. UNCHANGED <<dead, todo>>
        BY <1>11 DEF StartFails, reaper
    <2>2. \A i \in Instances : \A j \in dead[i] : Whole(j)' /\ Past(i, j)'
        BY <1>1, <1>2, <1>11, <2>1 DEF StartFails, Goes, serverFiles, TypeOK, Over
    <2> QED BY <1>0, <2>1, <2>2 DEF Owed
<1>12. ASSUME NEW k \in Instances, Bind(k)
      PROVE  Owed'
    <2>1. UNCHANGED <<dead, todo>>
        BY <1>12 DEF Bind, reaper
    <2>2. \A i \in Instances : \A j \in dead[i] : Whole(j)' /\ Past(i, j)'
        BY <1>1, <1>2, <1>12, <2>1 DEF Bind, Goes, serverFiles, TypeOK, Over
    <2> QED BY <1>0, <2>1, <2>2 DEF Owed
<1>13. ASSUME NEW k \in Instances, CreateDescriptor(k)
      PROVE  Owed'
    <2>1. UNCHANGED <<dead, todo>>
        BY <1>13 DEF CreateDescriptor, reaper
    <2>2. \A i \in Instances : \A j \in dead[i] : Whole(j)' /\ Past(i, j)'
        BY <1>1, <1>2, <1>13, <2>1 DEF CreateDescriptor, Goes, serverFiles, TypeOK, Over
    <2> QED BY <1>0, <2>1, <2>2 DEF Owed
<1>14. ASSUME NEW k \in Instances, WriteDescriptor(k)
      PROVE  Owed'
    <2>1. UNCHANGED <<dead, todo>>
        BY <1>14 DEF WriteDescriptor, reaper
    <2>2. \A i \in Instances : \A j \in dead[i] : Whole(j)' /\ Past(i, j)'
        BY <1>1, <1>2, <1>14, <2>1 DEF WriteDescriptor, Goes, serverFiles, TypeOK, Over
    <2> QED BY <1>0, <2>1, <2>2 DEF Owed
<1>15. ASSUME NEW k \in Instances, Serve(k)
      PROVE  Owed'
    <2>1. UNCHANGED <<dead, todo>>
        BY <1>15 DEF Serve, reaper
    <2>2. \A i \in Instances : \A j \in dead[i] : Whole(j)' /\ Past(i, j)'
        BY <1>1, <1>2, <1>15, <2>1 DEF Serve, Goes, serverFiles, TypeOK, Over
    <2> QED BY <1>0, <2>1, <2>2 DEF Owed
<1>16. ASSUME NEW k \in Instances, RaiseShutdown(k)
      PROVE  Owed'
    <2>1. UNCHANGED <<dead, todo>>
        BY <1>16 DEF RaiseShutdown, reaper
    <2>2. \A i \in Instances : \A j \in dead[i] : Whole(j)' /\ Past(i, j)'
        BY <1>1, <1>2, <1>16, <2>1 DEF RaiseShutdown, Goes, serverFiles, TypeOK, Over
    <2> QED BY <1>0, <2>1, <2>2 DEF Owed
<1>17. ASSUME NEW k \in Instances, CloseListener(k)
      PROVE  Owed'
    <2>1. UNCHANGED <<dead, todo>>
        BY <1>17 DEF CloseListener, reaper
    <2>2. \A i \in Instances : \A j \in dead[i] : Whole(j)' /\ Past(i, j)'
        BY <1>1, <1>2, <1>17, <2>1 DEF CloseListener, Goes, serverFiles, TypeOK, Over
    <2> QED BY <1>0, <2>1, <2>2 DEF Owed
<1>18. ASSUME NEW k \in Instances, RemoveDescriptor(k)
      PROVE  Owed'
    <2>1. UNCHANGED <<dead, todo>>
        BY <1>18 DEF RemoveDescriptor, reaper
    <2>2. \A i \in Instances : \A j \in dead[i] : Whole(j)' /\ Past(i, j)'
        BY <1>1, <1>2, <1>18, <2>1 DEF RemoveDescriptor, Goes, serverFiles, TypeOK, Over, Delete
    <2> QED BY <1>0, <2>1, <2>2 DEF Owed
<1>19. ASSUME NEW k \in Instances, ReapSocket(k)
      PROVE  Owed'
    <2>1. UNCHANGED <<dead, todo>>
        BY <1>19 DEF ReapSocket, reaper
    <2>2. \A i \in Instances : \A j \in dead[i] : Whole(j)' /\ Past(i, j)'
        BY <1>1, <1>2, <1>19, <2>1 DEF ReapSocket, Goes, serverFiles, TypeOK, Over
    <2> QED BY <1>0, <2>1, <2>2 DEF Owed
<1> QED BY <1>4, <1>5, <1>6, <1>7, <1>8, <1>9, <1>10, <1>11, <1>12, <1>13, <1>14, <1>15,
           <1>16, <1>17, <1>18, <1>19, NextCases DEF Quiet

-----------------------------------------------------------------------------
(* The connections.                                                        *)

LEMMA ClosedValues ==
    ASSUME TypeOK, NEW i, NEW steps, Closed(i, steps), NEW t \in Tools
    PROVE  /\ tool'[t].at = tool[t].at /\ tool'[t].candidates = tool[t].candidates
           /\ \/ tool'[t].step = tool[t].step
                 /\ ~(tool[t].at = i /\ tool[t].step \in steps)
              \/ tool'[t].step = "closed"
<1>1. tool[t] \in [step : ToolSteps, at : Instances \cup {NoInstance},
                   candidates : SUBSET [at : Instances, modified : Nat]]
    BY DEF TypeOK
<1>2. tool'[t] = IF tool[t].at = i /\ tool[t].step \in steps
                 THEN [tool[t] EXCEPT !.step = "closed"] ELSE tool[t]
    BY DEF Closed
<1> QED BY <1>1, <1>2

\* What one step of a discovery makes of its own record; the others keep theirs.
LEMMA DiscoverValues ==
    ASSUME TypeOK, NEW t \in Tools, Discover(t)
    PROVE  /\ \A u \in Tools \ {t} : tool'[u] = tool[u] /\ steady'[u] = steady[u]
           /\ tool'[t].step \in {"found", "queued", "served"} =>
                \/ tool[t].step = "found" /\ tool'[t].step = "queued"
                   /\ tool'[t].at = tool[t].at /\ Connectable(tool[t].at)
                \/ tool[t].step = "probing" /\ tool'[t].step = "found"
                   /\ tool'[t].at \in Instances /\ Answers(tool'[t].at)
<1> DEFINE Records == [step : ToolSteps, at : Instances \cup {NoInstance},
                       candidates : SUBSET [at : Instances, modified : Nat]]
<1>1. tool[t] \in Records /\ \A u \in Tools : tool[u] \in Records
    BY DEF TypeOK
<1>2. CASE Scan(t)
    <2>1. tool'[t].step = "probing"
        BY <1>2 DEF Scan, TypeOK
    <2> QED BY <1>2, <2>1 DEF Scan, TypeOK
<1>3. ASSUME NEW c \in tool[t].candidates, tool[t].step = "probing", ProbeThat(t, c)
      PROVE  /\ \A u \in Tools \ {t} : tool'[u] = tool[u] /\ steady'[u] = steady[u]
             /\ tool'[t].step # "probing" =>
                  tool'[t].step = "found" /\ tool'[t].at \in Instances /\ Answers(tool'[t].at)
    <2>1. c.at \in Instances
        BY <1>1
    <2>2. CASE Answers(c.at)
        <3>1. tool' = [tool EXCEPT ![t] = [step |-> "found", candidates |-> {}, at |-> c.at]]
            BY <1>3, <2>2 DEF ProbeThat
        <3>2. tool'[t].step = "found" /\ tool'[t].at = c.at
            BY <3>1 DEF TypeOK
        <3> QED BY <1>3, <2>1, <2>2, <3>1, <3>2 DEF ProbeThat, TypeOK
    <2>3. CASE ~Answers(c.at)
        <3>1. tool' = [tool EXCEPT ![t].candidates = @ \ {c}]
            BY <1>3, <2>3 DEF ProbeThat
        <3>2. tool'[t].step = "probing"
            BY <1>1, <1>3, <3>1 DEF TypeOK
        <3> QED BY <1>3, <3>1, <3>2 DEF ProbeThat, TypeOK
    <2> QED BY <2>2, <2>3
<1>4. CASE FindNothing(t)
    <2>1. tool'[t].step = "none"
        BY <1>4 DEF FindNothing, TypeOK
    <2> QED BY <1>4, <2>1 DEF FindNothing, TypeOK
<1>5. CASE Connect(t)
    <2>1. tool'[t].step = IF Connectable(tool[t].at) THEN "queued" ELSE "refused"
        BY <1>5 DEF Connect, TypeOK
    <2>2. tool'[t].at = tool[t].at
        BY <1>1, <1>5 DEF Connect, TypeOK
    <2> QED BY <1>5, <2>1, <2>2 DEF Connect, TypeOK
<1> QED BY <1>2, <1>3, <1>4, <1>5 DEF Discover, Probe

LEMMA ConnectedStep ==
    ASSUME TypeOK, Files, Connected, Next
    PROVE  Connected'
<1>1. CASE UNCHANGED <<phase, loop, tool>>
    BY <1>1 DEF Connected
<1>2. ASSUME NEW i \in Instances, NEW j \in Instances, Examine(i, j)
      PROVE  UNCHANGED <<phase, loop, tool>>
    BY <1>2 DEF Examine
<1>3. ASSUME NEW i \in Instances, NEW t \in Tools, Accept(i, t)
      PROVE  Connected'
    <2>1. \A u \in Tools : /\ tool'[u].at = tool[u].at
                            /\ tool'[u].step = IF u = t THEN "served" ELSE tool[u].step
        BY <1>3 DEF Accept, TypeOK
    <2> QED BY <1>3, <2>1 DEF Accept, Connected
<1>4. ASSUME NEW i \in Instances, AcceptFails(i) \/ StopLoop(i)
      PROVE  Connected'
    <2>1. loop' = [loop EXCEPT ![i] = "ended"] /\ phase' = phase /\ Closed(i, {"served"})
        BY <1>4 DEF AcceptFails, StopLoop
    <2>2. \A t \in Tools :
            /\ tool'[t].at = tool[t].at
            /\ \/ tool'[t].step = tool[t].step /\ ~(tool[t].at = i /\ tool[t].step = "served")
               \/ tool'[t].step = "closed"
        BY <2>1, ClosedValues
    <2> QED BY <2>1, <2>2 DEF Connected, TypeOK
<1>5. ASSUME NEW t \in Tools, Discover(t)
      PROVE  Connected'
    <2>1. UNCHANGED <<phase, loop>>
        BY <1>5 DEF Discover, Scan, Probe, ProbeThat, FindNothing, Connect
    <2>2. \A i \in Instances : Answers(i) => phase[i] \notin NotYet \cup {"creating"}
        BY DEF Answers, Files, NotYet
    <2>3. \A i \in Instances :
            Connectable(i) /\ phase[i] \notin NotYet \cup {"creating"} => phase[i] \in Up
        BY DEF Connectable, Listening, NotYet, Up
    <2> QED BY <1>5, <2>1, <2>2, <2>3, DiscoverValues DEF Connected
<1>6. ASSUME NEW i \in Instances, CloseListener(i)
      PROVE  Connected'
    <2>1. /\ phase' = [phase EXCEPT ![i] = "unlinking"] /\ loop' = loop
          /\ phase[i] = "draining" /\ loop[i] = "ended" /\ Closed(i, {"queued"})
        BY <1>6 DEF CloseListener, Goes
    <2>2. \A t \in Tools :
            /\ tool'[t].at = tool[t].at
            /\ \/ tool'[t].step = tool[t].step /\ ~(tool[t].at = i /\ tool[t].step = "queued")
               \/ tool'[t].step = "closed"
        BY <2>1, ClosedValues
    <2>3. \A j \in Instances : phase'[j] = IF j = i THEN "unlinking" ELSE phase[j]
        BY <2>1 DEF TypeOK
    <2>4. \A j \in Instances : loop'[j] = "accepting" => phase'[j] \in {"serving", "draining"}
        BY <2>1, <2>3 DEF Connected
    <2>5. \A j \in Instances :
            /\ phase[j] \notin NotYet \cup {"creating"} => phase'[j] \notin NotYet \cup {"creating"}
            /\ phase[j] \in Up /\ j # i => phase'[j] \in Up
        BY <2>3 DEF NotYet
    <2> QED BY <2>1, <2>2, <2>4, <2>5 DEF Connected
<1>7. ASSUME NEW i \in Instances, Crash(i)
      PROVE  Connected'
    <2>1. /\ phase' = [phase EXCEPT ![i] = "crashed"] /\ loop' = [loop EXCEPT ![i] = "off"]
          /\ Closed(i, {"queued", "served"})
        BY <1>7 DEF Crash, Goes
    <2>2. \A t \in Tools :
            /\ tool'[t].at = tool[t].at
            /\ \/ tool'[t].step = tool[t].step
                  /\ ~(tool[t].at = i /\ tool[t].step \in {"queued", "served"})
               \/ tool'[t].step = "closed"
        BY <2>1, ClosedValues
    <2> QED BY <2>1, <2>2 DEF Connected, TypeOK, NotYet, Up
<1>8. ASSUME NEW i \in Instances, Serve(i)
      PROVE  Connected'
    BY <1>8 DEF Serve, Goes, Connected, TypeOK, NotYet, Up
<1>9. ASSUME NEW i \in Instances, Launch(i)
      PROVE  Connected'
    BY <1>9 DEF Launch, Goes, Connected, TypeOK, NotYet, Up
<1>10. ASSUME NEW i \in Instances, Bind(i)
      PROVE  Connected'
    BY <1>10 DEF Bind, Goes, Connected, TypeOK, NotYet, Up
<1>11. ASSUME NEW i \in Instances, StartFails(i)
      PROVE  Connected'
    BY <1>11 DEF StartFails, Goes, Connected, TypeOK, NotYet, Up
<1>12. ASSUME NEW i \in Instances, CreateDescriptor(i)
      PROVE  Connected'
    BY <1>12 DEF CreateDescriptor, Goes, Connected, TypeOK, NotYet, Up
<1>13. ASSUME NEW i \in Instances, WriteDescriptor(i)
      PROVE  Connected'
    BY <1>13 DEF WriteDescriptor, Goes, Connected, TypeOK, NotYet, Up
<1>14. ASSUME NEW i \in Instances, ListDirectory(i)
      PROVE  Connected'
    BY <1>14 DEF ListDirectory, Goes, Connected, TypeOK, NotYet, Up
<1>15. ASSUME NEW i \in Instances, ReapSocket(i)
      PROVE  Connected'
    BY <1>15 DEF ReapSocket, Goes, Connected, TypeOK, NotYet, Up
<1>16. ASSUME NEW i \in Instances, ReapDescriptor(i)
      PROVE  Connected'
    BY <1>16 DEF ReapDescriptor, Goes, Connected, TypeOK, NotYet, Up
<1>17. ASSUME NEW i \in Instances, RaiseShutdown(i)
      PROVE  Connected'
    BY <1>17 DEF RaiseShutdown, Goes, Connected, TypeOK, NotYet, Up
<1>18. ASSUME NEW i \in Instances, RemoveDescriptor(i)
      PROVE  Connected'
    BY <1>18 DEF RemoveDescriptor, Goes, Connected, TypeOK, NotYet, Up
<1> QED BY <1>1, <1>2, <1>3, <1>4, <1>5, <1>6, <1>7, <1>8, <1>9, <1>10, <1>11, <1>12, <1>13,
           <1>14, <1>15, <1>16, <1>17, <1>18, NextCases DEF Quiet, Accepts

-----------------------------------------------------------------------------
(* The discoveries.                                                        *)

\* A descriptor that is there keeps its time while it is there, and that of an
\* instance that serves is there.
LEMMA FileTimes ==
    ASSUME TypeOK, Files, Doomed, Next
    PROVE  \A j \in Instances : phase[j] \notin NotYet =>
             /\ phase'[j] \notin NotYet
             /\ descriptor'[j] = "none" \/ (descriptor[j] # "none" /\ modified'[j] = modified[j])
             /\ phase[j] = "serving" => modified'[j] = modified[j]
<1> DEFINE Kept(j) == phase[j] \notin NotYet =>
             /\ phase'[j] \notin NotYet
             /\ descriptor'[j] = "none" \/ (descriptor[j] # "none" /\ modified'[j] = modified[j])
             /\ phase[j] = "serving" => modified'[j] = modified[j]
<1>1. \A j \in Instances :
        /\ phase[j] \in {"creating", "announced", "serving"} => descriptor[j] # "none"
        /\ phase[j] = "creating" => phase[j] \notin NotYet
    BY DEF Files, Up, NotYet
<1>2. CASE Quiet
    BY <1>2, QuietFrame
<1>3. ASSUME NEW i \in Instances, Launch(i), NEW j \in Instances
      PROVE  Kept(j)
    BY <1>1, <1>3 DEF Launch, Goes, serverFiles, times, NotYet, TypeOK
<1>4. ASSUME NEW i \in Instances, Bind(i), NEW j \in Instances
      PROVE  Kept(j)
    BY <1>1, <1>4 DEF Bind, Goes, times, NotYet, TypeOK
<1>5. ASSUME NEW i \in Instances, StartFails(i), NEW j \in Instances
      PROVE  Kept(j)
    BY <1>1, <1>5 DEF StartFails, Goes, serverFiles, times, NotYet, TypeOK
<1>6. ASSUME NEW i \in Instances, CreateDescriptor(i), NEW j \in Instances
      PROVE  Kept(j)
    BY <1>1, <1>6 DEF CreateDescriptor, Goes, NotYet, TypeOK
<1>7. ASSUME NEW i \in Instances, WriteDescriptor(i), NEW j \in Instances
      PROVE  Kept(j)
    BY <1>1, <1>7 DEF WriteDescriptor, Goes, times, NotYet, TypeOK
<1>8. ASSUME NEW i \in Instances, ListDirectory(i), NEW j \in Instances
      PROVE  Kept(j)
    BY <1>1, <1>8 DEF ListDirectory, Goes, serverFiles, times, NotYet, TypeOK
<1>9. ASSUME NEW i \in Instances, ReapSocket(i), NEW j \in Instances
      PROVE  Kept(j)
    BY <1>1, <1>9 DEF ReapSocket, Goes, times, NotYet, TypeOK
<1>10. ASSUME NEW i \in Instances, ReapDescriptor(i), NEW j \in Instances
      PROVE  Kept(j)
    <2>1. phase[doomed[i]] \in Over
        BY <1>10 DEF ReapDescriptor, Doomed
    <2> QED BY <1>10, <2>1 DEF ReapDescriptor, Delete, Over, TypeOK
<1>11. ASSUME NEW i \in Instances, Serve(i), NEW j \in Instances
      PROVE  Kept(j)
    BY <1>1, <1>11 DEF Serve, Goes, serverFiles, times, NotYet, TypeOK
<1>12. ASSUME NEW i \in Instances, RaiseShutdown(i), NEW j \in Instances
      PROVE  Kept(j)
    BY <1>1, <1>12 DEF RaiseShutdown, Goes, serverFiles, times, NotYet, TypeOK
<1>13. ASSUME NEW i \in Instances, CloseListener(i), NEW j \in Instances
      PROVE  Kept(j)
    BY <1>1, <1>13 DEF CloseListener, Goes, times, NotYet, TypeOK
<1>14. ASSUME NEW i \in Instances, RemoveDescriptor(i), NEW j \in Instances
      PROVE  Kept(j)
    BY <1>1, <1>14 DEF RemoveDescriptor, Goes, Delete, NotYet, TypeOK
<1>15. ASSUME NEW i \in Instances, Crash(i), NEW j \in Instances
      PROVE  Kept(j)
    BY <1>1, <1>15 DEF Crash, Goes, serverFiles, times, NotYet, TypeOK
<1> QED BY <1>2, <1>3, <1>4, <1>5, <1>6, <1>7, <1>8, <1>9, <1>10, <1>11,
           <1>12, <1>13, <1>14, <1>15, NextCases

\* Every step but its own leaves a discovery where it is, or serves or closes the
\* connection it made, and takes from its steady instances those that go.
LEMMA OthersSteps ==
    ASSUME TypeOK, Next, NEW t \in Tools, ~Discover(t)
    PROVE  /\ tool'[t].at = tool[t].at /\ tool'[t].candidates = tool[t].candidates
           /\ tool'[t].step \in {tool[t].step, "served", "closed"}
           /\ \A i \in steady'[t] :
                i \in steady[t] /\ (phase[i] = "serving" => phase'[i] = "serving")
<1> DEFINE Left == /\ tool'[t].at = tool[t].at /\ tool'[t].candidates = tool[t].candidates
                   /\ tool'[t].step \in {tool[t].step, "served", "closed"}
           Shrunk == \A i \in steady'[t] :
                       i \in steady[t] /\ (phase[i] = "serving" => phase'[i] = "serving")
<1>1. steady[t] \subseteq Instances /\ phase \in [Instances -> Phases]
    BY DEF TypeOK
<1>2. ASSUME NEW i \in Instances, NEW j \in Instances, Examine(i, j)
      PROVE  Left /\ Shrunk
    BY <1>2 DEF Examine
<1>3. ASSUME NEW i \in Instances, NEW u \in Tools, Accept(i, u)
      PROVE  Left /\ Shrunk
    <2>1. Left
        BY <1>3 DEF Accept, TypeOK
    <2> QED BY <1>3, <2>1 DEF Accept
<1>4. ASSUME NEW i \in Instances, AcceptFails(i) \/ StopLoop(i) \/ CloseListener(i) \/ Crash(i)
      PROVE  Left
    <2>1. \E steps : Closed(i, steps)
        BY <1>4 DEF AcceptFails, StopLoop, CloseListener, Crash
    <2> QED BY <2>1, ClosedValues
<1>5. ASSUME NEW i \in Instances, AcceptFails(i) \/ StopLoop(i)
      PROVE  Shrunk
    BY <1>5 DEF AcceptFails, StopLoop
<1>6. ASSUME NEW i \in Instances, CloseListener(i)
      PROVE  Shrunk
    BY <1>1, <1>6 DEF CloseListener, Goes
<1>7. ASSUME NEW i \in Instances, Crash(i)
      PROVE  Shrunk
    BY <1>1, <1>7 DEF Crash, Goes, NoLongerSteady
<1>8. ASSUME NEW i \in Instances, RaiseShutdown(i)
      PROVE  Left /\ Shrunk
    BY <1>1, <1>8 DEF RaiseShutdown, Goes, NoLongerSteady
<1>9. ASSUME NEW u \in Tools, Discover(u)
      PROVE  Left /\ Shrunk
    <2>1. u # t /\ tool'[t] = tool[t] /\ steady'[t] = steady[t]
        BY <1>9, DiscoverValues
    <2>2. phase' = phase
        BY <1>9 DEF Discover, Scan, Probe, ProbeThat, FindNothing, Connect
    <2> QED BY <2>1, <2>2
<1>10. ASSUME NEW i \in Instances, Launch(i)
       PROVE  Left /\ Shrunk
    BY <1>1, <1>10 DEF Launch, Goes
<1>11. ASSUME NEW i \in Instances, Bind(i)
       PROVE  Left /\ Shrunk
    BY <1>1, <1>11 DEF Bind, Goes
<1>12. ASSUME NEW i \in Instances, StartFails(i)
       PROVE  Left /\ Shrunk
    BY <1>1, <1>12 DEF StartFails, Goes
<1>13. ASSUME NEW i \in Instances, CreateDescriptor(i)
       PROVE  Left /\ Shrunk
    BY <1>1, <1>13 DEF CreateDescriptor, Goes
<1>14. ASSUME NEW i \in Instances, WriteDescriptor(i)
       PROVE  Left /\ Shrunk
    BY <1>1, <1>14 DEF WriteDescriptor, Goes
<1>15. ASSUME NEW i \in Instances, ListDirectory(i)
       PROVE  Left /\ Shrunk
    BY <1>1, <1>15 DEF ListDirectory, Goes
<1>16. ASSUME NEW i \in Instances, ReapSocket(i)
       PROVE  Left /\ Shrunk
    BY <1>1, <1>16 DEF ReapSocket, Goes
<1>17. ASSUME NEW i \in Instances, ReapDescriptor(i)
       PROVE  Left /\ Shrunk
    BY <1>1, <1>17 DEF ReapDescriptor, Goes
<1>18. ASSUME NEW i \in Instances, Serve(i)
       PROVE  Left /\ Shrunk
    BY <1>1, <1>18 DEF Serve, Goes
<1>19. ASSUME NEW i \in Instances, RemoveDescriptor(i)
       PROVE  Left /\ Shrunk
    BY <1>1, <1>19 DEF RemoveDescriptor, Goes
<1> QED BY <1>2, <1>3, <1>4, <1>5, <1>6, <1>7, <1>8, <1>9, <1>10, <1>11,
           <1>12, <1>13, <1>14, <1>15, <1>16, <1>17, <1>18, <1>19, NextCases DEF Quiet, Accepts

\* A discovery's own step.
LEMMA OwnSteps ==
    ASSUME TypeOK, Files, Connected, Discovering, NEW t \in Tools, Discover(t)
    PROVE  Discovering'
<1> DEFINE
      Serving(u) == \A i \in steady[u] : phase[i] = "serving"
      Seen(u) == \A c \in tool[u].candidates :
                   /\ phase[c.at] \notin NotYet
                   /\ descriptor[c.at] = "none" \/ modified[c.at] = c.modified
      Ahead(u) == tool[u].step = "probing" =>
                    \A i \in steady[u] :
                      [at |-> i, modified |-> modified[i]] \in tool[u].candidates
      None(u) == tool[u].step = "none" => steady[u] = {}
      Newest(u) == tool[u].step = "found" =>
                     \A i \in steady[u] :
                       descriptor[tool[u].at] # "none" => modified[i] <= modified[tool[u].at]
<1>1. \A u \in Tools : Serving(u) /\ Seen(u) /\ Ahead(u) /\ None(u) /\ Newest(u)
    BY DEF Discovering
<1>2. /\ UNCHANGED <<phase, sockets, descriptor, modified>>
      /\ \A u \in Tools \ {t} : tool'[u] = tool[u] /\ steady'[u] = steady[u]
    BY DiscoverValues DEF Discover, Scan, Probe, ProbeThat, FindNothing, Connect,
       serverFiles, times
<1>3. /\ tool[t] \in [step : ToolSteps, at : Instances \cup {NoInstance},
                       candidates : SUBSET [at : Instances, modified : Nat]]
      /\ steady[t] \subseteq Instances
    BY DEF TypeOK
<1>4. ASSUME Serving(t)', Seen(t)', Ahead(t)', None(t)', Newest(t)'
      PROVE  Discovering'
    <2>1. \A u \in Tools \ {t} : Serving(u)' /\ Seen(u)' /\ Ahead(u)' /\ None(u)' /\ Newest(u)'
        BY <1>1, <1>2
    <2> QED BY <1>4, <2>1 DEF Discovering
<1>5. CASE Scan(t)
    <2>1. /\ tool'[t].step = "probing"
          /\ tool'[t].candidates = {[at |-> i, modified |-> modified[i]] :
                                      i \in {j \in Instances : descriptor[j] # "none"}}
          /\ steady'[t] = {i \in Instances : phase[i] = "serving"}
        BY <1>5 DEF Scan, TypeOK
    <2>2. \A i \in Instances :
            /\ phase[i] = "serving" => descriptor[i] # "none"
            /\ descriptor[i] # "none" => phase[i] \notin NotYet
        BY DEF Files, Up
    <2>3. Serving(t)'
        BY <1>2, <2>1
    <2>4. Seen(t)'
        BY <1>2, <2>1, <2>2
    <2>5. Ahead(t)'
        BY <1>2, <2>1, <2>2
    <2>6. None(t)' /\ Newest(t)'
        BY <2>1
    <2> QED BY <1>4, <2>3, <2>4, <2>5, <2>6
<1>6. ASSUME NEW c \in tool[t].candidates, tool[t].step = "probing", ProbeThat(t, c),
             \A d \in tool[t].candidates : d.modified <= c.modified
      PROVE  Discovering'
    <2>1. steady'[t] = steady[t] /\ c.at \in Instances /\ c.modified \in Nat
        BY <1>3, <1>6 DEF ProbeThat
    <2>2. Serving(t)'
        BY <1>1, <1>2, <2>1
    <2>3. CASE Answers(c.at)
        <3>1. tool' = [tool EXCEPT ![t] = [step |-> "found", candidates |-> {}, at |-> c.at]]
            BY <1>6, <2>3 DEF ProbeThat
        <3>2. tool'[t].step = "found" /\ tool'[t].candidates = {} /\ tool'[t].at = c.at
            BY <3>1 DEF TypeOK
        <3>3. modified[c.at] = c.modified
            BY <1>1, <2>3 DEF Answers
        <3>4. \A i \in steady[t] : modified[i] <= c.modified
            <4>1. ASSUME NEW i \in steady[t]
                  PROVE  modified[i] <= c.modified
                <5>1. [at |-> i, modified |-> modified[i]] \in tool[t].candidates
                    BY <1>1, <1>6
                <5>2. [at |-> i, modified |-> modified[i]].modified <= c.modified
                    BY <1>6, <5>1
                <5> QED BY <5>2
            <4> QED BY <4>1
        <3>5. Newest(t)'
            BY <1>2, <2>1, <3>2, <3>3, <3>4
        <3>6. Seen(t)' /\ Ahead(t)' /\ None(t)'
            BY <3>2
        <3> QED BY <1>4, <2>2, <3>5, <3>6
    <2>4. CASE ~Answers(c.at)
        <3>1. tool' = [tool EXCEPT ![t].candidates = @ \ {c}]
            BY <1>6, <2>4 DEF ProbeThat
        <3>2. tool'[t].step = "probing" /\ tool'[t].candidates = tool[t].candidates \ {c}
            BY <1>3, <1>6, <3>1 DEF TypeOK
        <3>3. Seen(t)'
            BY <1>1, <1>2, <3>2
        <3>4. \A i \in Instances : phase[i] = "serving" => Answers(i)
            BY DEF Answers, Connectable, Listening, Files, Up
        <3>5. \A i \in steady[t] : i # c.at
            BY <1>1, <1>3, <2>4, <3>4
        <3>6. \A i \in steady[t] : [at |-> i, modified |-> modified[i]] # c
            BY <3>5
        <3>7. Ahead(t)'
            BY <1>1, <1>2, <1>6, <2>1, <3>2, <3>6
        <3>8. None(t)' /\ Newest(t)'
            BY <3>2
        <3> QED BY <1>4, <2>2, <3>3, <3>7, <3>8
    <2> QED BY <2>3, <2>4
<1>7. CASE FindNothing(t)
    <2>1. /\ tool'[t].step = "none" /\ tool'[t].candidates = {}
          /\ tool[t].step = "probing" /\ tool[t].candidates = {}
          /\ steady'[t] = steady[t]
        BY <1>3, <1>7 DEF FindNothing, TypeOK
    <2>2. steady[t] = {}
        BY <1>1, <2>1
    <2> QED BY <1>4, <2>1, <2>2
<1>8. CASE Connect(t)
    <2>1. /\ tool'[t].step \in {"queued", "refused"} /\ tool'[t].candidates = tool[t].candidates
          /\ steady'[t] = {}
        BY <1>3, <1>8 DEF Connect, TypeOK
    <2>2. Seen(t)'
        BY <1>1, <1>2, <2>1
    <2> QED BY <1>4, <2>1, <2>2
<1> QED BY <1>5, <1>6, <1>7, <1>8 DEF Discover, Probe

LEMMA DiscoveringStep ==
    ASSUME TypeOK, Files, Doomed, Connected, Discovering, Next
    PROVE  Discovering'
<1>1. CASE \E t \in Tools : Discover(t)
    BY <1>1, OwnSteps
<1>2. CASE \A t \in Tools : ~Discover(t)
    <2> SUFFICES ASSUME NEW t \in Tools
        PROVE  /\ \A i \in steady'[t] : phase'[i] = "serving"
               /\ \A c \in tool'[t].candidates :
                    /\ phase'[c.at] \notin NotYet
                    /\ descriptor'[c.at] = "none" \/ modified'[c.at] = c.modified
               /\ tool'[t].step = "probing" =>
                    \A i \in steady'[t] :
                      [at |-> i, modified |-> modified'[i]] \in tool'[t].candidates
               /\ tool'[t].step = "none" => steady'[t] = {}
               /\ tool'[t].step = "found" =>
                    \A i \in steady'[t] :
                      descriptor'[tool'[t].at] # "none" => modified'[i] <= modified'[tool'[t].at]
        BY DEF Discovering
    <2>1. /\ tool'[t].at = tool[t].at /\ tool'[t].candidates = tool[t].candidates
          /\ tool'[t].step \in {tool[t].step, "served", "closed"}
          /\ \A i \in steady'[t] :
               i \in steady[t] /\ (phase[i] = "serving" => phase'[i] = "serving")
        BY <1>2, OthersSteps
    <2>2. \A j \in Instances : phase[j] \notin NotYet =>
             /\ phase'[j] \notin NotYet
             /\ descriptor'[j] = "none" \/ (descriptor[j] # "none" /\ modified'[j] = modified[j])
             /\ phase[j] = "serving" => modified'[j] = modified[j]
        BY FileTimes
    <2>3. \A i \in steady[t] : i \in Instances /\ phase[i] = "serving"
        BY DEF Discovering, TypeOK
    <2>4. \A i \in steady'[t] : phase'[i] = "serving" /\ modified'[i] = modified[i]
        BY <2>1, <2>2, <2>3 DEF NotYet
    <2>5. \A c \in tool[t].candidates : c.at \in Instances
        BY DEF TypeOK
    <2>6. \A c \in tool[t].candidates :
            /\ phase'[c.at] \notin NotYet
            /\ descriptor'[c.at] = "none" \/ modified'[c.at] = c.modified
        BY <2>2, <2>5 DEF Discovering
    <2>7. tool'[t].step = "probing" =>
            \A i \in steady'[t] : [at |-> i, modified |-> modified'[i]] \in tool'[t].candidates
        BY <2>1, <2>4 DEF Discovering
    <2>8. tool'[t].step = "none" => steady'[t] = {}
        BY <2>1 DEF Discovering
    <2>9. tool'[t].step = "found" =>
            \A i \in steady'[t] :
              descriptor'[tool'[t].at] # "none" => modified'[i] <= modified'[tool'[t].at]
        <3>1. CASE tool'[t].step = "found"
            <4>1. tool[t].step = "found" /\ tool[t].at \in Instances
                  /\ phase[tool[t].at] \notin NotYet
                BY <2>1, <3>1 DEF Connected
            <4>2. \A i \in steady[t] :
                    descriptor[tool[t].at] # "none" => modified[i] <= modified[tool[t].at]
                BY <4>1 DEF Discovering
            <4> QED BY <2>1, <2>2, <2>4, <4>1, <4>2
        <3> QED BY <3>1
    <2> QED BY <2>1, <2>4, <2>6, <2>7, <2>8, <2>9
<1> QED BY <1>1, <1>2

-----------------------------------------------------------------------------
(* The theorems.                                                           *)

LEMMA NextInv == LifecycleInv /\ [Next]_vars => LifecycleInv'
<1> SUFFICES ASSUME LifecycleInv, [Next]_vars  PROVE LifecycleInv'
    OBVIOUS
<1>1. CASE Next
    BY <1>1, TypesStep, FilesStep, DoomedStep, OwedStep, ConnectedStep, DiscoveringStep
       DEF LifecycleInv
<1>2. CASE UNCHANGED vars
    BY <1>2 DEF LifecycleInv, vars, TypeOK, Files, Doomed, Owed, Connected, Discovering,
       LivePids, Alive
<1> QED BY <1>1, <1>2

THEOREM Invariance == Spec => []LifecycleInv
BY InitInv, NextInv, PTL DEF Spec

(* No reaper touches the files of an instance that announced itself and    *)
(* lives, whatever pids come round again (server.rs:656).                  *)
THEOREM ReaperSparesTheLiving == Spec => []LiveKeepsItsFiles
<1>1. LifecycleInv => LiveKeepsItsFiles
    BY DEF LifecycleInv, Files, Up, LiveKeepsItsFiles
<1> QED BY <1>1, Invariance, PTL

(* A start that returned has removed what the dead had left when it began, *)
(* and a drop that returned what was its own, with its connections         *)
(* (server.rs:264-275, 644).                                               *)
THEOREM FilesAreCleanedUp == Spec => []NothingLeftBehind
<1>1. LifecycleInv => StartReapsTheDead
    BY DEF LifecycleInv, Owed, TypeOK, StartReapsTheDead
<1>2. LifecycleInv => DropLeavesNothing
    BY DEF LifecycleInv, Files, Connected, Up, DropLeavesNothing
<1>3. LifecycleInv => NothingLeftBehind
    BY <1>1, <1>2 DEF LifecycleInv, NothingLeftBehind
<1> QED BY <1>3, Invariance, PTL

(* A discovery never settles for an older instance than one that served all *)
(* along, nor for none (client.rs:163).                                    *)
THEOREM NewestIsFound == Spec => []NewestSteadyIsFound
<1>1. LifecycleInv => NewestSteadyIsFound
    BY DEF LifecycleInv, Discovering, NewestSteadyIsFound
<1> QED BY <1>1, Invariance, PTL
==============================================================================
