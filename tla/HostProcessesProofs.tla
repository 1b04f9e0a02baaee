------------------------ MODULE HostProcessesProofs -------------------------
(***************************************************************************)
(* That no launch, restart or teardown of HostProcesses leaks a process, a *)
(* registration or a directory, whatever the commands, the machine's       *)
(* process ids and the output of the hosts.                                *)
(***************************************************************************)
EXTENDS HostProcesses, FiniteSetTheorems, TLAPS

Idle == {"component", "over", "next run", "give up"}
Using == {"driving", "drop", "drop with error", "stop"}
Started == {"register", "drain", "await"}
Launching == {"directory", "spawn"} \cup Started
Tearing == {"kill", "wait", "reaped", "remove"}

\* A slot holds at most one process; pid 0 is that of one not yet spawned.
AtMostOne(slot) ==
  slot # None => /\ DOMAIN slot[1] = {"pid", "dir", "waited"}
                 /\ slot[1].pid \in Pids \cup {0} /\ slot[1].waited \in BOOLEAN

TypeOK ==
  /\ phase \in Idle \cup Using \cup Launching \cup Tearing
  /\ after \in {"", "next run", "give up", "launch failed", "driving"}
  /\ os \in [Pids -> {"free", "host", "dead", "other"}]
  /\ owned \subseteq Pids
  /\ AtMostOne(standing) /\ AtMostOne(launching) /\ AtMostOne(victim)
  /\ restarts \in Nat /\ cap \in BOOLEAN

\* Waited for, so that its pid may be anybody's.
Gone(process) == process = None \/ process[1].waited
\* Spawned: what is only prepared has no pid yet.
Spawned(process) == process # None => process[1].pid \in Pids

\* Which processes the runner holds, phase by phase: never two that it has
\* not waited for.
Shape ==
  /\ phase \in Idle => standing = None
  /\ phase \in Using => standing # None
  /\ launching # None <=> phase \in Launching \ {"directory"}
  /\ victim # None <=> phase \in Tearing
  /\ phase \in Launching => Gone(standing)
  /\ launching # None => ~launching[1].waited
  /\ Spawned(standing) /\ Spawned(victim) /\ (phase # "spawn" => Spawned(launching))
  /\ phase \in Tearing =>
       /\ after \in {"next run", "give up"} => standing = None
       /\ after = "launch failed" => Gone(standing)
       /\ after = "driving" => standing # None /\ victim[1].waited
       /\ after # ""
  /\ phase \in {"reaped", "remove"} => victim[1].waited

\* p is the pid of a process that was not waited for.
Held(p) ==
  \/ ~Gone(standing) /\ p = standing[1].pid
  \/ launching # None /\ phase # "spawn" /\ p = launching[1].pid
  \/ ~Gone(victim) /\ p = victim[1].pid

\* The operating system and the runner agree on what is running.
Known ==
  \A p \in Pids :
    /\ os[p] = "host" => Held(p)
    /\ Running => (os[p] \in {"host", "dead"} <=> Held(p))

\* A pid is registered only while the runner holds its process, alive or not.
Accounted ==
  Running =>
    \A p \in owned :
      \/ standing # None /\ p = standing[1].pid
      \/ launching # None /\ phase \in {"drain", "await"} /\ p = launching[1].pid
      \/ victim # None /\ phase # "remove" /\ p = victim[1].pid

\* Without a restart there is never a second process.
Single ==
  restarts = 0 =>
    /\ phase # "stop"
    /\ standing # None => phase \in {"driving", "drop", "drop with error"}

\* What the cap must know of, it knows of.
Registered ==
  (restarts = 0 /\ phase # "register") =>
    \A p \in Pids : os[p] = "host" => Running /\ p \in owned

Dir(process) == IF process = None THEN {} ELSE process[1].dir

\* Every directory of this run belongs to one process.
Directories ==
  /\ dirs = Leftover \cup Dir(standing) \cup Dir(launching) \cup Dir(victim)
  /\ Leftover \cap (Dir(standing) \cup Dir(launching) \cup Dir(victim)) = {}
  /\ Dir(standing) \cap Dir(launching) = {}
  /\ Dir(standing) \cap Dir(victim) = {}

HostsInv == TypeOK /\ Shape /\ Known /\ Accounted /\ Single /\ Registered /\ Directories

USE DEF Running, Goto, TearDown, place, sweepVars, systemVars, sessionVars, Idle, Using, Launching,
        Started, Tearing

LEMMA Slots == \A process : <<process>> # None /\ <<process>>[1] = process
BY DEF None

-----------------------------------------------------------------------------
(* One lemma for each action; those that only move the runner share one.   *)

Quiet ==
  \/ BeginComponent \/ Judged \/ RunFails \/ NextRun \/ GiveUp
  \/ StartDrain \/ ReadLine \/ OutputEnds \/ Finish

LEMMA QuietInv == HostsInv /\ Quiet => HostsInv'
<1> SUFFICES ASSUME HostsInv, Quiet PROVE HostsInv'
    OBVIOUS
<1>1. /\ Running /\ UNCHANGED <<os, owned, dirs, nextDir, standing, launching, victim, cap, after>>
      /\ \/ phase \in Idle /\ phase' \in Idle \cup {"directory"} /\ restarts' \in {0, restarts}
         \/ phase = "driving" /\ phase' \in {"drop", "drop with error"} /\ restarts' = restarts
         \/ phase = "drain" /\ phase' = "await" /\ restarts' = restarts
         \/ phase' = phase /\ restarts' = restarts
    BY DEF HostsInv, TypeOK, Quiet, BeginComponent, Judged, RunFails, NextRun, GiveUp, StartDrain,
           ReadLine, OutputEnds, Finish, EndComponent
<1>2. TypeOK'
  <2>1. restarts \in Nat /\ phase \in Idle \cup Using \cup Launching \cup Tearing
      BY DEF HostsInv, TypeOK
  <2>2. restarts' \in Nat
    <3>1. restarts' = 0 \/ restarts' = restarts
        BY <1>1
    <3>2. 0 \in Nat
        OBVIOUS
    <3> QED BY <2>1, <3>1, <3>2, Zenon
  <2>3. phase' \in Idle \cup Using \cup Launching \cup Tearing
      BY <1>1, <2>1
  <2> QED BY <1>1, <2>2, <2>3 DEF HostsInv, TypeOK, AtMostOne
<1>3. Shape'
    BY <1>1 DEF HostsInv, Shape, Gone, Spawned
<1>4. Known'
    BY <1>1 DEF HostsInv, Shape, Known, Held, Gone
<1>5. Accounted'
    BY <1>1 DEF HostsInv, Shape, Accounted
<1>6. Single'
    BY <1>1 DEF HostsInv, Shape, Single
<1>7. Registered'
    BY <1>1 DEF HostsInv, TypeOK, Shape, Known, Held, Gone, Registered
<1>8. Directories'
    BY <1>1 DEF HostsInv, Directories, Dir
<1> QED BY <1>2, <1>3, <1>4, <1>5, <1>6, <1>7, <1>8 DEF HostsInv

LEMMA MakeDirectoryInv == HostsInv /\ MakeDirectory => HostsInv'
<1> SUFFICES ASSUME HostsInv, MakeDirectory PROVE HostsInv'
    OBVIOUS
<1>1. /\ phase = "directory" /\ Running
      /\ UNCHANGED <<os, owned, standing, victim, restarts, cap, after>>
    BY DEF MakeDirectory, Prepared
<1>2. CASE \E dir : Prepared(dir) /\ dir \cap dirs = {}
  <2>1. PICK dir : Prepared(dir) /\ dir \cap dirs = {}
      BY <1>2
  <2>2. /\ launching' # None /\ phase' = "spawn" /\ dirs' = dirs \cup dir
        /\ launching'[1] = [pid |-> 0, dir |-> dir, waited |-> FALSE]
      BY <2>1, Slots DEF Prepared
  <2>3. /\ launching'[1].pid = 0 /\ launching'[1].dir = dir /\ ~launching'[1].waited
        /\ DOMAIN launching'[1] = {"pid", "dir", "waited"} /\ launching'[1].waited \in BOOLEAN
      BY <2>2
<2>4. TypeOK'
    BY <1>1, <2>1, <2>2, <2>3 DEF HostsInv, TypeOK, Shape, AtMostOne
<2>5. Shape'
    BY <1>1, <2>1, <2>2, <2>3 DEF HostsInv, TypeOK, Shape, AtMostOne, Gone, Spawned
<2>6. Known'
    BY <1>1, <2>1, <2>2, <2>3 DEF HostsInv, TypeOK, Shape, AtMostOne, Gone, Spawned, Known, Held
<2>7. Accounted'
    BY <1>1, <2>1, <2>2, <2>3 DEF HostsInv, TypeOK, Shape, AtMostOne, Gone, Spawned, Accounted
<2>8. Single'
    BY <1>1, <2>1, <2>2, <2>3 DEF HostsInv, TypeOK, Shape, Single
<2>9. Registered'
    BY <1>1, <2>1, <2>2, <2>3 DEF HostsInv, TypeOK, Shape, Known, Held, Gone, Single, Registered
<2>10. Directories'
    BY <1>1, <2>1, <2>2, <2>3 DEF HostsInv, Shape, Directories, Dir
<2> QED BY <2>4, <2>5, <2>6, <2>7, <2>8, <2>9, <2>10 DEF HostsInv
<1>3. CASE UNCHANGED <<launching, dirs>> /\ Goto(Failed)
  <2>1. UNCHANGED <<launching, dirs>> /\ phase' = (IF standing = None THEN "give up" ELSE "driving")
      BY <1>3 DEF Failed
<2>2. TypeOK'
    BY <1>1, <2>1 DEF HostsInv, TypeOK, Shape, AtMostOne
<2>3. Shape'
    BY <1>1, <2>1 DEF HostsInv, TypeOK, Shape, AtMostOne, Gone, Spawned
<2>4. Known'
    BY <1>1, <2>1 DEF HostsInv, TypeOK, Shape, AtMostOne, Gone, Spawned, Known, Held
<2>5. Accounted'
    BY <1>1, <2>1 DEF HostsInv, TypeOK, Shape, AtMostOne, Gone, Spawned, Accounted
<2>6. Single'
    BY <1>1, <2>1 DEF HostsInv, TypeOK, Shape, Single
<2>7. Registered'
    BY <1>1, <2>1 DEF HostsInv, TypeOK, Shape, Known, Held, Gone, Single, Registered
<2>8. Directories'
    BY <1>1, <2>1 DEF HostsInv, Shape, Directories, Dir
<2> QED BY <2>2, <2>3, <2>4, <2>5, <2>6, <2>7, <2>8 DEF HostsInv
<1> QED
  <2>1. CASE ~Clean
      BY <2>1, <1>2 DEF MakeDirectory
  <2>2. CASE \E dir \in Free : Prepared({dir})
      BY <2>2, <1>2 DEF Free
  <2> QED BY <2>1, <2>2, <1>3 DEF MakeDirectory

LEMMA SpawnInv == HostsInv /\ Spawn => HostsInv'
<1> SUFFICES ASSUME HostsInv, Spawn PROVE HostsInv'
    OBVIOUS
<1>1. /\ Running /\ phase = "spawn" /\ phase' = "register"
      /\ UNCHANGED <<owned, dirs, standing, victim, restarts, cap, after>>
    BY DEF Spawn
<1>2. PICK p \in Pids : /\ os[p] = "free" /\ os' = [os EXCEPT ![p] = "host"]
                        /\ launching' = <<[launching[1] EXCEPT !.pid = p]>>
    BY DEF Spawn
<1>3. launching # None /\ launching' # None /\ launching'[1] = [launching[1] EXCEPT !.pid = p]
    BY <1>1, <1>2, Slots DEF HostsInv, Shape
<1>4. /\ DOMAIN launching'[1] = {"pid", "dir", "waited"} /\ launching'[1].pid = p
      /\ launching'[1].waited = launching[1].waited /\ launching'[1].dir = launching[1].dir
    BY <1>3 DEF HostsInv, TypeOK, AtMostOne
<1>5. /\ os' \in [Pids -> {"free", "host", "dead", "other"}]
      /\ \A q \in Pids : os'[q] = IF q = p THEN "host" ELSE os[q]
    BY <1>2 DEF HostsInv, TypeOK
<1>6. TypeOK'
    BY <1>1, <1>3, <1>4, <1>5 DEF HostsInv, TypeOK, Shape, AtMostOne
<1>7. Shape'
    BY <1>1, <1>3, <1>4, <1>5 DEF HostsInv, TypeOK, Shape, AtMostOne, Gone, Spawned
<1>8. Known'
    BY <1>1, <1>3, <1>4, <1>5 DEF HostsInv, TypeOK, Shape, AtMostOne, Gone, Spawned, Known, Held
<1>9. Accounted'
    BY <1>1, <1>3, <1>4, <1>5 DEF HostsInv, TypeOK, Shape, AtMostOne, Gone, Spawned, Accounted
<1>10. Single'
    BY <1>1, <1>3, <1>4, <1>5 DEF HostsInv, TypeOK, Shape, Single
<1>11. Registered'
    BY <1>1, <1>3, <1>4, <1>5 DEF HostsInv, TypeOK, Shape, Known, Held, Gone, Single, Registered
<1>12. Directories'
    BY <1>1, <1>3, <1>4, <1>5 DEF HostsInv, Shape, Directories, Dir
<1> QED BY <1>6, <1>7, <1>8, <1>9, <1>10, <1>11, <1>12 DEF HostsInv

LEMMA SpawnFailsInv == HostsInv /\ SpawnFails => HostsInv'
<1> SUFFICES ASSUME HostsInv, SpawnFails PROVE HostsInv'
    OBVIOUS
<1>1. TypeOK'
    BY Slots DEF HostsInv, TypeOK, Shape, AtMostOne, SpawnFails, Failed
<1>2. Shape'
    BY Slots DEF HostsInv, TypeOK, Shape, AtMostOne, Gone, Spawned, SpawnFails, Failed
<1>3. Known'
    BY Slots DEF HostsInv, TypeOK, Shape, AtMostOne, Gone, Spawned, Known, Held, SpawnFails,
       Failed
<1>4. Accounted'
    BY Slots DEF HostsInv, TypeOK, Shape, AtMostOne, Gone, Spawned, Accounted, SpawnFails, Failed
<1>5. Single'
    BY Slots DEF HostsInv, TypeOK, Shape, AtMostOne, Gone, Spawned, Single, SpawnFails, Failed
<1>6. Registered'
    BY Slots DEF HostsInv, TypeOK, Shape, Known, Held, Gone, Single, Registered, SpawnFails,
       Failed
<1>7. Directories'
    BY Slots DEF HostsInv, Shape, Directories, Dir, SpawnFails, Failed
<1> QED BY <1>1, <1>2, <1>3, <1>4, <1>5, <1>6, <1>7 DEF HostsInv

LEMMA RegisterInv == HostsInv /\ Register => HostsInv'
<1> SUFFICES ASSUME HostsInv, Register PROVE HostsInv'
    OBVIOUS
<1>1. TypeOK'
  <2>1. owned' \subseteq Pids
      BY DEF HostsInv, TypeOK, Shape, Spawned, Register
  <2> QED BY <2>1 DEF HostsInv, TypeOK, AtMostOne, Register
<1>2. Shape'
    BY Slots DEF HostsInv, TypeOK, Shape, AtMostOne, Gone, Spawned, Register
<1>3. Known'
    BY Slots DEF HostsInv, TypeOK, Shape, AtMostOne, Gone, Spawned, Known, Held, Register
<1>4. Accounted'
    BY Slots DEF HostsInv, TypeOK, Shape, AtMostOne, Gone, Spawned, Accounted, Register
<1>5. Single'
    BY Slots DEF HostsInv, TypeOK, Shape, AtMostOne, Gone, Spawned, Single, Register
<1>6. Registered'
    BY Slots DEF HostsInv, TypeOK, Shape, Known, Held, Gone, Single, Registered, Register
<1>7. Directories'
    BY Slots DEF HostsInv, Shape, Directories, Dir, Register
<1> QED BY <1>1, <1>2, <1>3, <1>4, <1>5, <1>6, <1>7 DEF HostsInv

LEMMA LaunchFailsInv == HostsInv /\ LaunchFails => HostsInv'
<1> SUFFICES ASSUME HostsInv, LaunchFails PROVE HostsInv'
    OBVIOUS
<1>1. TypeOK'
    BY Slots DEF HostsInv, TypeOK, Shape, AtMostOne, LaunchFails
<1>2. Shape'
    BY Slots DEF HostsInv, TypeOK, Shape, AtMostOne, Gone, Spawned, LaunchFails
<1>3. Known'
    BY Slots DEF HostsInv, TypeOK, Shape, AtMostOne, Gone, Spawned, Known, Held, LaunchFails
<1>4. Accounted'
    BY Slots DEF HostsInv, TypeOK, Shape, AtMostOne, Gone, Spawned, Accounted, LaunchFails
<1>5. Single'
    BY Slots DEF HostsInv, TypeOK, Shape, AtMostOne, Gone, Spawned, Single, LaunchFails
<1>6. Registered'
    BY Slots DEF HostsInv, TypeOK, Shape, Known, Held, Gone, Single, Registered, LaunchFails
<1>7. Directories'
    BY Slots DEF HostsInv, Shape, Directories, Dir, LaunchFails
<1> QED BY <1>1, <1>2, <1>3, <1>4, <1>5, <1>6, <1>7 DEF HostsInv

LEMMA UpInv == HostsInv /\ Up => HostsInv'
<1> SUFFICES ASSUME HostsInv, Up PROVE HostsInv'
    OBVIOUS
<1>1. TypeOK'
    BY Slots DEF HostsInv, TypeOK, Shape, AtMostOne, Up
<1>2. Shape'
    BY Slots DEF HostsInv, TypeOK, Shape, AtMostOne, Gone, Spawned, Up
<1>3. Known'
    BY Slots DEF HostsInv, TypeOK, Shape, AtMostOne, Gone, Spawned, Known, Held, Up
<1>4. Accounted'
    BY Slots DEF HostsInv, TypeOK, Shape, AtMostOne, Gone, Spawned, Accounted, Up
<1>5. Single'
    BY Slots DEF HostsInv, TypeOK, Shape, AtMostOne, Gone, Spawned, Single, Up
<1>6. Registered'
    BY Slots DEF HostsInv, TypeOK, Shape, Known, Held, Gone, Single, Registered, Up
<1>7. Directories'
    BY Slots DEF HostsInv, Shape, Directories, Dir, Up
<1> QED BY <1>1, <1>2, <1>3, <1>4, <1>5, <1>6, <1>7 DEF HostsInv

LEMMA RestartInv == HostsInv /\ Restart => HostsInv'
<1> SUFFICES ASSUME HostsInv, Restart PROVE HostsInv'
    OBVIOUS
<1>1. /\ Running /\ phase = "driving" /\ phase' = "stop"
      /\ UNCHANGED <<os, owned, dirs, standing, launching, victim, cap, after>>
    BY DEF Restart
<1>2. restarts' \in Nat /\ restarts' # 0
  <2>1. restarts \in Nat
      BY DEF HostsInv, TypeOK
  <2>2. restarts' = restarts + 1
      BY DEF Restart
  <2> QED BY <2>1, <2>2
<1>3. TypeOK'
    BY <1>1, <1>2 DEF HostsInv, TypeOK, Shape, AtMostOne
<1>4. Shape'
    BY <1>1, <1>2 DEF HostsInv, TypeOK, Shape, AtMostOne, Gone, Spawned
<1>5. Known'
    BY <1>1, <1>2 DEF HostsInv, TypeOK, Shape, AtMostOne, Gone, Spawned, Known, Held
<1>6. Accounted'
    BY <1>1, <1>2 DEF HostsInv, TypeOK, Shape, AtMostOne, Gone, Spawned, Accounted
<1>7. Single'
    BY <1>1, <1>2 DEF HostsInv, TypeOK, Shape, Single
<1>8. Registered'
    BY <1>1, <1>2 DEF HostsInv, TypeOK, Shape, Known, Held, Gone, Single, Registered
<1>9. Directories'
    BY <1>1, <1>2 DEF HostsInv, Shape, Directories, Dir
<1> QED BY <1>3, <1>4, <1>5, <1>6, <1>7, <1>8, <1>9 DEF HostsInv

LEMMA StopOldInv == HostsInv /\ StopOld => HostsInv'
<1> SUFFICES ASSUME HostsInv, StopOld PROVE HostsInv'
    OBVIOUS
<1>1. TypeOK'
    BY Slots DEF HostsInv, TypeOK, Shape, AtMostOne, StopOld
<1>2. Shape'
    BY Slots DEF HostsInv, TypeOK, Shape, AtMostOne, Gone, Spawned, StopOld
<1>3. Known'
    BY Slots DEF HostsInv, TypeOK, Shape, AtMostOne, Gone, Spawned, Known, Held, StopOld
<1>4. Accounted'
    BY Slots DEF HostsInv, TypeOK, Shape, AtMostOne, Gone, Spawned, Accounted, StopOld
<1>5. Single'
    BY Slots DEF HostsInv, TypeOK, Shape, AtMostOne, Gone, Spawned, Single, StopOld
<1>6. Registered'
    BY Slots DEF HostsInv, TypeOK, Shape, Known, Held, Gone, Single, Registered, StopOld
<1>7. Directories'
  <2>1. /\ Dir(standing') = {} /\ dirs' = dirs \ Dir(standing)
        /\ Dir(launching) = {} /\ Dir(victim) = {} /\ UNCHANGED <<launching, victim>>
      BY Slots DEF HostsInv, TypeOK, Shape, AtMostOne, Dir, StopOld
  <2> QED BY <2>1 DEF HostsInv, Directories
<1> QED BY <1>1, <1>2, <1>3, <1>4, <1>5, <1>6, <1>7 DEF HostsInv

LEMMA DropSessionInv == HostsInv /\ DropSession => HostsInv'
<1> SUFFICES ASSUME HostsInv, DropSession PROVE HostsInv'
    OBVIOUS
<1>1. TypeOK'
    BY Slots DEF HostsInv, TypeOK, Shape, AtMostOne, DropSession
<1>2. Shape'
    BY Slots DEF HostsInv, TypeOK, Shape, AtMostOne, Gone, Spawned, DropSession
<1>3. Known'
    BY Slots DEF HostsInv, TypeOK, Shape, AtMostOne, Gone, Spawned, Known, Held, DropSession
<1>4. Accounted'
    BY Slots DEF HostsInv, TypeOK, Shape, AtMostOne, Gone, Spawned, Accounted, DropSession
<1>5. Single'
    BY Slots DEF HostsInv, TypeOK, Shape, AtMostOne, Gone, Spawned, Single, DropSession
<1>6. Registered'
    BY Slots DEF HostsInv, TypeOK, Shape, Known, Held, Gone, Single, Registered, DropSession
<1>7. Directories'
    BY Slots DEF HostsInv, Shape, Directories, Dir, DropSession
<1> QED BY <1>1, <1>2, <1>3, <1>4, <1>5, <1>6, <1>7 DEF HostsInv

LEMMA KillInv == HostsInv /\ Kill => HostsInv'
<1> SUFFICES ASSUME HostsInv, Kill PROVE HostsInv'
    OBVIOUS
<1>1. TypeOK'
    BY Slots DEF HostsInv, TypeOK, Shape, AtMostOne, Kill
<1>2. Shape'
    BY Slots DEF HostsInv, TypeOK, Shape, AtMostOne, Gone, Spawned, Kill
<1>3. Known'
    BY Slots DEF HostsInv, TypeOK, Shape, AtMostOne, Gone, Spawned, Known, Held, Kill
<1>4. Accounted'
    BY Slots DEF HostsInv, TypeOK, Shape, AtMostOne, Gone, Spawned, Accounted, Kill
<1>5. Single'
    BY Slots DEF HostsInv, TypeOK, Shape, AtMostOne, Gone, Spawned, Single, Kill
<1>6. Registered'
    BY Slots DEF HostsInv, TypeOK, Shape, Known, Held, Gone, Single, Registered, Kill
<1>7. Directories'
    BY Slots DEF HostsInv, Shape, Directories, Dir, Kill
<1> QED BY <1>1, <1>2, <1>3, <1>4, <1>5, <1>6, <1>7 DEF HostsInv

LEMMA WaitInv == HostsInv /\ Wait => HostsInv'
<1> SUFFICES ASSUME HostsInv, Wait PROVE HostsInv'
    OBVIOUS
<1>1. TypeOK'
    BY Slots DEF HostsInv, TypeOK, Shape, AtMostOne, Wait
<1>2. Shape'
    BY Slots DEF HostsInv, TypeOK, Shape, AtMostOne, Gone, Spawned, Wait
<1>3. Known'
    BY Slots DEF HostsInv, TypeOK, Shape, AtMostOne, Gone, Spawned, Known, Held, Wait
<1>4. Accounted'
    BY Slots DEF HostsInv, TypeOK, Shape, AtMostOne, Gone, Spawned, Accounted, Wait
<1>5. Single'
    BY Slots DEF HostsInv, TypeOK, Shape, AtMostOne, Gone, Spawned, Single, Wait
<1>6. Registered'
    BY Slots DEF HostsInv, TypeOK, Shape, Known, Held, Gone, Single, Registered, Wait
<1>7. Directories'
  <2>1. Dir(victim') = Dir(victim) /\ UNCHANGED <<dirs, standing, launching>>
      BY Slots DEF HostsInv, TypeOK, Shape, AtMostOne, Dir, Wait
  <2> QED BY <2>1 DEF HostsInv, Directories, Dir
<1> QED BY <1>1, <1>2, <1>3, <1>4, <1>5, <1>6, <1>7 DEF HostsInv

LEMMA ReapedInv == HostsInv /\ Reaped => HostsInv'
<1> SUFFICES ASSUME HostsInv, Reaped PROVE HostsInv'
    OBVIOUS
<1>1. TypeOK'
    BY Slots DEF HostsInv, TypeOK, Shape, AtMostOne, Reaped
<1>2. Shape'
    BY Slots DEF HostsInv, TypeOK, Shape, AtMostOne, Gone, Spawned, Reaped
<1>3. Known'
    BY Slots DEF HostsInv, TypeOK, Shape, AtMostOne, Gone, Spawned, Known, Held, Reaped
<1>4. Accounted'
    BY Slots DEF HostsInv, TypeOK, Shape, AtMostOne, Gone, Spawned, Accounted, Reaped
<1>5. Single'
    BY Slots DEF HostsInv, TypeOK, Shape, AtMostOne, Gone, Spawned, Single, Reaped
<1>6. Registered'
    BY Slots DEF HostsInv, TypeOK, Shape, Known, Held, Gone, Single, Registered, Reaped
<1>7. Directories'
    BY Slots DEF HostsInv, Shape, Directories, Dir, Reaped
<1> QED BY <1>1, <1>2, <1>3, <1>4, <1>5, <1>6, <1>7 DEF HostsInv

LEMMA RemoveDirectoryInv == HostsInv /\ RemoveDirectory => HostsInv'
<1> SUFFICES ASSUME HostsInv, RemoveDirectory PROVE HostsInv'
    OBVIOUS
<1>1. TypeOK'
    BY Slots DEF HostsInv, TypeOK, Shape, AtMostOne, RemoveDirectory, Failed
<1>2. Shape'
    BY Slots DEF HostsInv, TypeOK, Shape, AtMostOne, Gone, Spawned, RemoveDirectory, Failed
<1>3. Known'
    BY Slots DEF HostsInv, TypeOK, Shape, AtMostOne, Gone, Spawned, Known, Held, RemoveDirectory,
       Failed
<1>4. Accounted'
    BY Slots DEF HostsInv, TypeOK, Shape, AtMostOne, Gone, Spawned, Accounted, RemoveDirectory,
       Failed
<1>5. Single'
    BY Slots DEF HostsInv, TypeOK, Shape, AtMostOne, Gone, Spawned, Single, RemoveDirectory,
       Failed
<1>6. Registered'
    BY Slots DEF HostsInv, TypeOK, Shape, Known, Held, Gone, Single, Registered, RemoveDirectory,
       Failed
<1>7. Directories'
    BY Slots DEF HostsInv, Shape, Directories, Dir, RemoveDirectory, Failed
<1> QED BY <1>1, <1>2, <1>3, <1>4, <1>5, <1>6, <1>7 DEF HostsInv

-----------------------------------------------------------------------------
(* What the machine does by itself, before the cap and after.              *)

Elsewhere == HostDies \/ OtherStarts \/ OtherEnds

LEMMA ElsewhereInv == HostsInv /\ Elsewhere => HostsInv'
<1> SUFFICES ASSUME HostsInv, Elsewhere PROVE HostsInv'
    OBVIOUS
<1>1. UNCHANGED <<phase, after, owned, dirs, standing, launching, victim, restarts, cap>>
    BY DEF Elsewhere, HostDies, OtherStarts, OtherEnds
<1>2. PICK p \in Pids, now \in {"free", "dead", "other"} :
        /\ os' = [os EXCEPT ![p] = now]
        /\ os[p] \in {"host", "dead"} <=> now \in {"host", "dead"}
    BY DEF Elsewhere, HostDies, OtherStarts, OtherEnds
<1>3. /\ os' \in [Pids -> {"free", "host", "dead", "other"}]
      /\ \A q \in Pids : /\ os'[q] = "host" => os[q] = "host"
                         /\ os'[q] \in {"host", "dead"} <=> os[q] \in {"host", "dead"}
    BY <1>2 DEF HostsInv, TypeOK
<1>4. TypeOK'
    BY <1>1, <1>3 DEF HostsInv, TypeOK, Shape, AtMostOne
<1>5. Shape'
    BY <1>1, <1>3 DEF HostsInv, TypeOK, Shape, AtMostOne, Gone, Spawned
<1>6. Known'
    BY <1>1, <1>3 DEF HostsInv, TypeOK, Shape, AtMostOne, Gone, Spawned, Known, Held
<1>7. Accounted'
    BY <1>1, <1>3 DEF HostsInv, TypeOK, Shape, AtMostOne, Gone, Spawned, Accounted
<1>8. Single'
    BY <1>1, <1>3 DEF HostsInv, TypeOK, Shape, Single
<1>9. Registered'
    BY <1>1, <1>3 DEF HostsInv, TypeOK, Shape, Known, Held, Gone, Single, Registered
<1>10. Directories'
    BY <1>1, <1>3 DEF HostsInv, Shape, Directories, Dir
<1> QED BY <1>4, <1>5, <1>6, <1>7, <1>8, <1>9, <1>10 DEF HostsInv

LEMMA CapTripsInv == HostsInv /\ CapTrips => HostsInv'
<1> SUFFICES ASSUME HostsInv, CapTrips PROVE HostsInv'
    OBVIOUS
<1>1. TypeOK'
    BY Slots DEF HostsInv, TypeOK, Shape, AtMostOne, CapTrips
<1>2. Shape'
    BY Slots DEF HostsInv, TypeOK, Shape, AtMostOne, Gone, Spawned, CapTrips
<1>3. Known'
    BY Slots DEF HostsInv, TypeOK, Shape, AtMostOne, Gone, Spawned, Known, Held, CapTrips
<1>4. Accounted'
    BY Slots DEF HostsInv, TypeOK, Shape, AtMostOne, Gone, Spawned, Accounted, CapTrips
<1>5. Single'
    BY Slots DEF HostsInv, TypeOK, Shape, AtMostOne, Gone, Spawned, Single, CapTrips
<1>6. Registered'
    BY Slots DEF HostsInv, TypeOK, Shape, Known, Held, Gone, Single, Registered, CapTrips
<1>7. Directories'
    BY Slots DEF HostsInv, Shape, Directories, Dir, CapTrips
<1> QED BY <1>1, <1>2, <1>3, <1>4, <1>5, <1>6, <1>7 DEF HostsInv

-----------------------------------------------------------------------------
LEMMA InitInv == Init => HostsInv
<1> SUFFICES ASSUME Init PROVE HostsInv
    OBVIOUS
<1>1. TypeOK
    BY DEF Init, TypeOK, AtMostOne
<1>2. Shape
    BY DEF Init, Shape, Gone, Spawned
<1>3. Known
    BY DEF Init, Known, Held, Gone
<1>4. Accounted
    BY DEF Init, Accounted
<1>5. Single
    BY DEF Init, Single
<1>6. Registered
    BY DEF Init, Registered
<1>7. Directories
    BY DEF Init, Directories, Dir
<1> QED BY <1>1, <1>2, <1>3, <1>4, <1>5, <1>6, <1>7 DEF HostsInv

LEMMA StutterInv == HostsInv /\ UNCHANGED vars => HostsInv'
<1> SUFFICES ASSUME HostsInv, UNCHANGED vars PROVE HostsInv'
    OBVIOUS
<1>1. TypeOK'
  <2>1. UNCHANGED <<phase, after, os, owned, standing, launching, victim, cap>>
      BY DEF vars
  <2>2. restarts' = restarts /\ restarts \in Nat
      BY DEF HostsInv, TypeOK, vars
  <2>3. restarts' \in Nat
      BY <2>2, Zenon
  <2>4. phase' \in Idle \cup Using \cup Launching \cup Tearing
      BY <2>1 DEF HostsInv, TypeOK
  <2>5. AtMostOne(standing)' /\ AtMostOne(launching)' /\ AtMostOne(victim)'
      BY <2>1 DEF HostsInv, TypeOK, AtMostOne
  <2> QED BY <2>1, <2>3, <2>4, <2>5 DEF HostsInv, TypeOK
<1>2. Shape'
    BY DEF HostsInv, vars, Shape, Gone, Spawned
<1>3. Known'
    BY DEF HostsInv, vars, Known, Held, Gone
<1>4. Accounted'
    BY DEF HostsInv, vars, Accounted
<1>5. Single'
    BY DEF HostsInv, vars, Single
<1>6. Registered'
    BY DEF HostsInv, vars, Registered
<1>7. Directories'
    BY DEF HostsInv, vars, Directories, Dir
<1> QED BY <1>1, <1>2, <1>3, <1>4, <1>5, <1>6, <1>7 DEF HostsInv

LEMMA NextInv == HostsInv /\ (Next \/ UNCHANGED vars) => HostsInv'
<1> SUFFICES ASSUME HostsInv, Next PROVE HostsInv'
    BY StutterInv
<1>1. CASE Quiet
    BY <1>1, QuietInv
<1>2. CASE DropSession \/ Kill \/ Wait \/ Reaped \/ RemoveDirectory
    BY <1>2, DropSessionInv, KillInv, WaitInv, ReapedInv, RemoveDirectoryInv
<1>3. CASE \/ MakeDirectory \/ Spawn \/ SpawnFails \/ Register
           \/ LaunchFails \/ Up \/ Restart \/ StopOld
    BY <1>3, MakeDirectoryInv, SpawnInv, SpawnFailsInv, RegisterInv, LaunchFailsInv, UpInv,
       RestartInv, StopOldInv
<1>4. CASE Elsewhere \/ CapTrips
    BY <1>4, ElsewhereInv, CapTripsInv
<1> QED BY <1>1, <1>2, <1>3, <1>4 DEF Next, Quiet, Elsewhere

-----------------------------------------------------------------------------
\* Between two components nothing of this run is left.
LEMMA InvLeaksNothing == HostsInv => NothingLeaks
BY DEF HostsInv, TypeOK, Shape, Known, Held, Gone, Accounted, Directories, Dir, NothingLeaks

\* The hosts are all the one process the runner holds.
LEMMA InvOneHost == HostsInv => OneHostAtATime
<1> SUFFICES ASSUME HostsInv PROVE OneHostAtATime
    OBVIOUS
<1> DEFINE Hosts == {p \in Pids : os[p] = "host"}
<1>1. ASSUME NEW p \in Hosts, NEW q \in Hosts PROVE p = q
  <2>1. Held(p) /\ Held(q)
      BY DEF HostsInv, Known
  <2>2. CASE phase \in Idle \cup Using
      BY <2>1, <2>2 DEF HostsInv, Shape, Held, Gone
  <2>3. CASE phase \in Launching
      BY <2>1, <2>3 DEF HostsInv, Shape, Held, Gone
  <2>4. CASE phase \in Tearing
    <3>1. Gone(standing) \/ Gone(victim)
        BY <2>4 DEF HostsInv, TypeOK, Shape, Gone
    <3>2. launching = None
        BY <2>4 DEF HostsInv, Shape
    <3>3. CASE Gone(standing)
        BY <2>1, <3>2, <3>3 DEF Held
    <3>4. CASE Gone(victim)
        BY <2>1, <3>2, <3>4 DEF Held
    <3> QED BY <3>1, <3>3, <3>4
  <2> QED BY <2>2, <2>3, <2>4 DEF HostsInv, TypeOK
<1>2. CASE Hosts = {}
    BY <1>2, FS_EmptySet DEF OneHostAtATime
<1>3. CASE Hosts # {}
  <2>1. PICK p : Hosts = {p}
      BY <1>1, <1>3
  <2>2. Cardinality(Hosts) = 1
      BY <2>1, FS_Singleton
  <2> QED BY <2>2 DEF OneHostAtATime
<1> QED BY <1>2, <1>3

\* A cap that knows the host stops it.
LEMMA InvCapStops == HostsInv => CapStopsEveryHost
BY DEF HostsInv, Registered, CapStopsEveryHost

\* Which processes the runner holds, and that pids, registrations and
\* directories are theirs, in every reachable state.
THEOREM Invariance == Spec => []HostsInv
BY InitInv, NextInv, PTL DEF Spec
=============================================================================
