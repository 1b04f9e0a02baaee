------------------------------ MODULE QaSuite ------------------------------
(* The suite loop of ps-qa: run_qa_inner (runner.rs) drives the selected   *)
(* checks one by one over one inspector connection, classifies what each   *)
(* one produced, replaces a host that gave up or asks an external inspector*)
(* again, and reports; run_plan_host runs a login suite and then others    *)
(* over the same host and connection.                                      *)
(*                                                                         *)
(* The host is a process of its own: its page may stop answering while its *)
(* control server still does (wedged), it may stop answering at all        *)
(* (silent), or it may die.  What a check does to the page is abstracted to*)
(* the answers its requests met and the kind of result its block produced. *)
EXTENDS Naturals, Sequences, FiniteSets

CONSTANTS
  Commands,     \* the invocations considered
  Seeds,        \* storage maps a check may declare
  NoSeed,       \* the empty storage map, and the standing host's None
  MaxFaults     \* bound on the host failures of one run

(* hosted: a HostedSession is passed (qa-hosted, a sweep, run-plan);       *)
(* seeds: session.seeds_storage (qa-hosted only); login: the first suite is*)
(* the plan's login suite; suites: the storage each check declares.        *)
CommandType ==
  [hosted : BOOLEAN, seeds : BOOLEAN, login : BOOLEAN,
   suites : Seq(Seq(Seeds \cup {NoSeed}))]

(* What every invocation satisfies: qa-hosted, the only one that seeds, is *)
(* hosted and runs one suite, and a suite has a check (resolve_suite_paths,*)
(* validate_suite).  A hypothesis of the theorems about this module.       *)
CommandsAreWellFormed ==
  /\ MaxFaults \in Nat
  /\ \A c \in Commands :
       /\ c \in CommandType
       /\ Len(c.suites) > 0 /\ \A s \in DOMAIN c.suites : Len(c.suites[s]) > 0
       /\ c.seeds => c.hosted /\ Len(c.suites) = 1

VARIABLES
  command,   \* the invocation
  host,      \* the process the run talks to: launch, state, seed, signedIn
  faults,    \* failures of hosts so far
  storage,   \* HostedSession::storage
  client,    \* the connection: the launch it reaches and Client::terminal
  suite,     \* index of the suite under way
  index,     \* index of the check under way
  phase,     \* where the loop is
  met,       \* what the requests of the check under way were answered
  live,      \* whether the connection was usable when the check began
  produced,  \* what the check's block produced
  results,   \* CheckResult of every check of the suite so far
  finished,  \* the results of the suites that reported
  failures,  \* the failed checks counted by the suites that reported
  exit       \* the exit status of the run

vars == <<command, host, faults, storage, client, suite, index, phase, met,
          live, produced, results, finished, failures, exit>>

HostStates == {"serving", "wedged", "silent", "dead"}
Answers    == {"ok", "marked", "lost"}
TransportTexts == [none    |-> "",
                   timeout |-> "InspectorRequestTimeout",
                   closed  |-> "InspectorDisconnected"]
Phases     == {"stage", "body", "close", "recover", "report", "landing", "done"}
Products   == {"none", "pass", "fail", "failMarked", "errMarked", "errOther"}

\* The texts by which host_gave_up knows a lost host.  The first three are the
\* page's; the others are not the texts of Client's own failures.
Markers ==
  {"pageUnresponsive", "the page did not answer the control request",
   "the page exceeded its Poll deadline", "inspector did not answer within",
   "the inspector closed the connection", "sending to the inspector failed",
   "reading from the inspector failed"}

Suite == command.suites[suite]
Check == Suite[index]
LastCheck == index = Len(Suite)

Connected(launch) == [launch |-> launch, terminal |-> "none"]
Launched(launch, seed) ==
  [launch |-> launch, state |-> "serving", seed |-> seed, signedIn |-> FALSE]

Init ==
  /\ command \in Commands
  /\ host = Launched(1, NoSeed)
  /\ client = Connected(1)
  /\ faults = 0 /\ storage = NoSeed
  /\ suite = 1 /\ index = 1 /\ phase = "stage"
  /\ met = {} /\ live = TRUE /\ produced = "none"
  /\ results = <<>> /\ finished = <<>> /\ failures = 0 /\ exit = "running"

-----------------------------------------------------------------------------
(* The host.                                                               *)

\* The page worker stops, the whole host stops answering, or it dies.
HostFails ==
  /\ phase # "done" /\ faults < MaxFaults
  /\ \E state \in HostStates \ {"serving"} :
       /\ \/ host.state = "serving"
          \/ host.state = "wedged" /\ state # "wedged"
          \/ host.state = "silent" /\ state = "dead"
       /\ host' = [host EXCEPT !.state = state]
  /\ faults' = faults + 1
  /\ UNCHANGED <<command, storage, client, suite, index, phase, met, live,
                 produced, results, finished, failures, exit>>

\* A wedged page finishes whatever kept it and answers again.
PageRecovers ==
  /\ phase # "done" /\ host.state = "wedged"
  /\ host' = [host EXCEPT !.state = "serving"]
  /\ UNCHANGED <<command, faults, storage, client, suite, index, phase, met,
                 live, produced, results, finished, failures, exit>>

-----------------------------------------------------------------------------
(* Requests.                                                               *)

\* How a request to the page ends.  A wedged page is reported by the control
\* server, in a text host_gave_up knows; a terminal client fails every call.
PageAnswer ==
  IF client.terminal # "none" THEN "lost"
  ELSE [serving |-> "ok", wedged |-> "marked", silent |-> "lost", dead |-> "lost"]
         [host.state]

\* Client::mark_timeout or mark_disconnected, if the host did not answer.
AfterRequest ==
  IF client.terminal # "none" THEN client
  ELSE [client EXCEPT !.terminal = CASE host.state = "silent" -> "timeout"
                                     [] host.state = "dead" -> "closed"
                                     [] OTHER -> "none"]

\* Mutation: the new connection is made, but to the process it had.
ReconnectInPlace(seed) ==
  /\ storage' = seed
  /\ host' = [host EXCEPT !.seed = seed]
  /\ client' = Connected(host.launch)

\* reconnect_hosted: the process is killed first and replaced by one launched
\* with the session's storage; then discover, connect and initialize.
Reconnect(seed) ==
  /\ storage' = seed
  /\ host' = Launched(host.launch + 1, seed)
  /\ client' = Connected(host.launch + 1)

\* The process is killed, but no usable replacement comes up: the launch, the
\* connection or initialize fails, and the old connection stays in place.
ReconnectFails(seed) ==
  /\ storage' = seed
  /\ host' = [Launched(host.launch + 1, seed) EXCEPT !.state = "dead"]
  /\ UNCHANGED client

\* run_qa_inner returns the error: nothing it collected is reported.
Abandon ==
  /\ phase' = "done" /\ exit' = "failed"
  /\ UNCHANGED <<suite, index, met, live, produced, results, finished, failures>>

\* The check's own block starts on the connection as it now is.
Begin ==
  /\ phase' = "body" /\ met' = {} /\ produced' = "none"
  /\ live' = (client'.terminal = "none")

-----------------------------------------------------------------------------
(* One check.                                                              *)

\* Mutation: a seed left by the check before is not cleared.
NeedsRestartToSeed == command.seeds /\ Check # NoSeed

\* stage_check_storage: the host applies storage at launch, so a seed, or the
\* end of one, takes a restart, in the sessions that allow it.
NeedsRestart == command.seeds /\ (Check # NoSeed \/ storage # NoSeed)

StageInPlace ==
  /\ phase = "stage" /\ ~NeedsRestart
  /\ UNCHANGED <<host, storage, client>>
  /\ Begin
  /\ UNCHANGED <<command, faults, suite, index, results, finished, failures, exit>>

StageRestart ==
  /\ phase = "stage" /\ NeedsRestart
  /\ Reconnect(Check)
  /\ Begin
  /\ UNCHANGED <<command, faults, suite, index, results, finished, failures, exit>>

\* The block ends in `?` with an error that no marker names.
StageFails ==
  /\ phase = "stage" /\ NeedsRestart
  /\ ReconnectFails(Check)
  /\ phase' = "close" /\ produced' = "errOther" /\ met' = {} /\ live' = TRUE
  /\ UNCHANGED <<command, faults, suite, index, results, finished, failures, exit>>

\* One of the requests the check makes: a read, an action, a capture.
Ask ==
  /\ phase = "body"
  /\ met' = met \cup {PageAnswer}
  /\ client' = AfterRequest
  /\ UNCHANGED <<command, host, faults, storage, suite, index, phase, live,
                 produced, results, finished, failures, exit>>

\* What the block may produce from the answers it met: best-effort calls
\* swallow errors, others end the block or end up in the outcome's text.
Produces(what) ==
  CASE what = "pass" -> "ok" \in met
    [] what \in {"failMarked", "errMarked"} -> "marked" \in met
    [] what \in {"fail", "errOther"} -> TRUE
    [] OTHER -> FALSE

\* Mutation: a block that polls without a deadline.
EndOfBlockWithoutDeadline ==
  /\ phase = "body" /\ "ok" \in met
  /\ \E what \in Products : Produces(what) /\ produced' = what
  /\ phase' = "close"
  /\ UNCHANGED <<command, host, faults, storage, client, suite, index, met,
                 live, results, finished, failures, exit>>

EndOfBlock ==
  /\ phase = "body" /\ met # {}
  /\ \E what \in Products :
       /\ Produces(what)
       /\ produced' = what
       \* the last login check is what signs the page in
       /\ host' = IF command.login /\ suite = 1 /\ LastCheck /\ what = "pass"
                  THEN [host EXCEPT !.signedIn = TRUE] ELSE host
  /\ phase' = "close"
  /\ UNCHANGED <<command, faults, storage, client, suite, index, met, live,
                 results, finished, failures, exit>>

\* Whether the check lost its host: a terminal connection, or a text that a
\* marker names in the error or in the outcome.
GaveUp == client.terminal # "none" \/ produced \in {"failMarked", "errMarked"}

\* Mutation: the outcome of the block stands, whatever became of the
\* connection.
JudgementOfTheBlock ==
  [check |-> index, notRun |-> FALSE, met |-> met, live |-> live,
   launch |-> client.launch, seed |-> host.seed, signedIn |-> host.signedIn,
   gaveUp |-> GaveUp,
   verdict |-> IF produced = "pass" THEN "pass" ELSE "fail"]

\* The CheckResult of the check under way; a connection that failed replaces
\* whatever the block produced.
Judgement ==
  [check |-> index, notRun |-> FALSE, met |-> met, live |-> live,
   launch |-> client.launch, seed |-> host.seed, signedIn |-> host.signedIn,
   gaveUp |-> GaveUp,
   verdict |-> IF produced = "pass" /\ client.terminal = "none" THEN "pass" ELSE "fail"]

NotRun(i) ==
  [check |-> i, notRun |-> TRUE, met |-> {}, live |-> FALSE, launch |-> 0,
   seed |-> NoSeed, signedIn |-> FALSE, gaveUp |-> FALSE, verdict |-> "fail"]

RestNotRun == [k \in 1..(Len(Suite) - index) |-> NotRun(index + k)]

\* An error of another kind than a lost host leaves the loop.
AbandonSuite ==
  /\ phase = "close" /\ produced = "errOther" /\ ~GaveUp
  /\ Abandon
  /\ UNCHANGED <<command, host, faults, storage, client>>

Judged == phase = "close" /\ (produced # "errOther" \/ GaveUp)

\* The connection is gone: the rest of the suite is not run.
StopSuite ==
  /\ Judged /\ client.terminal # "none"
  /\ results' = Append(results, Judgement) \o RestNotRun
  /\ phase' = "report"
  /\ UNCHANGED <<command, host, faults, storage, client, suite, index, met,
                 live, produced, finished, failures, exit>>

\* The host gave up in words, with checks left to run.
GiveUp ==
  /\ Judged /\ client.terminal = "none" /\ GaveUp /\ ~LastCheck
  /\ results' = Append(results, Judgement)
  /\ phase' = "recover"
  /\ UNCHANGED <<command, host, faults, storage, client, suite, index, met,
                 live, produced, finished, failures, exit>>

NextCheck ==
  /\ Judged /\ client.terminal = "none" /\ (~GaveUp \/ LastCheck)
  /\ results' = Append(results, Judgement)
  /\ IF LastCheck THEN phase' = "report" /\ UNCHANGED index
                  ELSE phase' = "stage" /\ index' = index + 1
  /\ UNCHANGED <<command, host, faults, storage, client, suite, met, live,
                 produced, finished, failures, exit>>

\* Mutation: the check that lost the page is run again.
ReplaceAndRerun ==
  /\ phase = "recover" /\ command.hosted
  /\ Reconnect(storage)
  /\ phase' = "stage"
  /\ UNCHANGED <<command, faults, suite, index, met, live, produced, results,
                 finished, failures, exit>>

\* A host this run launched is replaced; the lost check is not run again.
Replace ==
  /\ phase = "recover" /\ command.hosted
  /\ Reconnect(storage)
  /\ index' = index + 1 /\ phase' = "stage"
  /\ UNCHANGED <<command, faults, suite, met, live, produced, results,
                 finished, failures, exit>>

ReplaceFails ==
  /\ phase = "recover" /\ command.hosted
  /\ ReconnectFails(storage)
  /\ Abandon
  /\ UNCHANGED <<command, faults>>

\* inspector_answers_again: tools/list is answered by the control server
\* whatever the page does, and an error is silence only if a marker names it.
AskAgain ==
  /\ phase = "recover" /\ ~command.hosted
  /\ client' = AfterRequest
  /\ IF TransportTexts[client'.terminal] \notin Markers
     THEN phase' = "stage" /\ index' = index + 1 /\ UNCHANGED results
     ELSE phase' = "report" /\ results' = results \o RestNotRun /\ UNCHANGED index
  /\ UNCHANGED <<command, host, faults, storage, suite, met, live, produced,
                 finished, failures, exit>>

-----------------------------------------------------------------------------
(* One suite, and the suites of a plan.                                    *)

FailedOf(rs) == Cardinality({i \in DOMAIN rs : ~rs[i].notRun /\ rs[i].verdict = "fail"})

\* The table is printed and the suite's failures are added to the run's.
Report ==
  /\ phase = "report"
  /\ finished' = Append(finished, results)
  /\ failures' = failures + FailedOf(results)
  /\ results' = <<>>
  /\ IF command.login /\ suite = 1
     THEN IF FailedOf(results) > 0
          THEN phase' = "done" /\ exit' = "failed" /\ UNCHANGED <<suite, index>>
          ELSE phase' = "landing" /\ UNCHANGED <<suite, index, exit>>
     ELSE IF suite < Len(command.suites)
          THEN phase' = "stage" /\ suite' = suite + 1 /\ index' = 1 /\ UNCHANGED exit
          ELSE /\ phase' = "done"
               /\ exit' = IF failures' > 0 THEN "failed" ELSE "ok"
               /\ UNCHANGED <<suite, index>>
  /\ UNCHANGED <<command, host, faults, storage, client, met, live, produced>>

\* The landing marker is awaited after the login suite passed.
Land ==
  /\ phase = "landing"
  /\ client' = AfterRequest
  /\ IF PageAnswer = "ok" /\ host.signedIn /\ Len(command.suites) > 1
     THEN phase' = "stage" /\ suite' = 2 /\ index' = 1 /\ UNCHANGED exit
     ELSE phase' = "done" /\ exit' = "failed" /\ UNCHANGED <<suite, index>>
  /\ UNCHANGED <<command, host, faults, storage, met, live, produced, results,
                 finished, failures>>

Finished == phase = "done" /\ UNCHANGED vars

Proceed ==
  \/ StageInPlace \/ StageRestart \/ StageFails
  \/ Ask \/ EndOfBlock
  \/ AbandonSuite \/ StopSuite \/ GiveUp \/ NextCheck
  \/ Replace \/ ReplaceFails \/ AskAgain
  \/ Report \/ Land

Next == Proceed \/ HostFails \/ PageRecovers \/ Finished

(* Every request ends by its deadline and every polling loop of a check by *)
(* its own, so the loop always goes on; the host owes nothing.             *)
Spec == Init /\ [][Next]_vars /\ WF_vars(Proceed)

-----------------------------------------------------------------------------
ResultType ==
  [check : Nat, notRun : BOOLEAN, met : SUBSET Answers, live : BOOLEAN,
   launch : Nat, seed : Seeds \cup {NoSeed}, signedIn : BOOLEAN,
   gaveUp : BOOLEAN, verdict : {"pass", "fail"}]

(* Every variable keeps its type.                                          *)
TypeOK ==
  /\ command \in Commands
  /\ host \in [launch : Nat, state : HostStates, seed : Seeds \cup {NoSeed},
               signedIn : BOOLEAN]
  /\ faults \in 0..MaxFaults
  /\ storage \in Seeds \cup {NoSeed}
  /\ client \in [launch : 1..host.launch, terminal : {"none", "timeout", "closed"}]
  /\ suite \in DOMAIN command.suites /\ index \in DOMAIN Suite
  /\ phase \in Phases /\ met \subseteq Answers /\ live \in BOOLEAN
  /\ produced \in Products
  /\ results \in Seq(ResultType) /\ finished \in Seq(Seq(ResultType))
  /\ failures \in Nat /\ exit \in {"running", "ok", "failed"}

(* While a check of a seeding session drives the page, the host it talks to*)
(* was launched with that check's storage and nothing of another check's,  *)
(* across the restarts that install, clear and recover (runner.rs:1159,    *)
(* qa.rs:828-833).                                                         *)
SeedIsTheChecks ==
  phase = "body" /\ command.seeds =>
    /\ client.launch = host.launch
    /\ host.seed = Check
    /\ storage = Check

(* A suite that reported accounts for each selected check once, in order;  *)
(* the checks that were not run are a tail, and the check before the tail  *)
(* failed: a partial run cannot look like a short one (runner.rs:2963).    *)
Complete(rs, checks) ==
  /\ Len(rs) = Len(checks)
  /\ \A i \in DOMAIN rs : rs[i].check = i
  /\ \A i \in DOMAIN rs : rs[i].notRun =>
       \E k \in 1..(i - 1) :
         /\ ~rs[k].notRun /\ rs[k].verdict = "fail"
         /\ \A j \in (k + 1)..Len(rs) : rs[j].notRun

EveryCheckReportedOnce ==
  \A s \in DOMAIN finished : Complete(finished[s], command.suites[s])

(* The report is that of the checks that were selected, at every step.     *)
ReportIsTheChecks == TypeOK /\ EveryCheckReportedOnce

(* A run exits with success only if every check of every suite was run on a*)
(* connection that was never lost, and passed (README.md:72-75).           *)
SuccessMeansAllPassed ==
  exit = "ok" =>
    /\ Len(finished) = Len(command.suites)
    /\ \A s \in DOMAIN finished : \A i \in DOMAIN finished[s] :
         LET r == finished[s][i] IN
           ~r.notRun /\ r.verdict = "pass" /\ r.live /\ "lost" \notin r.met

(* In a hosted run the check after one whose host gave up is driven against*)
(* another process, and no check is ever driven against an earlier one than*)
(* its predecessor (runner.rs:353, 2983).                                  *)
LostHostIsReplaced ==
  \A s \in DOMAIN finished : \A i \in DOMAIN finished[s] :
    LET rs == finished[s] IN
      (i > 1 /\ command.hosted /\ ~rs[i].notRun) =>
        /\ rs[i - 1].launch <= rs[i].launch
        /\ rs[i - 1].gaveUp => rs[i - 1].launch < rs[i].launch

(* Whatever the host does, the run ends.                                   *)
RunOver == phase = "done"

-----------------------------------------------------------------------------
(* Claims of the sources that the code does not keep.                      *)

(* A check is judged only if the connection was usable when it began: "a   *)
(* socket that never replies" is no answer (runner.rs:511).                *)
JudgedOnlyWhenReachable ==
  \A i \in DOMAIN results : ~results[i].notRun => results[i].live

(* A check that declares storage is driven, in every hosted run, against a *)
(* host launched with it (README.md:126-129, 291-292).                     *)
SeededInEveryHostedRun ==
  \A i \in DOMAIN results :
    command.hosted /\ ~results[i].notRun /\ Suite[i] # NoSeed =>
      results[i].seed = Suite[i]
=============================================================================
