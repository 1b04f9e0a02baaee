---------------------------- MODULE QaSuiteProofs ----------------------------
(***************************************************************************)
(* The four safety properties of QaSuite, for every set of invocations,    *)
(* every number of suites and checks and every bound on the host failures. *)
(*                                                                         *)
(* SuiteInv is inductive; it says where in its suites the loop stands,     *)
(* what the results collected so far are worth, and which process the      *)
(* connection reaches.                                                     *)
(***************************************************************************)
EXTENDS QaSuite, FiniteSetTheorems, TLAPS

-----------------------------------------------------------------------------
(* The inductive invariant.                                                *)

Driving == phase \in {"stage", "body", "close"}

\* Where the loop stands: the suites before this one have reported, and the
\* checks before this one have a result.
Place ==
  /\ phase \notin {"landing", "done"} => Len(finished) = suite - 1
  /\ phase = "landing" => suite = 1 /\ Len(finished) = 1 /\ results = <<>>
  /\ Len(finished) <= Len(command.suites)
  /\ Driving => Len(results) = index - 1
  /\ phase = "recover" => Len(results) = index /\ index < Len(Suite)

\* The results of the suite under way are those of its first checks; a suite
\* that is to be reported is complete.
Accounts ==
  /\ Driving \/ phase = "recover" =>
       \A i \in DOMAIN results : results[i].check = i /\ ~results[i].notRun
  /\ phase = "recover" => results[index].verdict = "fail"
  /\ phase = "report" => Complete(results, Suite)
  /\ EveryCheckReportedOnce

\* A pass is a check that lost no answer.
Sound(r) == r.verdict = "pass" => ~r.notRun /\ r.live /\ "lost" \notin r.met

\* A connection that is still usable has lost no answer of the check under
\* way; and a count of no failures means that nothing that ran failed.
Verdicts ==
  /\ phase \in {"body", "close"} /\ client.terminal = "none" =>
       live /\ "lost" \notin met
  /\ \A i \in DOMAIN results : Sound(results[i])
  /\ \A s \in DOMAIN finished : \A i \in DOMAIN finished[s] : Sound(finished[s][i])
  /\ failures = 0 =>
       \A s \in DOMAIN finished : \A i \in DOMAIN finished[s] :
         finished[s][i].notRun \/ finished[s][i].verdict = "pass"
  /\ exit # "running" <=> phase = "done"
  /\ exit = "ok" => failures = 0 /\ Len(finished) = Len(command.suites)

\* In a hosted run each check that ran followed its predecessor onto the same
\* launch or a later one, and onto a later one if the predecessor gave up.
Follows(rs, i) ==
  ~rs[i].notRun =>
    /\ rs[i - 1].launch <= rs[i].launch
    /\ rs[i - 1].gaveUp => rs[i - 1].launch < rs[i].launch

\* The same holds of the launch that the check under way is driven against.
Launches ==
  command.hosted =>
    /\ \A i \in DOMAIN results : i > 1 => Follows(results, i)
    /\ \A s \in DOMAIN finished : \A i \in DOMAIN finished[s] :
         i > 1 => Follows(finished[s], i)
    /\ Driving /\ index > 1 =>
         /\ results[index - 1].launch <= client.launch
         /\ results[index - 1].gaveUp => results[index - 1].launch < client.launch
    /\ phase = "recover" => results[index].launch <= client.launch

\* In a seeding run the connection reaches the standing host, and that host
\* has the storage of the session, unless its replacement did not come up.
Standing == client.launch = host.launch /\ host.seed = storage

Storage ==
  command.seeds =>
    /\ phase \in {"stage", "body", "recover"} => Standing
    /\ phase = "close" /\ produced # "errOther" => Standing
    /\ phase = "body" => storage = Check

SuiteInv == TypeOK /\ Place /\ Accounts /\ Verdicts /\ Launches /\ Storage

-----------------------------------------------------------------------------
(* What the helpers of the loop return.                                    *)

LEMMA SuiteIsASequence ==
    ASSUME CommandsAreWellFormed, TypeOK
    PROVE  /\ command \in CommandType /\ command.suites \in Seq(Seq(Seeds \cup {NoSeed}))
           /\ suite \in 1..Len(command.suites)
           /\ Suite \in Seq(Seeds \cup {NoSeed}) /\ Len(Suite) > 0
           /\ index \in 1..Len(Suite) /\ Check \in Seeds \cup {NoSeed}
<1>1. command \in CommandType /\ command.suites \in Seq(Seq(Seeds \cup {NoSeed}))
    BY DEF CommandsAreWellFormed, TypeOK, CommandType
<1>2. suite \in 1..Len(command.suites)
    BY <1>1 DEF TypeOK
<1>3. Suite \in Seq(Seeds \cup {NoSeed}) /\ Len(Suite) > 0
    BY <1>1, <1>2 DEF CommandsAreWellFormed, TypeOK, Suite
<1> QED BY <1>1, <1>2, <1>3 DEF TypeOK, Check

LEMMA AnswerType ==
    ASSUME TypeOK
    PROVE  /\ PageAnswer \in Answers
           /\ AfterRequest \in [launch : 1..host.launch,
                                terminal : {"none", "timeout", "closed"}]
           /\ AfterRequest.launch = client.launch
           /\ AfterRequest.terminal = "none" =>
                client.terminal = "none" /\ PageAnswer # "lost"
BY DEF TypeOK, PageAnswer, AfterRequest, Answers, HostStates

LEMMA JudgementType ==
    ASSUME CommandsAreWellFormed, TypeOK
    PROVE  Judgement \in ResultType
<1>1. index \in Nat
    BY SuiteIsASequence
<1>2. GaveUp \in BOOLEAN
    BY DEF GaveUp
<1>3. /\ client.launch \in Nat
      /\ host.seed \in Seeds \cup {NoSeed} /\ host.signedIn \in BOOLEAN
      /\ live \in BOOLEAN /\ met \in SUBSET Answers
    BY DEF TypeOK
<1> QED BY <1>1, <1>2, <1>3 DEF Judgement, ResultType

LEMMA NotRunType ==
    ASSUME NEW i \in Nat
    PROVE  NotRun(i) \in ResultType
BY DEF NotRun, ResultType, Answers

LEMMA RestType ==
    ASSUME CommandsAreWellFormed, TypeOK
    PROVE  /\ RestNotRun \in Seq(ResultType)
           /\ Len(RestNotRun) = Len(Suite) - index
           /\ \A k \in 1..(Len(Suite) - index) : RestNotRun[k] = NotRun(index + k)
<1>1. index \in 1..Len(Suite) /\ Len(Suite) \in Nat
    BY SuiteIsASequence
<1>2. \A k \in 1..(Len(Suite) - index) : NotRun(index + k) \in ResultType
    BY <1>1, NotRunType
<1> QED BY <1>1, <1>2 DEF RestNotRun

-----------------------------------------------------------------------------
(* The types.                                                              *)

LEMMA InitTypes == CommandsAreWellFormed /\ Init => TypeOK /\ Place
<1> SUFFICES ASSUME CommandsAreWellFormed, Init  PROVE TypeOK /\ Place
    OBVIOUS
<1>1. /\ command.suites \in Seq(Seq(Seeds \cup {NoSeed}))
      /\ Len(command.suites) > 0 /\ Len(command.suites[1]) > 0
    BY DEF CommandsAreWellFormed, CommandType, Init
<1>2. 1 \in DOMAIN command.suites /\ 1 \in DOMAIN Suite
    BY <1>1 DEF Suite, Init
<1> QED BY <1>1, <1>2 DEF Init, TypeOK, Place, Driving, Launched, Connected,
        HostStates, Answers, Phases, Products, CommandsAreWellFormed

\* A process that is replaced, or was to be.
LEMMA ReconnectTypes ==
    ASSUME TypeOK, NEW seed \in Seeds \cup {NoSeed},
           Reconnect(seed) \/ ReconnectFails(seed)
    PROVE  /\ host' \in [launch : Nat, state : HostStates,
                         seed : Seeds \cup {NoSeed}, signedIn : BOOLEAN]
           /\ storage' = seed /\ host'.seed = seed
           /\ host'.launch = host.launch + 1
           /\ client' \in [launch : 1..host'.launch,
                           terminal : {"none", "timeout", "closed"}]
<1>1. host.launch \in Nat /\ host.launch + 1 \in Nat
    BY DEF TypeOK
<1>2. CASE Reconnect(seed)
    BY <1>1, <1>2 DEF Reconnect, Launched, Connected, HostStates
<1>3. CASE ReconnectFails(seed)
    <2>1. /\ host' = [launch |-> host.launch + 1, state |-> "dead",
                      seed |-> seed, signedIn |-> FALSE]
          /\ storage' = seed /\ client' = client
        BY <1>3 DEF ReconnectFails, Launched
    <2>2. client \in [launch : 1..(host.launch + 1),
                      terminal : {"none", "timeout", "closed"}]
        BY <1>1 DEF TypeOK
    <2> QED BY <1>1, <2>1, <2>2 DEF HostStates
<1> QED BY <1>2, <1>3

\* What a step that leaves the suites where they are has to keep.
LEMMA SameSuites ==
    ASSUME TypeOK, UNCHANGED <<command, suite>>
    PROVE  Suite' = Suite
BY DEF Suite

\* The types and the place in the suites, step by step.
LEMMA HostTypes ==
    ASSUME CommandsAreWellFormed, TypeOK, Place, HostFails \/ PageRecovers
    PROVE  TypeOK' /\ Place'
<1>1. /\ host' \in [launch : Nat, state : HostStates,
                    seed : Seeds \cup {NoSeed}, signedIn : BOOLEAN]
      /\ host'.launch = host.launch
      /\ faults' \in 0..MaxFaults
    <2>1. /\ \E state \in HostStates : host' = [host EXCEPT !.state = state]
          /\ faults' \in {faults, faults + 1} /\ (faults' = faults \/ faults < MaxFaults)
        BY DEF HostFails, PageRecovers, HostStates
    <2>2. host \in [launch : Nat, state : HostStates,
                    seed : Seeds \cup {NoSeed}, signedIn : BOOLEAN]
        BY DEF TypeOK
    <2>3. faults' \in 0..MaxFaults
        BY <2>1 DEF TypeOK, CommandsAreWellFormed
    <2> QED BY <2>1, <2>2, <2>3
<1> QED BY <1>1 DEF HostFails, PageRecovers, TypeOK, Place, Driving, Suite

LEMMA StageTypes ==
    ASSUME CommandsAreWellFormed, TypeOK, Place,
           StageInPlace \/ StageRestart \/ StageFails
    PROVE  TypeOK' /\ Place'
<1>1. Check \in Seeds \cup {NoSeed}
    BY SuiteIsASequence
<1>2. CASE StageInPlace
    BY <1>2 DEF StageInPlace, Begin, TypeOK, Place, Driving, Suite, Phases,
       Answers, Products
<1>3. CASE StageRestart \/ StageFails
    <2>1. /\ host' \in [launch : Nat, state : HostStates,
                        seed : Seeds \cup {NoSeed}, signedIn : BOOLEAN]
          /\ storage' = Check
          /\ client' \in [launch : 1..host'.launch,
                          terminal : {"none", "timeout", "closed"}]
        BY <1>1, <1>3, ReconnectTypes DEF StageRestart, StageFails
    <2> QED BY <1>1, <1>3, <2>1 DEF StageRestart, StageFails, Begin, TypeOK,
            Place, Driving, Suite, Phases, Answers, Products
<1> QED BY <1>2, <1>3

LEMMA BodyTypes ==
    ASSUME CommandsAreWellFormed, TypeOK, Place, Ask \/ EndOfBlock
    PROVE  TypeOK' /\ Place'
<1>1. CASE Ask
    BY <1>1, AnswerType DEF Ask, TypeOK, Place, Driving, Suite
<1>2. CASE EndOfBlock
    <2>1. /\ host' \in [launch : Nat, state : HostStates,
                        seed : Seeds \cup {NoSeed}, signedIn : BOOLEAN]
          /\ host'.launch = host.launch
        BY <1>2 DEF EndOfBlock, TypeOK
    <2> QED BY <1>2, <2>1 DEF EndOfBlock, TypeOK, Place, Driving, Suite, Phases
<1> QED BY <1>1, <1>2

\* One more result.
LEMMA AppendType ==
    ASSUME CommandsAreWellFormed, TypeOK
    PROVE  /\ Append(results, Judgement) \in Seq(ResultType)
           /\ Len(Append(results, Judgement)) = Len(results) + 1
BY JudgementType DEF TypeOK

\* The results of a suite that is stopped after the check under way.
LEMMA StoppedType ==
    ASSUME CommandsAreWellFormed, TypeOK
    PROVE  Append(results, Judgement) \o RestNotRun \in Seq(ResultType)
BY AppendType, RestType

LEMMA CloseTypes ==
    ASSUME CommandsAreWellFormed, TypeOK, Place,
           AbandonSuite \/ StopSuite \/ GiveUp \/ NextCheck
    PROVE  TypeOK' /\ Place'
<1>1. CASE AbandonSuite
    BY <1>1 DEF AbandonSuite, Abandon, TypeOK, Place, Driving, Suite, Phases
<1>2. CASE StopSuite
    <2>1. TypeOK'
        BY <1>2, StoppedType DEF StopSuite, TypeOK, Suite, Phases
    <2>2. Place'
        BY <1>2 DEF StopSuite, Judged, Place, Driving, Suite
    <2> QED BY <2>1, <2>2
<1>3. index \in 1..Len(Suite) /\ Len(Suite) \in Nat
    BY SuiteIsASequence
<1>4. CASE GiveUp
    <2>0. index # Len(Suite)
        BY <1>4 DEF GiveUp, LastCheck
    <2>1. index < Len(Suite)
        BY <1>3, <2>0
    <2> QED BY <1>4, <2>1, AppendType DEF GiveUp, Judged, TypeOK, Place, Driving,
            Suite, Phases
<1>5. CASE NextCheck
    <2>1. CASE LastCheck
        BY <1>5, <2>1, AppendType DEF NextCheck, Judged, TypeOK, Place, Driving,
           Suite, Phases
    <2>2. CASE ~LastCheck
        <3>0. index # Len(Suite)
            BY <2>2 DEF LastCheck
        <3>1. index + 1 \in DOMAIN Suite
            <4>1. index + 1 \in 1..Len(Suite)
                BY <1>3, <3>0
            <4> QED BY <4>1, SuiteIsASequence
        <3>2. /\ phase' = "stage" /\ index' = index + 1 /\ phase = "close"
              /\ results' = Append(results, Judgement)
              /\ Suite' = Suite
              /\ UNCHANGED <<command, host, faults, storage, client, suite, met,
                            live, produced, finished, failures, exit>>
            BY <1>5, <2>2 DEF NextCheck, Judged, Suite
        <3>3. TypeOK'
            BY <3>1, <3>2, AppendType DEF TypeOK, Phases
        <3>4. Len(results') = Len(results) + 1
            BY <3>2, AppendType
        <3>5. Place'
            BY <3>2, <3>4, <1>3 DEF TypeOK, Place, Driving
        <3> QED BY <3>3, <3>5
    <2> QED BY <2>1, <2>2
<1> QED BY <1>1, <1>2, <1>4, <1>5

LEMMA RecoverTypes ==
    ASSUME CommandsAreWellFormed, TypeOK, Place,
           Replace \/ ReplaceFails \/ AskAgain
    PROVE  TypeOK' /\ Place'
<1>0. index \in 1..Len(Suite) /\ Len(Suite) \in Nat /\ DOMAIN Suite = 1..Len(Suite)
    BY SuiteIsASequence
<1>1. storage \in Seeds \cup {NoSeed}
    BY DEF TypeOK
<1>2. phase = "recover" => index + 1 \in DOMAIN Suite
    BY <1>0 DEF Place
<1>3. CASE Replace \/ ReplaceFails
    <2>1. /\ host' \in [launch : Nat, state : HostStates,
                        seed : Seeds \cup {NoSeed}, signedIn : BOOLEAN]
          /\ storage' \in Seeds \cup {NoSeed}
          /\ client' \in [launch : 1..host'.launch,
                          terminal : {"none", "timeout", "closed"}]
        BY <1>1, <1>3, ReconnectTypes DEF Replace, ReplaceFails
    <2>2. CASE Replace
        <3>1. Suite' = Suite /\ index' = index + 1 /\ phase = "recover" /\ phase' = "stage"
            BY <2>2 DEF Replace, Suite
        <3>2. TypeOK'
            BY <1>2, <2>1, <2>2, <3>1 DEF Replace, TypeOK, Phases
        <3>3. Place'
            BY <1>0, <2>2, <3>1 DEF Replace, Place, Driving
        <3> QED BY <3>2, <3>3
    <2>3. CASE ReplaceFails
        BY <2>1, <2>3 DEF ReplaceFails, Abandon, TypeOK, Place, Driving, Suite, Phases
    <2> QED BY <1>3, <2>2, <2>3
<1>4. CASE AskAgain
    <2>1. client' \in [launch : 1..host'.launch,
                       terminal : {"none", "timeout", "closed"}]
        BY <1>4, AnswerType DEF AskAgain
    <2>2. results \o RestNotRun \in Seq(ResultType)
        BY RestType DEF TypeOK
    <2>3. /\ phase = "recover" /\ Suite' = Suite
          /\ \/ phase' = "stage" /\ index' = index + 1 /\ results' = results
             \/ phase' = "report" /\ results' = results \o RestNotRun /\ index' = index
          /\ UNCHANGED <<command, host, faults, storage, suite, met, live,
                        produced, finished, failures, exit>>
        BY <1>4 DEF AskAgain, Suite
    <2>4. TypeOK'
        BY <1>2, <2>1, <2>2, <2>3 DEF TypeOK, Phases
    <2>5. Place'
        BY <1>0, <2>3 DEF Place, Driving
    <2> QED BY <2>4, <2>5
<1> QED BY <1>3, <1>4

LEMMA FailedOfType ==
    ASSUME NEW rs \in Seq(ResultType)
    PROVE  /\ FailedOf(rs) \in Nat
           /\ FailedOf(rs) = 0 =>
                \A i \in DOMAIN rs : rs[i].notRun \/ rs[i].verdict = "pass"
<1> DEFINE failed == {i \in DOMAIN rs : ~rs[i].notRun /\ rs[i].verdict = "fail"}
<1>1. DOMAIN rs = 1..Len(rs) /\ Len(rs) \in Nat
    OBVIOUS
<1>2. IsFiniteSet(failed)
    <2>1. failed \in SUBSET (1..Len(rs))
        BY <1>1
    <2>2. IsFiniteSet(1..Len(rs))
        BY <1>1, FS_Interval
    <2> QED BY <2>1, <2>2, FS_Subset
<1>3. FailedOf(rs) \in Nat /\ (FailedOf(rs) = 0 <=> failed = {})
    BY <1>2, FS_CardinalityType, FS_EmptySet DEF FailedOf
<1>4. \A i \in DOMAIN rs : rs[i].verdict \in {"pass", "fail"}
    <2>1. \A i \in DOMAIN rs : rs[i] \in ResultType
        BY <1>1
    <2>2. \A r \in ResultType : r.verdict \in {"pass", "fail"}
        BY DEF ResultType
    <2> QED BY <2>1, <2>2
<1> QED BY <1>3, <1>4

LEMMA ReportTypes ==
    ASSUME CommandsAreWellFormed, TypeOK, Place, Report \/ Land
    PROVE  TypeOK' /\ Place'
<1>1. /\ \A s \in 1..Len(command.suites) : 1 \in DOMAIN command.suites[s]
      /\ suite \in 1..Len(command.suites) /\ Len(command.suites) \in Nat
      /\ DOMAIN command.suites = 1..Len(command.suites)
    <2>1. /\ command.suites \in Seq(Seq(Seeds \cup {NoSeed}))
          /\ suite \in 1..Len(command.suites)
        BY SuiteIsASequence
    <2>2. ASSUME NEW s \in 1..Len(command.suites)
          PROVE  1 \in DOMAIN command.suites[s]
        <3>1. command.suites[s] \in Seq(Seeds \cup {NoSeed})
            BY <2>1
        <3>2. Len(command.suites[s]) > 0
            BY <2>1 DEF CommandsAreWellFormed, TypeOK
        <3> QED BY <3>1, <3>2
    <2> QED BY <2>1, <2>2
<1>2. CASE Report
    <2>1. FailedOf(results) \in Nat
        BY FailedOfType DEF TypeOK
    <2>2. TypeOK'
        <3>1. /\ finished' \in Seq(Seq(ResultType))
              /\ results' \in Seq(ResultType) /\ failures' \in Nat
              /\ exit' \in {"running", "ok", "failed"} /\ phase' \in Phases
            BY <1>2, <2>1 DEF Report, TypeOK, Phases
        <3>2. suite' \in DOMAIN command'.suites /\ index' \in DOMAIN Suite'
            <4>1. \/ suite' = suite /\ index' = index
                  \/ suite < Len(command.suites) /\ suite' = suite + 1 /\ index' = 1
                BY <1>2 DEF Report
            <4>2. command' = command
                BY <1>2 DEF Report
            <4> QED BY <1>1, <4>1, <4>2 DEF TypeOK, Suite
        <3> QED BY <1>2, <3>1, <3>2 DEF Report, TypeOK
    <2>3. Len(finished') = suite
        BY <1>1, <1>2 DEF Report, TypeOK, Place
    <2>4. Place'
        BY <1>1, <1>2, <2>3 DEF Report, TypeOK, Place, Driving, Suite
    <2> QED BY <2>2, <2>4
<1>3. CASE Land
    <2>1. suite' \in DOMAIN command'.suites /\ index' \in DOMAIN Suite'
        BY <1>1, <1>3 DEF Land, TypeOK, Suite
    <2>2. TypeOK'
        BY <1>3, <2>1, AnswerType DEF Land, TypeOK, Phases
    <2>3. Place'
        BY <1>1, <1>3 DEF Land, TypeOK, Place, Driving, Suite
    <2> QED BY <2>2, <2>3
<1> QED BY <1>2, <1>3

LEMMA NextTypes ==
    ASSUME CommandsAreWellFormed, TypeOK, Place, Next
    PROVE  TypeOK' /\ Place'
<1>1. CASE Finished
    BY <1>1 DEF Finished, vars, TypeOK, Place, Driving, Suite
<1> QED BY <1>1, HostTypes, StageTypes, BodyTypes, CloseTypes, RecoverTypes,
        ReportTypes DEF Next, Proceed

-----------------------------------------------------------------------------
(* The accounts.                                                           *)

\* The first checks with a result, the last of them failed, and the rest not
\* run: a complete account.
LEMMA RestCompletes ==
    ASSUME CommandsAreWellFormed, TypeOK,
           NEW rs \in Seq(ResultType), Len(rs) = index,
           \A i \in 1..index : rs[i].check = i /\ ~rs[i].notRun,
           rs[index].verdict = "fail"
    PROVE  Complete(rs \o RestNotRun, Suite)
<1> DEFINE all == rs \o RestNotRun
<1>1. index \in 1..Len(Suite) /\ Len(Suite) \in Nat
    BY SuiteIsASequence
<1>2. /\ RestNotRun \in Seq(ResultType) /\ Len(RestNotRun) = Len(Suite) - index
      /\ \A k \in 1..(Len(Suite) - index) : RestNotRun[k] = NotRun(index + k)
    BY RestType
<1>3. all \in Seq(ResultType) /\ Len(all) = Len(Suite)
    BY <1>1, <1>2
<1>4. \A i \in 1..index : all[i] = rs[i]
    BY <1>1, <1>2
<1>5. ASSUME NEW i \in (index + 1)..Len(Suite)
      PROVE  all[i] = NotRun(i)
    <2>1. i - index \in 1..(Len(Suite) - index) /\ index + (i - index) = i
        BY <1>1
    <2>2. all[i] = RestNotRun[i - index]
        BY <1>1, <1>2, <2>1
    <2> QED BY <1>2, <2>1, <2>2
<1>6. \A i \in (index + 1)..Len(Suite) : all[i].check = i /\ all[i].notRun
    <2>1. \A i \in Nat : NotRun(i).check = i /\ NotRun(i).notRun
        BY DEF NotRun
    <2>2. (index + 1)..Len(Suite) \subseteq Nat
        BY <1>1
    <2> HIDE DEF all
    <2> QED BY <1>5, <2>1, <2>2
<1>7. DOMAIN all = 1..Len(Suite)
    BY <1>3
<1>8. \A i \in DOMAIN all : all[i].check = i
    BY <1>1, <1>4, <1>6, <1>7
<1>9. ASSUME NEW i \in DOMAIN all, all[i].notRun
      PROVE  \E k \in 1..(i - 1) : /\ ~all[k].notRun /\ all[k].verdict = "fail"
                                   /\ \A j \in (k + 1)..Len(all) : all[j].notRun
    <2>1. index \in 1..(i - 1)
        BY <1>1, <1>4, <1>7, <1>9
    <2>2. ~all[index].notRun /\ all[index].verdict = "fail"
        BY <1>1, <1>4
    <2> QED BY <1>3, <1>6, <2>1, <2>2
<1> QED BY <1>3, <1>8, <1>9 DEF Complete

\* The result of the check under way comes after those of the checks before.
LEMMA ResultAppended ==
    ASSUME CommandsAreWellFormed, TypeOK, Place, Accounts, phase = "close"
    PROVE  LET rs == Append(results, Judgement) IN
           /\ rs \in Seq(ResultType) /\ Len(rs) = index
           /\ rs[index] = Judgement
           /\ \A i \in 1..(index - 1) : rs[i] = results[i]
           /\ \A i \in 1..index : rs[i].check = i /\ ~rs[i].notRun
<1> DEFINE rs == Append(results, Judgement)
<1>1. index \in Nat \ {0}
    BY SuiteIsASequence
<1>2. results \in Seq(ResultType) /\ Len(results) = index - 1
    BY DEF TypeOK, Place, Driving
<1>3. rs \in Seq(ResultType) /\ Len(rs) = index /\ rs[index] = Judgement
    BY <1>1, <1>2, JudgementType
<1>4. \A i \in 1..(index - 1) : rs[i] = results[i]
    BY <1>1, <1>2
<1>5. Judgement.check = index /\ ~Judgement.notRun
    BY DEF Judgement
<1>6. \A i \in 1..(index - 1) : results[i].check = i /\ ~results[i].notRun
    BY <1>2 DEF Accounts, Driving
<1> QED BY <1>1, <1>3, <1>4, <1>5, <1>6

LEMMA StepAccounts ==
    ASSUME CommandsAreWellFormed, TypeOK, Place, Accounts, Next
    PROVE  Accounts'
<1>0. index \in 1..Len(Suite) /\ Len(Suite) \in Nat
    BY SuiteIsASequence
<1>1. CASE HostFails \/ PageRecovers \/ Finished
    BY <1>1 DEF HostFails, PageRecovers, Finished, vars, Accounts, Driving, Suite,
       EveryCheckReportedOnce
<1>2. CASE StageInPlace \/ StageRestart \/ StageFails \/ Ask \/ EndOfBlock
    BY <1>2 DEF StageInPlace, StageRestart, StageFails, Ask, EndOfBlock, Begin,
       Accounts, Driving, EveryCheckReportedOnce
<1>3. CASE AbandonSuite \/ ReplaceFails
    BY <1>3 DEF AbandonSuite, ReplaceFails, Abandon, Accounts, Driving,
       EveryCheckReportedOnce
<1>4. CASE StopSuite
    <2>1. phase = "close" /\ Judgement.verdict = "fail"
        BY <1>4 DEF StopSuite, Judged, Judgement
    <2>2. Complete(Append(results, Judgement) \o RestNotRun, Suite)
        BY <2>1, ResultAppended, RestCompletes
    <2> QED BY <1>4, <2>2 DEF StopSuite, Accounts, Driving, Suite, EveryCheckReportedOnce
<1>5. CASE GiveUp
    <2>1. phase = "close" /\ Judgement.verdict = "fail"
        BY <1>5 DEF GiveUp, Judged, GaveUp, Judgement
    <2> QED BY <1>5, <2>1, <1>0, ResultAppended DEF GiveUp, Accounts, Driving,
            EveryCheckReportedOnce
<1>6. CASE NextCheck
    <2>1. phase = "close"
        BY <1>6 DEF NextCheck, Judged
    <2>2. index = Len(Suite) => Complete(Append(results, Judgement), Suite)
        BY <2>1, ResultAppended DEF Complete
    <2> QED BY <1>6, <2>1, <2>2, ResultAppended DEF NextCheck, LastCheck, Accounts,
            Driving, Suite, EveryCheckReportedOnce
<1>7. CASE Replace
    BY <1>7 DEF Replace, Accounts, Driving, EveryCheckReportedOnce
<1>8. CASE AskAgain
    <2>3. phase = "recover"
        BY <1>8 DEF AskAgain
    <2>4. results \in Seq(ResultType) /\ Len(results) = index /\ DOMAIN results = 1..index
        BY <2>3 DEF Place, TypeOK
    <2>5. /\ \A i \in DOMAIN results : results[i].check = i /\ ~results[i].notRun
          /\ results[index].verdict = "fail"
        BY <2>3 DEF Accounts
    <2>1. /\ phase = "recover" /\ results \in Seq(ResultType) /\ Len(results) = index
          /\ \A i \in 1..index : results[i].check = i /\ ~results[i].notRun
          /\ results[index].verdict = "fail"
        BY <2>3, <2>4, <2>5
    <2>2. Complete(results \o RestNotRun, Suite)
        BY <2>1, RestCompletes
    <2> QED BY <1>8, <2>2 DEF AskAgain, Accounts, Driving, Suite, EveryCheckReportedOnce
<1>9. CASE Report
    <2>1. /\ finished \in Seq(Seq(ResultType)) /\ Len(finished) = suite - 1
          /\ results \in Seq(ResultType) /\ suite \in Nat \ {0}
        BY <1>9, SuiteIsASequence DEF Report, TypeOK, Place
    <2>2. Complete(results, command.suites[suite])
        BY <1>9 DEF Report, Accounts, Suite
    <2>3. EveryCheckReportedOnce'
        <3>1. finished' = Append(finished, results) /\ command' = command
            BY <1>9 DEF Report
        <3> QED BY <2>1, <2>2, <3>1 DEF Accounts, EveryCheckReportedOnce
    <2> QED BY <1>9, <2>3 DEF Report, Accounts, Driving
<1>10. CASE Land
    BY <1>10 DEF Land, Accounts, Place, Driving, EveryCheckReportedOnce
<1> QED BY <1>1, <1>2, <1>3, <1>4, <1>5, <1>6, <1>7, <1>8, <1>9, <1>10
        DEF Next, Proceed

-----------------------------------------------------------------------------
(* The verdicts.                                                           *)

\* The check under way is judged soundly, and so is one that is not run.
LEMMA JudgementSound ==
    ASSUME CommandsAreWellFormed, TypeOK, Verdicts, phase = "close"
    PROVE  Sound(Judgement)
BY DEF Sound, Judgement, Verdicts

LEMMA SoundAppended ==
    ASSUME CommandsAreWellFormed, TypeOK, Verdicts, phase = "close"
    PROVE  \A i \in DOMAIN Append(results, Judgement) :
             Sound(Append(results, Judgement)[i])
<1>1. results \in Seq(ResultType) /\ Judgement \in ResultType
    BY JudgementType DEF TypeOK
<1>2. \A i \in DOMAIN results : Sound(results[i])
    BY DEF Verdicts
<1>3. \A i \in DOMAIN Append(results, Judgement) :
          Append(results, Judgement)[i] \in {results[j] : j \in DOMAIN results} \cup {Judgement}
    BY <1>1
<1> QED BY <1>2, <1>3, JudgementSound

LEMMA SoundRest ==
    ASSUME CommandsAreWellFormed, TypeOK,
           NEW rs \in Seq(ResultType), \A i \in DOMAIN rs : Sound(rs[i])
    PROVE  \A i \in DOMAIN (rs \o RestNotRun) : Sound((rs \o RestNotRun)[i])
<1>1. /\ RestNotRun \in Seq(ResultType)
      /\ \A k \in DOMAIN RestNotRun : RestNotRun[k] = NotRun(index + k)
    BY RestType
<1>2. \A i \in Nat : Sound(NotRun(i))
    BY DEF Sound, NotRun
<1>3. \A k \in DOMAIN RestNotRun : Sound(RestNotRun[k])
    BY <1>1, SuiteIsASequence, <1>2
<1>4. \A i \in DOMAIN (rs \o RestNotRun) :
          \/ i \in DOMAIN rs /\ (rs \o RestNotRun)[i] = rs[i]
          \/ \E k \in DOMAIN RestNotRun : (rs \o RestNotRun)[i] = RestNotRun[k]
    <2> SUFFICES ASSUME NEW i \in DOMAIN (rs \o RestNotRun), i \notin DOMAIN rs
                 PROVE  \E k \in DOMAIN RestNotRun : (rs \o RestNotRun)[i] = RestNotRun[k]
        BY <1>1
    <2>1. i - Len(rs) \in DOMAIN RestNotRun /\ (rs \o RestNotRun)[i] = RestNotRun[i - Len(rs)]
        BY <1>1
    <2> QED BY <2>1
<1> QED BY <1>3, <1>4

LEMMA StepVerdicts ==
    ASSUME CommandsAreWellFormed, TypeOK, Place, Verdicts, Next
    PROVE  Verdicts'
<1> USE DEF Verdicts
<1>1. CASE HostFails \/ PageRecovers \/ Finished
    BY <1>1 DEF HostFails, PageRecovers, Finished, vars
<1>2. CASE StageInPlace \/ StageRestart \/ StageFails
    BY <1>2 DEF StageInPlace, StageRestart, StageFails, Begin
<1>3. CASE Ask
    <2>1. client'.terminal = "none" => live' /\ "lost" \notin met'
        BY <1>3, AnswerType DEF Ask
    <2> QED BY <1>3, <2>1 DEF Ask
<1>4. CASE EndOfBlock
    BY <1>4 DEF EndOfBlock
<1>5. CASE AbandonSuite \/ ReplaceFails
    BY <1>5 DEF AbandonSuite, ReplaceFails, Abandon
<1>6. CASE StopSuite
    <2>1. phase = "close" /\ results' = Append(results, Judgement) \o RestNotRun
        BY <1>6 DEF StopSuite, Judged
    <2>2. Append(results, Judgement) \in Seq(ResultType)
        BY AppendType
    <2>3. \A i \in DOMAIN results' : Sound(results'[i])
        BY <2>1, <2>2, SoundAppended, SoundRest
    <2> QED BY <1>6, <2>1, <2>3 DEF StopSuite, Sound
<1>7. CASE GiveUp \/ NextCheck
    <2>1. phase = "close" /\ results' = Append(results, Judgement)
        BY <1>7 DEF GiveUp, NextCheck, Judged
    <2>2. \A i \in DOMAIN results' : Sound(results'[i])
        BY <2>1, SoundAppended
    <2> QED BY <1>7, <2>1, <2>2 DEF GiveUp, NextCheck, Sound
<1>8. CASE Replace
    BY <1>8 DEF Replace
<1>9. CASE AskAgain
    <2>1. \A i \in DOMAIN results' : Sound(results'[i])
        BY <1>9, SoundRest DEF AskAgain, TypeOK
    <2> QED BY <1>9, <2>1 DEF AskAgain, Sound
<1>10. CASE Report
    <2>1. finished' = Append(finished, results) /\ results' = <<>>
        BY <1>10 DEF Report
    <2>2. finished \in Seq(Seq(ResultType)) /\ results \in Seq(ResultType)
        BY DEF TypeOK
    <2>3. \A s \in DOMAIN finished' :
             \/ s \in DOMAIN finished /\ finished'[s] = finished[s]
             \/ finished'[s] = results
        BY <2>1, <2>2
    <2>4. \A s \in DOMAIN finished' : \A i \in DOMAIN finished'[s] : Sound(finished'[s][i])
        BY <2>3
    <2>5. /\ FailedOf(results) \in Nat /\ failures \in Nat
          /\ FailedOf(results) = 0 =>
               \A i \in DOMAIN results : results[i].notRun \/ results[i].verdict = "pass"
        BY <2>2, FailedOfType DEF TypeOK
    <2>6. failures' = failures + FailedOf(results)
        BY <1>10 DEF Report
    <2>7. failures' = 0 => failures = 0 /\ FailedOf(results) = 0
        BY <2>5, <2>6
    <2>8. failures' = 0 =>
            \A s \in DOMAIN finished' : \A i \in DOMAIN finished'[s] :
              finished'[s][i].notRun \/ finished'[s][i].verdict = "pass"
        BY <2>3, <2>5, <2>7
    <2>9. /\ exit' # "running" <=> phase' = "done"
          /\ exit' = "ok" => failures' = 0 /\ Len(finished') = Len(command'.suites)
        <3>1. Len(finished') = suite /\ suite \in 1..Len(command.suites)
            BY <1>10, <2>1, <2>2, SuiteIsASequence DEF Report, Place
        <3> QED BY <1>10, <2>5, <2>6, <3>1 DEF Report
    <2>10. phase' \notin {"body", "close"}
        BY <1>10 DEF Report
    <2> QED BY <2>1, <2>4, <2>8, <2>9, <2>10
<1>11. CASE Land
    BY <1>11 DEF Land
<1> QED BY <1>1, <1>2, <1>3, <1>4, <1>5, <1>6, <1>7, <1>8, <1>9, <1>10, <1>11
        DEF Next, Proceed

-----------------------------------------------------------------------------
(* The launches.                                                           *)

\* A replacement is a later launch than any before it.
LEMMA ReplacedLater ==
    ASSUME TypeOK, NEW seed, Reconnect(seed)
    PROVE  client'.launch \in Nat /\ client.launch < client'.launch
<1>1. client.launch \in 1..host.launch /\ host.launch \in Nat
    BY DEF TypeOK
<1>2. client'.launch = host.launch + 1
    BY DEF Reconnect, Connected
<1> QED BY <1>1, <1>2

\* One more result follows the ones before.
LEMMA FollowsAppended ==
    ASSUME CommandsAreWellFormed, TypeOK, Place, Accounts, Launches,
           command.hosted, phase = "close"
    PROVE  \A i \in DOMAIN Append(results, Judgement) :
             i > 1 => Follows(Append(results, Judgement), i)
<1> DEFINE rs == Append(results, Judgement)
<1>1. /\ rs \in Seq(ResultType) /\ Len(rs) = index /\ rs[index] = Judgement
      /\ \A i \in 1..(index - 1) : rs[i] = results[i]
    BY ResultAppended
<1>2. index \in Nat \ {0} /\ results \in Seq(ResultType) /\ Len(results) = index - 1
    BY SuiteIsASequence DEF TypeOK, Place, Driving
<1>3. Judgement.launch = client.launch
    BY DEF Judgement
<1> HIDE DEF rs
<1>4. ASSUME NEW i \in 2..(index - 1)
      PROVE  Follows(rs, i)
    <2>1. rs[i] = results[i] /\ rs[i - 1] = results[i - 1]
        BY <1>1, <1>2
    <2>2. Follows(results, i)
        BY <1>2 DEF Launches
    <2> QED BY <2>1, <2>2 DEF Follows
<1>5. CASE index > 1
    <2>1. rs[index - 1] = results[index - 1]
        BY <1>1, <1>2, <1>5
    <2>2. Follows(rs, index)
        BY <1>1, <1>3, <1>5, <2>1 DEF Follows, Launches, Driving
    <2> QED BY <1>1, <1>2, <1>4, <2>2 DEF rs
<1>6. CASE index = 1
    BY <1>1, <1>2, <1>6 DEF rs
<1> QED BY <1>2, <1>5, <1>6

LEMMA FollowsRest ==
    ASSUME CommandsAreWellFormed, TypeOK, NEW rs \in Seq(ResultType), Len(rs) = index,
           \A i \in DOMAIN rs : i > 1 => Follows(rs, i)
    PROVE  \A i \in DOMAIN (rs \o RestNotRun) : i > 1 => Follows(rs \o RestNotRun, i)
<1> DEFINE all == rs \o RestNotRun
<1>1. /\ RestNotRun \in Seq(ResultType)
      /\ \A k \in DOMAIN RestNotRun : RestNotRun[k] = NotRun(index + k)
    BY RestType
<1>2. \A k \in DOMAIN RestNotRun : RestNotRun[k].notRun
    BY <1>1 DEF NotRun
<1> SUFFICES ASSUME NEW i \in DOMAIN all, i > 1  PROVE Follows(all, i)
    OBVIOUS
<1>3. CASE i \in DOMAIN rs
    <2>1. all[i] = rs[i] /\ all[i - 1] = rs[i - 1]
        BY <1>1, <1>3
    <2>2. Follows(rs, i)
        BY <1>3
    <2> HIDE DEF all
    <2> QED BY <2>1, <2>2 DEF Follows
<1>4. CASE i \notin DOMAIN rs
    <2>1. i - Len(rs) \in DOMAIN RestNotRun /\ all[i] = RestNotRun[i - Len(rs)]
        BY <1>1, <1>4
    <2>2. all[i].notRun
        BY <1>2, <2>1
    <2> HIDE DEF all
    <2> QED BY <2>2 DEF Follows
<1> QED BY <1>3, <1>4

LEMMA StepLaunches ==
    ASSUME CommandsAreWellFormed, TypeOK, Place, Accounts, Launches, Next
    PROVE  Launches'
<1>0. command' = command
    BY DEF Next, Proceed, HostFails, PageRecovers, Finished, vars, StageInPlace,
       StageRestart, StageFails, Ask, EndOfBlock, AbandonSuite, StopSuite, GiveUp,
       NextCheck, Replace, ReplaceFails, AskAgain, Report, Land
<1> SUFFICES ASSUME command.hosted  PROVE Launches'
    BY <1>0 DEF Launches
<1> USE DEF Launches, Driving
<1>1. CASE HostFails \/ PageRecovers \/ Finished
    BY <1>1 DEF HostFails, PageRecovers, Finished, vars
<1>2. index \in Nat \ {0} /\ results \in Seq(ResultType)
    BY SuiteIsASequence DEF TypeOK
<1>3. \A i \in DOMAIN results : results[i].launch \in Nat
    <2>1. \A i \in DOMAIN results : results[i] \in ResultType
        BY <1>2
    <2>2. \A r \in ResultType : r.launch \in Nat
        BY DEF ResultType
    <2> QED BY <2>1, <2>2
<1>4. client.launch \in Nat
    BY DEF TypeOK
<1>5. CASE StageInPlace \/ StageFails
    BY <1>5 DEF StageInPlace, StageFails, ReconnectFails, Begin
<1>6. CASE StageRestart
    <2>1. client'.launch \in Nat /\ client.launch < client'.launch
        BY <1>6, ReplacedLater DEF StageRestart
    <2>2. phase = "stage" /\ UNCHANGED <<index, results, finished>> /\ phase' = "body"
        BY <1>6 DEF StageRestart, Begin
    <2>3. index > 1 => index - 1 \in DOMAIN results
        BY <1>2, <2>2 DEF Place
    <2> QED BY <1>0, <1>2, <1>3, <1>4, <2>1, <2>2, <2>3
<1>7. CASE Ask
    BY <1>7, AnswerType DEF Ask
<1>8. CASE EndOfBlock
    BY <1>8 DEF EndOfBlock
<1>9. CASE AbandonSuite \/ ReplaceFails
    BY <1>9 DEF AbandonSuite, ReplaceFails, Abandon
<1>10. CASE StopSuite
    <2>1. /\ phase = "close" /\ phase' = "report" /\ finished' = finished
          /\ results' = Append(results, Judgement) \o RestNotRun
        BY <1>10 DEF StopSuite, Judged
    <2>2. /\ Append(results, Judgement) \in Seq(ResultType)
          /\ Len(Append(results, Judgement)) = index
        BY <2>1, ResultAppended
    <2>3. \A i \in DOMAIN results' : i > 1 => Follows(results', i)
        BY <2>1, <2>2, FollowsAppended, FollowsRest
    <2> QED BY <2>1, <2>3
<1>11. CASE GiveUp \/ NextCheck
    <2>1. /\ phase = "close" /\ finished' = finished /\ client' = client
          /\ results' = Append(results, Judgement)
        BY <1>11 DEF GiveUp, NextCheck, Judged
    <2>2. \A i \in DOMAIN results' : i > 1 => Follows(results', i)
        BY <2>1, FollowsAppended
    <2>3. results'[index] = Judgement
        BY <2>1, ResultAppended
    <2>4. /\ results'[index].launch = client'.launch /\ client'.launch \in Nat
          /\ results'[index].gaveUp = GaveUp
        <3>1. Judgement.launch = client.launch /\ Judgement.gaveUp = GaveUp
            BY DEF Judgement
        <3>2. client' = client
            BY <2>1
        <3> QED BY <1>4, <2>3, <3>1, <3>2
    <2>5. CASE GiveUp
        <3>1. phase' = "recover" /\ index' = index
            BY <2>5 DEF GiveUp
        <3>2. results'[index'].launch <= client'.launch
            BY <2>4, <3>1
        <3>3. \A s \in DOMAIN finished' : \A i \in DOMAIN finished'[s] :
                 i > 1 => Follows(finished'[s], i)
            BY <2>1
        <3> QED BY <2>2, <3>1, <3>2, <3>3
    <2>6. CASE NextCheck
        <3>1. \/ phase' = "report"
              \/ phase' = "stage" /\ index' = index + 1 /\ ~GaveUp
            BY <2>6 DEF NextCheck
        <3>2. phase' = "stage" =>
                /\ results'[index' - 1].launch <= client'.launch
                /\ ~results'[index' - 1].gaveUp
            <4>1. phase' = "stage" => index' - 1 = index
                BY <1>2, <3>1
            <4> QED BY <2>4, <3>1, <4>1
        <3>3. \A s \in DOMAIN finished' : \A i \in DOMAIN finished'[s] :
                 i > 1 => Follows(finished'[s], i)
            BY <2>1
        <3> QED BY <2>2, <3>1, <3>2, <3>3
    <2> QED BY <1>11, <2>5, <2>6
<1>12. CASE Replace
    <2>1. client'.launch \in Nat /\ client.launch < client'.launch
        BY <1>12, ReplacedLater DEF Replace
    <2>2. /\ phase = "recover" /\ phase' = "stage" /\ index' = index + 1
          /\ UNCHANGED <<results, finished>>
        BY <1>12 DEF Replace
    <2>3. index \in DOMAIN results
        BY <1>2, <2>2 DEF Place
    <2> QED BY <1>2, <1>3, <1>4, <2>1, <2>2, <2>3
<1>13. CASE AskAgain
    BY <1>13 DEF AskAgain
<1>14. CASE Report
    <2>1. finished' = Append(finished, results) /\ results' = <<>>
        BY <1>14 DEF Report
    <2>2. finished \in Seq(Seq(ResultType))
        BY DEF TypeOK
    <2>3. \A s \in DOMAIN finished' :
             \/ s \in DOMAIN finished /\ finished'[s] = finished[s]
             \/ finished'[s] = results
        BY <2>1, <2>2
    <2>4. \A s \in DOMAIN finished' : \A i \in DOMAIN finished'[s] :
             i > 1 => Follows(finished'[s], i)
        BY <2>3
    <2>5. phase' # "recover" /\ (phase' \in {"stage", "body", "close"} => index' = 1)
        BY <1>14 DEF Report
    <2> QED BY <2>1, <2>4, <2>5
<1>15. CASE Land
    BY <1>15 DEF Land
<1> QED BY <1>1, <1>5, <1>6, <1>7, <1>8, <1>9, <1>10, <1>11, <1>12, <1>13, <1>14,
        <1>15 DEF Next, Proceed

-----------------------------------------------------------------------------
(* The storage.                                                            *)

\* A seeding run is hosted, and its suite is the last.
LEMMA OneSuite ==
    ASSUME CommandsAreWellFormed, TypeOK, command.seeds
    PROVE  command.hosted /\ ~(suite < Len(command.suites)) /\ ~(Len(command.suites) > 1)
<1>1. command \in Commands /\ suite \in 1..Len(command.suites)
    BY SuiteIsASequence DEF TypeOK
<1>2. command.hosted /\ Len(command.suites) = 1
    BY <1>1 DEF CommandsAreWellFormed
<1> QED BY <1>1, <1>2

LEMMA StepStorage ==
    ASSUME CommandsAreWellFormed, TypeOK, Place, Storage, Next
    PROVE  Storage'
<1> USE DEF Storage, Standing
<1>1. CASE HostFails \/ PageRecovers \/ Finished
    <2>1. host'.launch = host.launch /\ host'.seed = host.seed
        BY <1>1 DEF HostFails, PageRecovers, Finished, vars, TypeOK
    <2> QED BY <1>1, <2>1 DEF HostFails, PageRecovers, Finished, vars, Suite, Check
<1>2. command.seeds => command.hosted
    BY OneSuite
<1>3. CASE StageInPlace
    <2>1. command.seeds => Check = NoSeed /\ storage = NoSeed
        BY <1>3 DEF StageInPlace, NeedsRestart
    <2> QED BY <1>3, <2>1 DEF StageInPlace, Begin, Suite, Check
<1>4. CASE StageRestart
    <2>1. Standing' /\ storage' = Check
        BY <1>4 DEF StageRestart, Reconnect, Launched, Connected
    <2> QED BY <1>4, <2>1 DEF StageRestart, Begin, Suite, Check
<1>5. CASE StageFails
    BY <1>5 DEF StageFails
<1>6. CASE Ask
    BY <1>6, AnswerType DEF Ask, Suite, Check
<1>7. CASE EndOfBlock
    <2>1. host'.launch = host.launch /\ host'.seed = host.seed
        BY <1>7 DEF EndOfBlock, TypeOK
    <2> QED BY <1>7, <2>1 DEF EndOfBlock
<1>8. CASE AbandonSuite \/ ReplaceFails
    BY <1>8 DEF AbandonSuite, ReplaceFails, Abandon
<1>9. CASE StopSuite
    BY <1>9 DEF StopSuite
<1>10. CASE GiveUp \/ NextCheck
    <2>1. produced # "errOther" /\ phase = "close"
        BY <1>10 DEF GiveUp, NextCheck, Judged, GaveUp
    <2> QED BY <1>10, <2>1 DEF GiveUp, NextCheck
<1>11. CASE Replace
    <2>1. Standing'
        BY <1>11 DEF Replace, Reconnect, Launched, Connected
    <2> QED BY <1>11, <2>1 DEF Replace
<1>12. CASE AskAgain
    BY <1>2, <1>12 DEF AskAgain
<1>13. CASE Report \/ Land
    <2>1. command.seeds => phase' \in {"landing", "done"}
        <3>1. command.seeds =>
                 ~(suite < Len(command.suites)) /\ ~(Len(command.suites) > 1)
            BY OneSuite
        <3>2. CASE Report
            BY <3>1, <3>2 DEF Report
        <3>3. CASE Land
            BY <3>1, <3>3 DEF Land
        <3> QED BY <1>13, <3>2, <3>3
    <2>2. command' = command
        BY <1>13 DEF Report, Land
    <2> QED BY <2>1, <2>2
<1> QED BY <1>1, <1>3, <1>4, <1>5, <1>6, <1>7, <1>8, <1>9, <1>10, <1>11, <1>12,
        <1>13 DEF Next, Proceed

-----------------------------------------------------------------------------
(* The theorems.                                                           *)

LEMMA InitInv == CommandsAreWellFormed /\ Init => SuiteInv
BY InitTypes DEF Init, SuiteInv, Accounts, Verdicts, Launches, Storage, Standing,
   Driving, EveryCheckReportedOnce, Launched, Connected

LEMMA NextInv == CommandsAreWellFormed /\ SuiteInv /\ [Next]_vars => SuiteInv'
<1> SUFFICES ASSUME CommandsAreWellFormed, SuiteInv, [Next]_vars  PROVE SuiteInv'
    OBVIOUS
<1>1. CASE Next
    BY <1>1, NextTypes, StepAccounts, StepVerdicts, StepLaunches, StepStorage
       DEF SuiteInv
<1>2. CASE UNCHANGED vars
    BY <1>2 DEF vars, SuiteInv, TypeOK, Place, Accounts, Verdicts, Launches, Storage,
       Standing, Driving, Suite, Check, EveryCheckReportedOnce
<1> QED BY <1>1, <1>2

LEMMA SuiteInvariant ==
    ASSUME CommandsAreWellFormed
    PROVE  Spec => []SuiteInv
BY InitInv, NextInv, PTL DEF Spec

LEMMA SuccessIsEarned == SuiteInv => SuccessMeansAllPassed
<1> SUFFICES ASSUME SuiteInv, exit = "ok"
             PROVE  /\ Len(finished) = Len(command.suites)
                    /\ \A s \in DOMAIN finished : \A i \in DOMAIN finished[s] :
                         ~finished[s][i].notRun /\ Sound(finished[s][i])
                           /\ finished[s][i].verdict = "pass"
    BY DEF SuccessMeansAllPassed, Sound
<1>1. /\ Len(finished) = Len(command.suites)
      /\ \A s \in DOMAIN finished : \A i \in DOMAIN finished[s] :
           /\ Sound(finished[s][i])
           /\ finished[s][i].notRun \/ finished[s][i].verdict = "pass"
    BY DEF SuiteInv, Verdicts
<1>2. ASSUME NEW s \in DOMAIN finished, NEW i \in DOMAIN finished[s], finished[s][i].notRun
      PROVE  FALSE
    <2>1. Complete(finished[s], command.suites[s])
        BY DEF SuiteInv, Accounts, EveryCheckReportedOnce
    <2>2. PICK k \in 1..(i - 1) : ~finished[s][k].notRun /\ finished[s][k].verdict = "fail"
        BY <1>2, <2>1 DEF Complete
    <2>3. finished[s] \in Seq(ResultType)
        BY DEF SuiteInv, TypeOK
    <2>4. k \in DOMAIN finished[s]
        BY <2>3
    <2> QED BY <1>1, <2>2, <2>4
<1> QED BY <1>1, <1>2

LEMMA InvIsReported == SuiteInv => ReportIsTheChecks
BY DEF SuiteInv, Accounts, ReportIsTheChecks

LEMMA LaterIsReplaced == SuiteInv => LostHostIsReplaced
BY DEF SuiteInv, Launches, Follows, LostHostIsReplaced

LEMMA SeedIsInstalled == SuiteInv => SeedIsTheChecks
BY DEF SuiteInv, Storage, Standing, SeedIsTheChecks

\* Every report is that of the checks selected, in order, with the checks not
\* run behind one that failed (run_qa_inner's table).
THEOREM ReportedOnce ==
    ASSUME CommandsAreWellFormed
    PROVE  Spec => []ReportIsTheChecks
BY InvIsReported, SuiteInvariant, PTL

\* A run that exits with success ran and passed every check of every suite
\* on a connection that lost no answer.
THEOREM SuccessEarned ==
    ASSUME CommandsAreWellFormed
    PROVE  Spec => []SuccessMeansAllPassed
BY SuccessIsEarned, SuiteInvariant, PTL

\* The check after one whose host gave up is driven against a later launch.
THEOREM HostReplaced ==
    ASSUME CommandsAreWellFormed
    PROVE  Spec => []LostHostIsReplaced
BY LaterIsReplaced, SuiteInvariant, PTL

\* A check of a seeding run drives the standing host, launched with the
\* check's own storage (stage_check_storage).
THEOREM SeedInstalled ==
    ASSUME CommandsAreWellFormed
    PROVE  Spec => []SeedIsTheChecks
BY SeedIsInstalled, SuiteInvariant, PTL
=============================================================================
