---------------------------- MODULE Invocations ----------------------------
(* The invocations the suite loop is run under (QaSuite's Commands): the   *)
(* storage of each check of each suite, "none" where it declares none.     *)
EXTENDS Naturals, Sequences

SuiteSeeds == {"s1", "s2"}

QaHosted == [hosted |-> TRUE, seeds |-> TRUE, login |-> FALSE,
             suites |-> << <<"none", "s1", "s2">> >>]
QaHostedCleared == [QaHosted EXCEPT !.suites = << <<"s1", "none", "none">> >>]
External == [hosted |-> FALSE, seeds |-> FALSE, login |-> FALSE,
             suites |-> << <<"none", "none", "none">> >>]
SignedIn == [hosted |-> TRUE, seeds |-> FALSE, login |-> TRUE,
             suites |-> << <<"none">>, <<"none", "none">>, <<"none">> >>]
Guest == [hosted |-> TRUE, seeds |-> FALSE, login |-> FALSE,
          suites |-> << <<"none", "s1">> >>]

AllCommands == {QaHosted, QaHostedCleared, External, SignedIn, Guest}
=============================================================================
