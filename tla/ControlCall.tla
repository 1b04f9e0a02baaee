---------------------------- MODULE ControlCall ----------------------------
(***************************************************************************)
(* What one inspector connection promises the tool that drives it.  Calls  *)
(* go out one at a time.  The application carries out each call's command  *)
(* at most once and in the order the calls were made, possibly after the   *)
(* caller gave up on it.  A call that is answered with success was carried *)
(* out before it returned.  After a transport failure nothing more is      *)
(* asked of the application on this connection.                            *)
(***************************************************************************)
EXTENDS Integers

VARIABLES
    issued,       \* the number of the last call made
    calling,      \* a call is waiting for its answer
    carriedOut,   \* the number of the last call carried out
    answered,     \* the number of the last call answered with success
    failed        \* the connection is given up

vars == <<issued, calling, carriedOut, answered, failed>>

Init ==
    /\ issued = 0
    /\ calling = FALSE
    /\ carriedOut = 0
    /\ answered = 0
    /\ failed = FALSE

Invoke ==
    /\ ~failed /\ ~calling
    /\ issued' = issued + 1
    /\ calling' = TRUE
    /\ UNCHANGED <<carriedOut, answered, failed>>

CarryOut ==
    /\ carriedOut < issued
    /\ carriedOut' = issued
    /\ UNCHANGED <<issued, calling, answered, failed>>

\* Success: the answer follows the execution of this very call.
Answer ==
    /\ calling /\ carriedOut = issued
    /\ calling' = FALSE
    /\ answered' = issued
    /\ UNCHANGED <<issued, carriedOut, failed>>

\* The application refused, or its bridge went away; the connection lives on.
Refuse ==
    /\ calling
    /\ calling' = FALSE
    /\ UNCHANGED <<issued, carriedOut, answered, failed>>

\* Timeout or disconnection, in a call or while watching for notifications.
Fail ==
    /\ ~failed
    /\ failed' = TRUE
    /\ calling' = FALSE
    /\ UNCHANGED <<issued, carriedOut, answered>>

Next == Invoke \/ CarryOut \/ Answer \/ Refuse \/ Fail

Spec == Init /\ [][Next]_vars
=============================================================================
