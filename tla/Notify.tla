------------------------------- MODULE Notify -------------------------------
(***************************************************************************)
(* The wake primitive behind every handoff of blitz-control-protocol:      *)
(* nagoya::sync::Notify, a dependency, modelled from how the crate uses    *)
(* it.  A broadcast stores no permit, so it reaches exactly the waiters    *)
(* that enabled themselves before it.  `notified()` and `enable()` are one *)
(* step here: a broadcast between them makes `enable` answer `ready`, and  *)
(* the caller then skips its await, which is what a waiter notified right  *)
(* after a joint step does too.                                            *)
(***************************************************************************)

\* A waiter's registration, from the loop head to the end of its await.
Registration == {"absent", "enabled", "notified"}

\* `notified()` followed by `enable()`, at the head of each wait loop.
Enable(waiters, w) == [waiters EXCEPT ![w] = "enabled"]

\* `notify_waiters`: wake everyone enabled, leave no permit for the others.
NotifyWaiters(waiters) ==
    [w \in DOMAIN waiters |->
        IF waiters[w] = "enabled" THEN "notified" ELSE waiters[w]]

\* The await resolves, or a loop that found what it wanted drops its future.
Discard(waiters, w) == [waiters EXCEPT ![w] = "absent"]

Awake(waiters, w) == waiters[w] = "notified"
=============================================================================
