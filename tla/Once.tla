-------------------------------- MODULE Once --------------------------------
(***************************************************************************)
(* `Once<T>` (latest.rs): one answer, handed from whoever holds it to the  *)
(* caller waiting in `recv`.  The value and the finality flag sit under    *)
(* one lock; holding it, releasing it and broadcasting are separate steps. *)
(* A value is the sender that offered it.                                  *)
(***************************************************************************)
EXTENDS Notify

CONSTANTS
    Fillers,      \* synchronous senders: `fill`, spinning on `try_write`
    Senders,      \* asynchronous senders: `send`
    Abandoners,   \* senders going away: `abandon`
    Receivers     \* callers of `recv`

VARIABLES
    value,        \* the slot
    final,        \* no further answer is to be waited for
    holder,       \* who holds the lock around the two
    spc,          \* where each sender is
    outcome,      \* what each sender's call came to
    waiters,      \* Notify registrations of the receivers
    rpc,          \* where each receiver is
    result        \* what each receiver's call returned

vars == <<value, final, holder, spc, outcome, waiters, rpc, result>>

Callers == Fillers \union Senders \union Abandoners
Nobody == "nobody"
NoValue == "none"

Init ==
    /\ value = NoValue
    /\ final = FALSE
    /\ holder = Nobody
    /\ spc = [s \in Callers |-> "idle"]
    /\ outcome = [s \in Callers |-> "pending"]
    /\ waiters = [r \in Receivers |-> "absent"]
    /\ rpc = [r \in Receivers |-> "enable"]
    /\ result = [r \in Receivers |-> NoValue]

receiver == <<waiters, rpc, result>>
sender == <<spc, outcome>>

-----------------------------------------------------------------------------
\* Senders.  A call may start at any time, or never.

Call(s) ==
    /\ spc[s] = "idle"
    /\ spc' = [spc EXCEPT ![s] = "lock"]
    /\ UNCHANGED <<value, final, holder, outcome, receiver>>

\* `try_write` until it succeeds, or `write().await`: both wait for the lock.
LockForWrite(s) ==
    /\ spc[s] = "lock" /\ holder = Nobody
    /\ holder' = s
    /\ spc' = [spc EXCEPT ![s] = "write"]
    /\ UNCHANGED <<value, final, outcome, receiver>>

\* `fill` refuses without a wake when a value or an end is already there.
Fill(s) ==
    /\ spc[s] = "write"
    /\ holder' = Nobody
    /\ IF value # NoValue \/ final
       THEN /\ spc' = [spc EXCEPT ![s] = "done"]
            /\ outcome' = [outcome EXCEPT ![s] = "refused"]
            /\ UNCHANGED <<value, final>>
       ELSE /\ value' = s /\ final' = TRUE
            /\ spc' = [spc EXCEPT ![s] = "wake"]
            /\ outcome' = [outcome EXCEPT ![s] = "stored"]
    /\ UNCHANGED receiver

\* `send` looks at the slot only: after a `recv` took the first value, or
\* after `abandon`, it stores another one.
Send(s) ==
    /\ spc[s] = "write"
    /\ holder' = Nobody
    /\ final' = TRUE
    /\ IF value = NoValue
       THEN /\ value' = s
            /\ outcome' = [outcome EXCEPT ![s] = "stored"]
       ELSE /\ outcome' = [outcome EXCEPT ![s] = "refused"]
            /\ UNCHANGED value
    /\ spc' = [spc EXCEPT ![s] = "wake"]
    /\ UNCHANGED receiver

Abandon(s) ==
    /\ spc[s] = "write"
    /\ holder' = Nobody
    /\ final' = TRUE
    /\ spc' = [spc EXCEPT ![s] = "wake"]
    /\ outcome' = [outcome EXCEPT ![s] = "abandoned"]
    /\ UNCHANGED <<value, receiver>>

Wake(s) ==
    /\ spc[s] = "wake"
    /\ waiters' = NotifyWaiters(waiters)
    /\ spc' = [spc EXCEPT ![s] = "done"]
    /\ UNCHANGED <<value, final, holder, outcome, rpc, result>>

-----------------------------------------------------------------------------
\* Receivers.

\* Mutation: the waiter is enabled only by its first await, after the look.
EnableNothing(r) ==
    /\ rpc[r] = "enable"
    /\ rpc' = [rpc EXCEPT ![r] = "lock"]
    /\ UNCHANGED <<value, final, holder, sender, waiters, result>>

EnableReceiver(r) ==
    /\ rpc[r] = "enable"
    /\ waiters' = Enable(waiters, r)
    /\ rpc' = [rpc EXCEPT ![r] = "lock"]
    /\ UNCHANGED <<value, final, holder, sender, result>>

LockForLook(r) ==
    /\ rpc[r] = "lock" /\ holder = Nobody
    /\ holder' = r
    /\ rpc' = [rpc EXCEPT ![r] = "look"]
    /\ UNCHANGED <<value, final, sender, waiters, result>>

\* Mutation: the value is cloned, not taken.
LookWithoutTaking(r) ==
    /\ rpc[r] = "look"
    /\ holder' = Nobody
    /\ result' = [result EXCEPT ![r] = value]
    /\ rpc' = [rpc EXCEPT ![r] =
                  IF value # NoValue \/ final THEN "done" ELSE "park"]
    /\ UNCHANGED <<value, final, sender, waiters>>

\* Take the value, or report a final absence, or go and wait.
Look(r) ==
    /\ rpc[r] = "look"
    /\ holder' = Nobody
    /\ result' = [result EXCEPT ![r] = value]
    /\ value' = NoValue
    /\ rpc' = [rpc EXCEPT ![r] =
                  IF value # NoValue \/ final THEN "done" ELSE "park"]
    /\ UNCHANGED <<final, sender, waiters>>

Unpark(r) ==
    /\ rpc[r] = "park" /\ Awake(waiters, r)
    /\ waiters' = Discard(waiters, r)
    /\ rpc' = [rpc EXCEPT ![r] = "enable"]
    /\ UNCHANGED <<value, final, holder, sender, result>>

-----------------------------------------------------------------------------
Finish(s) ==
    \/ LockForWrite(s)
    \/ s \in Fillers /\ Fill(s)
    \/ s \in Senders /\ Send(s)
    \/ s \in Abandoners /\ Abandon(s)
    \/ Wake(s)

Receive(r) == EnableReceiver(r) \/ LockForLook(r) \/ Look(r) \/ Unpark(r)

Next ==
    \/ \E s \in Callers : Call(s) \/ Finish(s)
    \/ \E r \in Receivers : Receive(r)

\* A call that started and a polled receiver go on.  Every caller takes the
\* lock a bounded number of times, so it is eventually free for whoever is
\* left and weak fairness is enough.
Fairness ==
    /\ \A s \in Callers : WF_vars(Finish(s))
    /\ \A r \in Receivers : WF_vars(Receive(r))

Spec == Init /\ [][Next]_vars /\ Fairness

-----------------------------------------------------------------------------
Stored == {s \in Callers : outcome[s] = "stored"}

\* An answer that was accepted is neither lost nor delivered twice: it is in
\* the slot, or exactly one receiver has it (fill, send, abandon, recv).
AcceptedIsDeliveredOnce ==
    \A s \in Stored :
        LET owners == {r \in Receivers : result[r] = s} IN
        IF value = s THEN owners = {} ELSE \E r \in Receivers : owners = {r}

\* "A caller waiting on an answer that will never come observes None rather
\* than parking forever": once the handoff is decided every receiver returns.
DecidedIsObserved == final ~> \A r \in Receivers : rpc[r] = "done"
=============================================================================
