------------------------------- MODULE Latest -------------------------------
(***************************************************************************)
(* `Latest<T>` (latest.rs): one retained value, a revision counter and a   *)
(* wake.  The slot, the counter and the wake are three separate steps of a *)
(* writer, and a reader looks at the counter before it takes the slot's    *)
(* read lock, so every interleaving of those steps is a state here.        *)
(*                                                                         *)
(* A value is the number of the attempt that published it; `nth` is a      *)
(* history variable, the number of stores the slot has seen.               *)
(***************************************************************************)
EXTENDS Naturals, Notify

CONSTANTS
    Setters,      \* tasks that call the async `set`
    Painters,     \* window-event handlers that call `set_now`
    Readers,      \* callers looping on `changed_since`
    MaxOffers     \* bound: attempts to publish

VARIABLES
    slot,         \* the value, and how many stores led to it
    revision,     \* the atomic counter
    holder,       \* the writer holding the slot's write lock
    offered,      \* attempts made so far
    pending,      \* pending[w]: the value writer w is publishing
    wpc,          \* where each writer is
    waiters,      \* Notify registrations of the readers
    seen,         \* seen[r]: the revision reader r passes to changed_since
    now,          \* now[r]: the revision read inside changed_since
    last,         \* last[r]: what changed_since last returned to r
    rpc           \* where each reader is

vars == <<slot, revision, holder, offered, pending, wpc,
          waiters, seen, now, last, rpc>>

Writers == Setters \union Painters
NoWriter == "none"
Empty == [value |-> 0, nth |-> 0]

Init ==
    /\ slot = Empty
    /\ revision = 0
    /\ holder = NoWriter
    /\ offered = 0
    /\ pending = [w \in Writers |-> 0]
    /\ wpc = [w \in Writers |-> "idle"]
    /\ waiters = [r \in Readers |-> "absent"]
    /\ seen = [r \in Readers |-> 0]
    /\ now = [r \in Readers |-> 0]
    /\ last = [r \in Readers |-> Empty]
    /\ rpc = [r \in Readers |-> "enable"]

reader == <<waiters, seen, now, last, rpc>>

\* Readers that hold the slot's read lock while they clone it.
Cloning == {r \in Readers : rpc[r] = "clone"}

WriteLockFree == holder = NoWriter /\ Cloning = {}

-----------------------------------------------------------------------------
\* Writers.

\* An async `set` starts; it will wait for the lock as long as it takes.
BeginSet(w) ==
    /\ wpc[w] = "idle" /\ offered < MaxOffers
    /\ offered' = offered + 1
    /\ pending' = [pending EXCEPT ![w] = offered + 1]
    /\ wpc' = [wpc EXCEPT ![w] = "acquire"]
    /\ UNCHANGED <<slot, revision, holder, reader>>

AcquireWrite(w) ==
    /\ wpc[w] = "acquire" /\ WriteLockFree
    /\ holder' = w
    /\ wpc' = [wpc EXCEPT ![w] = "store"]
    /\ UNCHANGED <<slot, revision, offered, pending, reader>>

\* `set_now` with the lock free: `try_write` succeeds.
TrySetNow(p) ==
    /\ wpc[p] = "idle" /\ offered < MaxOffers
    /\ WriteLockFree
    /\ offered' = offered + 1
    /\ pending' = [pending EXCEPT ![p] = offered + 1]
    /\ holder' = p
    /\ wpc' = [wpc EXCEPT ![p] = "store"]
    /\ UNCHANGED <<slot, revision, reader>>

\* `set_now` against a held lock: it returns false and the value is gone.
RefuseSetNow(p) ==
    /\ wpc[p] = "idle" /\ offered < MaxOffers
    /\ ~WriteLockFree
    /\ offered' = offered + 1
    /\ UNCHANGED <<slot, revision, holder, pending, wpc, reader>>

\* Mutation: the slot is written only when empty, as `Once::send` does.
StoreIfEmpty(w) ==
    /\ wpc[w] = "store"
    /\ slot' = IF slot = Empty THEN [value |-> pending[w], nth |-> 1] ELSE slot
    /\ holder' = NoWriter
    /\ wpc' = [wpc EXCEPT ![w] = "bump"]
    /\ UNCHANGED <<revision, offered, pending, reader>>

\* The assignment through the guard, and the guard's drop.
Store(w) ==
    /\ wpc[w] = "store"
    /\ slot' = [value |-> pending[w], nth |-> slot.nth + 1]
    /\ holder' = NoWriter
    /\ wpc' = [wpc EXCEPT ![w] = "bump"]
    /\ UNCHANGED <<revision, offered, pending, reader>>

Bump(w) ==
    /\ wpc[w] = "bump"
    /\ revision' = revision + 1
    /\ wpc' = [wpc EXCEPT ![w] = "wake"]
    /\ UNCHANGED <<slot, holder, offered, pending, reader>>

Wake(w) ==
    /\ wpc[w] = "wake"
    /\ waiters' = NotifyWaiters(waiters)
    /\ wpc' = [wpc EXCEPT ![w] = "idle"]
    /\ UNCHANGED <<slot, revision, holder, offered, pending,
                   seen, now, last, rpc>>

-----------------------------------------------------------------------------
\* Readers, one `changed_since` after another.

writer == <<slot, revision, holder, offered, pending, wpc>>

\* Mutation: the waiter is not enabled before the revision is read; a reader
\* that found nothing then parks with no registration for the wake to find.
EnableNothing(r) ==
    /\ rpc[r] = "enable"
    /\ rpc' = [rpc EXCEPT ![r] = "check"]
    /\ UNCHANGED <<writer, waiters, seen, now, last>>

EnableReader(r) ==
    /\ rpc[r] = "enable"
    /\ waiters' = Enable(waiters, r)
    /\ rpc' = [rpc EXCEPT ![r] = "check"]
    /\ UNCHANGED <<writer, seen, now, last>>

CheckRevision(r) ==
    /\ rpc[r] = "check"
    /\ now' = [now EXCEPT ![r] = revision]
    /\ rpc' = [rpc EXCEPT ![r] =
                  IF revision # seen[r] THEN "lock" ELSE "park"]
    /\ UNCHANGED <<writer, waiters, seen, last>>

\* `get` takes the read lock, which a writer inside the slot excludes.
LockSlot(r) ==
    /\ rpc[r] = "lock" /\ holder = NoWriter
    /\ rpc' = [rpc EXCEPT ![r] = "clone"]
    /\ UNCHANGED <<writer, waiters, seen, now, last>>

\* The clone is returned with the revision read earlier, never re-read.
Deliver(r) ==
    /\ rpc[r] = "clone"
    /\ last' = [last EXCEPT ![r] = slot]
    /\ seen' = [seen EXCEPT ![r] = now[r]]
    /\ waiters' = Discard(waiters, r)
    /\ rpc' = [rpc EXCEPT ![r] = "enable"]
    /\ UNCHANGED <<writer, now>>

Unpark(r) ==
    /\ rpc[r] = "park" /\ Awake(waiters, r)
    /\ waiters' = Discard(waiters, r)
    /\ rpc' = [rpc EXCEPT ![r] = "enable"]
    /\ UNCHANGED <<writer, seen, now, last>>

-----------------------------------------------------------------------------
Publish(w) == Store(w) \/ Bump(w) \/ Wake(w)

Read(r) ==
    \/ EnableReader(r) \/ CheckRevision(r) \/ LockSlot(r)
    \/ Deliver(r) \/ Unpark(r)

Next ==
    \/ \E w \in Setters : BeginSet(w) \/ AcquireWrite(w)
    \/ \E p \in Painters : TrySetNow(p) \/ RefuseSetNow(p)
    \/ \E w \in Writers : Publish(w)
    \/ \E r \in Readers : Read(r)

\* A started writer and a polled reader keep going; nobody has to publish.
Fairness ==
    /\ \A w \in Setters : WF_vars(AcquireWrite(w))
    /\ \A w \in Writers : WF_vars(Publish(w))
    /\ \A r \in Readers : WF_vars(Read(r))

Spec == Init /\ [][Next]_vars /\ Fairness

-----------------------------------------------------------------------------
\* "The store happens before the wake": a reader is never handed a value
\* older than the revision it is told it has now seen, so acknowledging that
\* revision cannot skip a value it was not given (set, changed_since).
NeverOlderThanSeen == \A r \in Readers : last[r].nth >= seen[r]

\* Once writers fall silent every reader ends up with the slot's value, even
\* one that skipped revisions or received the newest value twice.
CatchesUp == <>[](\A r \in Readers : last[r] = slot)
=============================================================================
