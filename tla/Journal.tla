------------------------------ MODULE Journal ------------------------------
(***************************************************************************)
(* `DiagnosticJournal` (journal.rs): a bounded ring of numbered records    *)
(* and the readers following it with `next_after`.  `publish` changes the  *)
(* ring under the mutex and broadcasts after releasing it; a reader        *)
(* enables its waiter, reads under the mutex, and parks.                   *)
(*                                                                         *)
(* A record is its sequence number.  `start`, `received` and `missed` are  *)
(* history variables: the account of what each reader was given.           *)
(***************************************************************************)
EXTENDS Integers, Sequences, Notify

CONSTANTS
    Publishers,   \* threads that publish
    Readers,      \* connections following the journal
    Capacity,     \* records the ring retains
    MaxSequence   \* bound: records published

ASSUME CapacityAssumption == Capacity \in Nat \ {0}
ASSUME MaxSequenceAssumption == MaxSequence \in Nat

VARIABLES
    sequence,     \* the number of the newest record
    records,      \* the ring, oldest first
    ppc,          \* where each publisher is
    waiters,      \* Notify registrations of the readers
    rpc,          \* where each reader is
    seen,         \* seen[r]: what reader r passes to next_after
    start,        \* start[r]: where its subscription began
    received,     \* received[r]: records handed to it since
    missed        \* missed[r]: records reported to it as overflow since

vars == <<sequence, records, ppc, waiters, rpc, seen, start, received, missed>>

journal == <<sequence, records, ppc>>
account == <<seen, start, received, missed>>

Init ==
    /\ sequence = 0
    /\ records = <<>>
    /\ ppc = [p \in Publishers |-> "idle"]
    /\ waiters = [r \in Readers |-> "absent"]
    /\ rpc = [r \in Readers |-> "idle"]
    /\ seen = [r \in Readers |-> 0]
    /\ start = [r \in Readers |-> 0]
    /\ received = [r \in Readers |-> {}]
    /\ missed = [r \in Readers |-> {}]

-----------------------------------------------------------------------------
\* The ring.

\* Mutation: the newest record is dropped at capacity, not the oldest.
PushDroppingNewest(ring, record) ==
    IF Len(ring) = Capacity
    THEN Append(SubSeq(ring, 1, Len(ring) - 1), record)
    ELSE Append(ring, record)

Push(ring, record) ==
    IF Len(ring) = Capacity THEN Append(Tail(ring), record)
                            ELSE Append(ring, record)

Nothing == [kind |-> "nothing", first |-> 0, last |-> 0]
Event(record) == [kind |-> "event", first |-> record, last |-> record]
Overflow(first, last) == [kind |-> "overflow", first |-> first, last |-> last]

FirstAfter(ring, position) ==
    ring[CHOOSE i \in DOMAIN ring :
            /\ ring[i] > position
            /\ \A j \in DOMAIN ring : ring[j] > position => i <= j]

\* Mutation: the overflow claims the oldest retained record too.
ReadAfterClaimingFirst(ring, position) ==
    IF ring = <<>> THEN Nothing
    ELSE IF position < Head(ring) - 1
         THEN Overflow(position + 1, Head(ring))
    ELSE IF \E i \in DOMAIN ring : ring[i] > position
         THEN Event(FirstAfter(ring, position))
    ELSE Nothing

\* Mutation: a reader that fell behind resumes at the oldest record silently.
ReadAfterSkipping(ring, position) ==
    IF \E i \in DOMAIN ring : ring[i] > position
    THEN Event(FirstAfter(ring, position))
    ELSE Nothing

\* A gap before the oldest record is reported before anything is handed out.
ReadAfter(ring, position) ==
    IF ring = <<>> THEN Nothing
    ELSE IF position < Head(ring) - 1
         THEN Overflow(position + 1, Head(ring) - 1)
    ELSE IF \E i \in DOMAIN ring : ring[i] > position
         THEN Event(FirstAfter(ring, position))
    ELSE Nothing

-----------------------------------------------------------------------------
\* Publishers.

Publish(p) ==
    /\ ppc[p] = "idle" /\ sequence < MaxSequence
    /\ sequence' = sequence + 1
    /\ records' = Push(records, sequence + 1)
    /\ ppc' = [ppc EXCEPT ![p] = "wake"]
    /\ UNCHANGED <<waiters, rpc, account>>

Wake(p) ==
    /\ ppc[p] = "wake"
    /\ waiters' = NotifyWaiters(waiters)
    /\ ppc' = [ppc EXCEPT ![p] = "idle"]
    /\ UNCHANGED <<sequence, records, rpc, account>>

-----------------------------------------------------------------------------
\* Readers.

\* A connection subscribes at the position it names or at the baseline, none
\* of which exceeds the current sequence (server.rs refuses a larger one).
\* The next_after in flight is dropped by the `select` that took the request.
Subscribe(r, from) ==
    /\ from \in 0..sequence
    /\ seen' = [seen EXCEPT ![r] = from]
    /\ start' = [start EXCEPT ![r] = from]
    /\ received' = [received EXCEPT ![r] = {}]
    /\ missed' = [missed EXCEPT ![r] = {}]
    /\ waiters' = Discard(waiters, r)
    /\ rpc' = [rpc EXCEPT ![r] = "enable"]
    /\ UNCHANGED journal

\* Mutation: the waiter is enabled by its await, after the ring was read.
EnableNothing(r) ==
    /\ rpc[r] = "enable"
    /\ rpc' = [rpc EXCEPT ![r] = "read"]
    /\ UNCHANGED <<journal, waiters, account>>

EnableReader(r) ==
    /\ rpc[r] = "enable"
    /\ waiters' = Enable(waiters, r)
    /\ rpc' = [rpc EXCEPT ![r] = "read"]
    /\ UNCHANGED <<journal, account>>

ReadNothing(r) ==
    /\ rpc[r] = "read"
    /\ ReadAfter(records, seen[r]) = Nothing
    /\ rpc' = [rpc EXCEPT ![r] = "park"]
    /\ UNCHANGED <<journal, waiters, account>>

\* The connection takes the item and moves `seen` to its sequence.
ReadItem(r) ==
    LET item == ReadAfter(records, seen[r])
        covered == item.first .. item.last IN
    /\ rpc[r] = "read"
    /\ item # Nothing
    /\ seen' = [seen EXCEPT ![r] = item.last]
    /\ received' = [received EXCEPT ![r] =
                       IF item.kind = "event" THEN @ \union covered ELSE @]
    /\ missed' = [missed EXCEPT ![r] =
                     IF item.kind = "overflow" THEN @ \union covered ELSE @]
    /\ waiters' = Discard(waiters, r)
    /\ rpc' = [rpc EXCEPT ![r] = "enable"]
    /\ UNCHANGED <<journal, start>>

Unpark(r) ==
    /\ rpc[r] = "park" /\ Awake(waiters, r)
    /\ waiters' = Discard(waiters, r)
    /\ rpc' = [rpc EXCEPT ![r] = "enable"]
    /\ UNCHANGED <<journal, account>>

-----------------------------------------------------------------------------
Follow(r) == EnableReader(r) \/ ReadNothing(r) \/ ReadItem(r) \/ Unpark(r)

Next ==
    \/ \E p \in Publishers : Publish(p) \/ Wake(p)
    \/ \E r \in Readers :
        \/ \E from \in 0..sequence : Subscribe(r, from)
        \/ Follow(r)

\* `publish` finishes what it started and a polled reader goes on; nobody
\* has to publish or to subscribe.
Fairness ==
    /\ \A p \in Publishers : WF_vars(Wake(p))
    /\ \A r \in Readers : WF_vars(Follow(r))

Spec == Init /\ [][Next]_vars /\ Fairness

-----------------------------------------------------------------------------
Places == {"idle", "enable", "read", "park"}

\* Every variable keeps its type, and the ring never exceeds its capacity.
TypeOK ==
    /\ sequence \in Nat
    /\ records \in Seq(Nat) /\ Len(records) <= Capacity
    /\ ppc \in [Publishers -> {"idle", "wake"}]
    /\ waiters \in [Readers -> Registration]
    /\ rpc \in [Readers -> Places]
    /\ seen \in [Readers -> Nat]
    /\ start \in [Readers -> Nat]
    /\ received \in [Readers -> SUBSET Nat]
    /\ missed \in [Readers -> SUBSET Nat]

\* The records of the ring follow one another and end at `sequence`.
RingIsConsecutive ==
    \A i \in 1..Len(records) : records[i] = sequence - Len(records) + i

\* The ring is the newest records, consecutive and no more than its capacity,
\* ending at `sequence`: what the subtraction `first - 1` and the search in
\* read_after rely on.
RingIsNewest == TypeOK /\ RingIsConsecutive

\* Each reader's account covers exactly the records from its start to its
\* position, once each: nothing skipped, nothing both handed over and lost.
EveryRecordAccountedOnce ==
    \A r \in Readers :
        /\ received[r] \union missed[r] = (start[r] + 1) .. seen[r]
        /\ received[r] \intersect missed[r] = {}

\* A reader is told it lost a record only if the ring no longer holds it, so
\* resubscribing could not have recovered it.
LossesAreEvicted ==
    \A r \in Readers : \A n \in missed[r] : n <= sequence - Len(records)

\* The journal implements the stream in which every record is accounted for.
Accounted == INSTANCE AccountedStream
                WITH published <- sequence, position <- seen
ImplementsAccounted == Accounted!Spec

\* A reader that does not resubscribe for ever reaches the newest record
\* again and again: the broadcast that follows the ring's change is never
\* lost between a reader's enable, its read and its await (next_after).
CatchesUp ==
    \A r \in Readers :
        \/ []<>(rpc[r] = "idle" \/ seen[r] = sequence)
        \/ []<><<\E from \in 0..MaxSequence : Subscribe(r, from)>>_vars
=============================================================================
