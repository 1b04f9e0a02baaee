---------------------------- MODULE JournalProofs ----------------------------
(***************************************************************************)
(* Proofs about the diagnostic journal, for every capacity and any sets of *)
(* publishers and readers: the ring is the newest records, each reader's   *)
(* account is exact, losses are only of evicted records, and the journal   *)
(* implements AccountedStream.                                             *)
(***************************************************************************)
EXTENDS Journal, TLAPS

USE CapacityAssumption, MaxSequenceAssumption

\* The ring never holds more records than were published, and no reader is
\* ahead of the journal or behind its own start.
Bounds ==
    /\ Len(records) <= sequence
    /\ \A r \in Readers : start[r] <= seen[r] /\ seen[r] <= sequence

\* The inductive invariant.  The account alone is not inductive: that an
\* overflow and the next event continue where `seen` stopped depends on the
\* ring being consecutive, and that on where it ends.
Inv ==
    /\ TypeOK
    /\ RingIsConsecutive
    /\ Bounds
    /\ EveryRecordAccountedOnce
    /\ LossesAreEvicted

Consecutive(ring, n) ==
    /\ ring \in Seq(Nat) /\ Len(ring) <= n
    /\ \A i \in 1..Len(ring) : ring[i] = n - Len(ring) + i

-----------------------------------------------------------------------------
\* `publish` keeps the ring consecutive, one record further on, and within
\* its capacity, and it evicts at most the oldest record.
LEMMA PushConsecutive ==
    ASSUME NEW n \in Nat, NEW ring, Consecutive(ring, n), Len(ring) <= Capacity
    PROVE  /\ Consecutive(Push(ring, n + 1), n + 1)
           /\ Len(Push(ring, n + 1)) <= Capacity
           /\ n - Len(ring) <= (n + 1) - Len(Push(ring, n + 1))
<1>1. /\ ring \in Seq(Nat) /\ Len(ring) \in Nat /\ Len(ring) <= n
      /\ \A i \in 1..Len(ring) : ring[i] = n - Len(ring) + i
    BY DEF Consecutive
<1>2. CASE Len(ring) = Capacity
    <2> DEFINE tail == Tail(ring)
               pushed == Append(tail, n + 1)
    <2>1. Push(ring, n + 1) = pushed
        BY <1>2 DEF Push
    <2>2. /\ tail \in Seq(Nat) /\ Len(tail) = Len(ring) - 1
          /\ \A i \in 1..Len(tail) : tail[i] = ring[i + 1]
        BY <1>1, <1>2
    <2> HIDE DEF tail
    <2>3. /\ pushed \in Seq(Nat) /\ Len(pushed) = Len(ring)
          /\ \A i \in 1..Len(tail) : pushed[i] = tail[i]
          /\ pushed[Len(ring)] = n + 1
        BY <2>2, <1>1
    <2> HIDE DEF pushed
    <2>4. ASSUME NEW i \in 1..Len(pushed)
          PROVE  pushed[i] = (n + 1) - Len(pushed) + i
        <3>1. CASE i \in 1..Len(tail)
            <4>1. pushed[i] = tail[i] /\ tail[i] = ring[i + 1]
                BY <2>2, <2>3, <3>1
            <4>2. i + 1 \in 1..Len(ring) /\ Len(pushed) = Len(ring)
                BY <1>1, <2>2, <2>3, <3>1
            <4>3. ring[i + 1] = n - Len(ring) + (i + 1)
                BY <1>1, <4>2
            <4> QED BY <1>1, <4>1, <4>2, <4>3
        <3>2. CASE i = Len(ring)
            BY <1>1, <2>3, <3>2
        <3> QED BY <1>1, <2>2, <2>3, <3>1, <3>2
    <2>5. Consecutive(pushed, n + 1)
        BY <1>1, <2>3, <2>4 DEF Consecutive
    <2> QED BY <1>1, <1>2, <2>1, <2>3, <2>5
<1>3. CASE Len(ring) # Capacity
    <2> DEFINE pushed == Append(ring, n + 1)
    <2>1. Push(ring, n + 1) = pushed
        BY <1>3 DEF Push
    <2>2. /\ pushed \in Seq(Nat) /\ Len(pushed) = Len(ring) + 1
          /\ \A i \in 1..Len(ring) : pushed[i] = ring[i]
          /\ pushed[Len(ring) + 1] = n + 1
        BY <1>1
    <2> HIDE DEF pushed
    <2>3. ASSUME NEW i \in 1..Len(pushed)
          PROVE  pushed[i] = (n + 1) - Len(pushed) + i
        <3>1. CASE i \in 1..Len(ring)
            BY <1>1, <2>2, <3>1
        <3>2. CASE i = Len(ring) + 1
            BY <1>1, <2>2, <3>2
        <3> QED BY <1>1, <2>2, <3>1, <3>2
    <2>4. Consecutive(pushed, n + 1)
        BY <1>1, <2>2, <2>3 DEF Consecutive
    <2>5. Len(pushed) <= Capacity
        BY <1>1, <1>3, <2>2
    <2> QED BY <1>1, <2>1, <2>2, <2>4, <2>5
<1> QED BY <1>2, <1>3

\* In a consecutive ring the first record after a position that is not
\* before the ring is the next number.
LEMMA FirstAfterIsNext ==
    ASSUME NEW n \in Nat, NEW ring, Consecutive(ring, n),
           NEW position \in 0..n,
           ring # <<>>, position >= n - Len(ring), position < n
    PROVE  FirstAfter(ring, position) = position + 1
<1> DEFINE next == position + 1 - (n - Len(ring))
           Wanted(i) == /\ ring[i] > position
                        /\ \A j \in DOMAIN ring : ring[j] > position => i <= j
<1>1. /\ ring \in Seq(Nat) /\ Len(ring) \in Nat /\ Len(ring) <= n
      /\ DOMAIN ring = 1..Len(ring)
      /\ \A i \in 1..Len(ring) : ring[i] = n - Len(ring) + i
    BY DEF Consecutive
<1>2. next \in DOMAIN ring /\ ring[next] = position + 1
    BY <1>1
<1>3. Wanted(next)
    BY <1>1, <1>2
<1>4. \A i \in DOMAIN ring : Wanted(i) => i = next
    BY <1>1, <1>2
<1>5. (CHOOSE i \in DOMAIN ring : Wanted(i)) = next
    BY <1>2, <1>3, <1>4
<1> QED BY <1>2, <1>5 DEF FirstAfter

\* What `read_after` returns continues exactly where the reader stopped; an
\* event is the next record, an overflow ends before the oldest retained one.
LEMMA ReadAfterContinues ==
    ASSUME NEW n \in Nat, NEW ring, Consecutive(ring, n),
           NEW position \in 0..n,
           ReadAfter(ring, position) # Nothing
    PROVE  LET item == ReadAfter(ring, position) IN
           /\ item.first = position + 1
           /\ item.last \in item.first .. n
           /\ \/ item.kind = "event" /\ item.last = item.first
              \/ item.kind = "overflow" /\ item.last <= n - Len(ring)
<1>1. /\ ring \in Seq(Nat) /\ Len(ring) \in Nat /\ Len(ring) <= n
      /\ DOMAIN ring = 1..Len(ring)
      /\ \A i \in 1..Len(ring) : ring[i] = n - Len(ring) + i
    BY DEF Consecutive
<1>2. ring # <<>>
    BY DEF ReadAfter
<1>3. Len(ring) >= 1 /\ Head(ring) = n - Len(ring) + 1
    BY <1>1, <1>2
<1>4. CASE position < Head(ring) - 1
    <2>1. ReadAfter(ring, position) = Overflow(position + 1, Head(ring) - 1)
        BY <1>2, <1>4 DEF ReadAfter
    <2> QED BY <1>1, <1>3, <1>4, <2>1 DEF Overflow
<1>5. CASE ~(position < Head(ring) - 1)
    <2>1. \E i \in DOMAIN ring : ring[i] > position
        BY <1>2, <1>5 DEF ReadAfter
    <2>2. position < n /\ position >= n - Len(ring)
        BY <1>1, <1>3, <1>5, <2>1
    <2>3. FirstAfter(ring, position) = position + 1
        BY <1>2, <2>2, FirstAfterIsNext
    <2>4. ReadAfter(ring, position) = Event(position + 1)
        BY <1>2, <1>5, <2>1, <2>3 DEF ReadAfter
    <2> QED BY <2>2, <2>4 DEF Event
<1> QED BY <1>4, <1>5

-----------------------------------------------------------------------------
LEMMA InitInv == Init => Inv
<1> SUFFICES ASSUME Init PROVE Inv
    OBVIOUS
<1>1. Len(records) = 0
    BY DEF Init
<1>2. TypeOK
    BY <1>1 DEF Init, TypeOK, Registration, Places
<1>3. RingIsConsecutive /\ Bounds /\ LossesAreEvicted
    BY <1>1 DEF Init, RingIsConsecutive, Bounds, LossesAreEvicted
<1>4. EveryRecordAccountedOnce
    BY DEF Init, EveryRecordAccountedOnce
<1> QED BY <1>2, <1>3, <1>4 DEF Inv

LEMMA InvConsecutive == Inv => Consecutive(records, sequence)
BY DEF Inv, TypeOK, RingIsConsecutive, Bounds, Consecutive

LEMMA PublishInv ==
    ASSUME Inv, NEW p \in Publishers, Publish(p)
    PROVE  Inv'
<1>1. /\ sequence \in Nat /\ sequence' = sequence + 1
      /\ records' = Push(records, sequence + 1)
    BY DEF Inv, TypeOK, Publish
<1>2. /\ Consecutive(records', sequence')
      /\ Len(records') <= Capacity
      /\ sequence - Len(records) <= sequence' - Len(records')
    BY <1>1, InvConsecutive, PushConsecutive DEF Inv, TypeOK
<1>3. Len(records) \in Nat /\ Len(records') \in Nat
    BY <1>2 DEF Inv, TypeOK, Consecutive
<1>4. TypeOK'
    BY <1>1, <1>2 DEF Inv, TypeOK, Publish, account, Consecutive
<1>5. RingIsConsecutive'
    BY <1>2 DEF RingIsConsecutive, Consecutive
<1>6. Bounds'
    BY <1>1, <1>2 DEF Inv, TypeOK, Bounds, Publish, account, Consecutive
<1>7. EveryRecordAccountedOnce'
    BY DEF Inv, EveryRecordAccountedOnce, Publish, account
<1>8. LossesAreEvicted'
    BY <1>1, <1>2, <1>3 DEF Inv, TypeOK, LossesAreEvicted, Publish, account
<1> QED BY <1>4, <1>5, <1>6, <1>7, <1>8 DEF Inv

LEMMA SubscribeInv ==
    ASSUME Inv, NEW r \in Readers, NEW from \in 0..sequence, Subscribe(r, from)
    PROVE  Inv'
<1>1. TypeOK'
    BY DEF Inv, TypeOK, Subscribe, journal, Discard, Registration, Places
<1>2. RingIsConsecutive' /\ Bounds'
    BY DEF Inv, TypeOK, RingIsConsecutive, Bounds, Subscribe, journal
<1>3. EveryRecordAccountedOnce'
    BY DEF Inv, TypeOK, EveryRecordAccountedOnce, Subscribe
<1>4. LossesAreEvicted'
    BY DEF Inv, TypeOK, LossesAreEvicted, Subscribe, journal
<1> QED BY <1>1, <1>2, <1>3, <1>4 DEF Inv

LEMMA ReadItemInv ==
    ASSUME Inv, NEW r \in Readers, ReadItem(r)
    PROVE  Inv'
<1> DEFINE item == ReadAfter(records, seen[r])
           covered == item.first .. item.last
<1>1. /\ sequence \in Nat /\ Len(records) \in Nat
      /\ seen[r] \in 0..sequence /\ start[r] \in Nat /\ start[r] <= seen[r]
    BY DEF Inv, TypeOK, Bounds
<1>2. /\ item.first = seen[r] + 1
      /\ item.last \in item.first .. sequence
      /\ \/ item.kind = "event" /\ item.last = item.first
         \/ item.kind = "overflow" /\ item.last <= sequence - Len(records)
    BY <1>1, InvConsecutive, ReadAfterContinues DEF ReadItem
<1>3. /\ seen' = [seen EXCEPT ![r] = item.last]
      /\ received' = [received EXCEPT ![r] =
                         IF item.kind = "event" THEN @ \union covered ELSE @]
      /\ missed' = [missed EXCEPT ![r] =
                       IF item.kind = "overflow" THEN @ \union covered ELSE @]
      /\ UNCHANGED <<sequence, records, ppc, start>>
    BY DEF ReadItem, journal
<1> HIDE DEF item
<1>4. TypeOK'
    <2>1. covered \in SUBSET Nat /\ item.last \in Nat
        BY <1>1, <1>2
    <2>2. seen' \in [Readers -> Nat]
        BY <1>3, <2>1 DEF Inv, TypeOK
    <2>3. /\ received' \in [Readers -> SUBSET Nat]
          /\ missed' \in [Readers -> SUBSET Nat]
        BY <1>3, <2>1 DEF Inv, TypeOK
    <2>4. waiters' \in [Readers -> Registration] /\ rpc' \in [Readers -> Places]
        BY DEF Inv, TypeOK, ReadItem, Discard, Registration, Places
    <2> QED BY <1>3, <2>2, <2>3, <2>4 DEF Inv, TypeOK
<1>5. RingIsConsecutive' /\ Bounds'
    BY <1>1, <1>2, <1>3 DEF Inv, TypeOK, RingIsConsecutive, Bounds
<1>6. EveryRecordAccountedOnce'
    <2> SUFFICES ASSUME NEW q \in Readers
                 PROVE  /\ received'[q] \union missed'[q]
                              = (start'[q] + 1) .. seen'[q]
                        /\ received'[q] \intersect missed'[q] = {}
        BY DEF EveryRecordAccountedOnce
    <2>1. CASE q # r
        BY <1>3, <2>1 DEF Inv, TypeOK, EveryRecordAccountedOnce
    <2>2. CASE q = r
        <3>1. /\ received[r] \union missed[r] = (start[r] + 1) .. seen[r]
              /\ received[r] \intersect missed[r] = {}
            BY DEF Inv, EveryRecordAccountedOnce
        <3>2. /\ covered \intersect ((start[r] + 1) .. seen[r]) = {}
              /\ ((start[r] + 1) .. seen[r]) \union covered
                    = (start[r] + 1) .. item.last
            BY <1>1, <1>2
        <3>3. seen'[r] = item.last /\ start'[r] = start[r]
            BY <1>3 DEF Inv, TypeOK
        <3>4. \/ received'[r] = received[r] \union covered /\ missed'[r] = missed[r]
              \/ missed'[r] = missed[r] \union covered /\ received'[r] = received[r]
            BY <1>2, <1>3 DEF Inv, TypeOK
        <3> HIDE DEF covered
        <3> QED BY <2>2, <3>1, <3>2, <3>3, <3>4
    <2> QED BY <2>1, <2>2
<1>7. LossesAreEvicted'
    <2> SUFFICES ASSUME NEW q \in Readers, NEW n \in missed'[q]
                 PROVE  n <= sequence' - Len(records')
        BY DEF LossesAreEvicted
    <2>1. CASE n \in missed[q]
        BY <1>3, <2>1 DEF Inv, LossesAreEvicted
    <2>2. CASE n \notin missed[q]
        <3>1. q = r /\ item.kind = "overflow" /\ n \in covered
            BY <1>3, <2>2 DEF Inv, TypeOK
        <3> QED BY <1>1, <1>2, <1>3, <3>1
    <2> QED BY <2>1, <2>2
<1> QED BY <1>4, <1>5, <1>6, <1>7 DEF Inv

\* Steps that move only registrations and program counters.
LEMMA QuietInv ==
    ASSUME Inv, TypeOK', UNCHANGED <<sequence, records, account>>
    PROVE  Inv'
BY DEF Inv, RingIsConsecutive, Bounds, EveryRecordAccountedOnce,
       LossesAreEvicted, account

LEMMA NextInv == Inv /\ [Next]_vars => Inv'
<1> SUFFICES ASSUME Inv, [Next]_vars PROVE Inv'
    OBVIOUS
<1>1. ASSUME NEW p \in Publishers, Publish(p) PROVE Inv'
    BY <1>1, PublishInv
<1>2. ASSUME NEW p \in Publishers, Wake(p) PROVE Inv'
    <2>1. TypeOK'
        BY <1>2 DEF Inv, TypeOK, Wake, account, NotifyWaiters, Registration
    <2> QED BY <1>2, <2>1, QuietInv DEF Wake
<1>3. ASSUME NEW r \in Readers, NEW from \in 0..sequence, Subscribe(r, from)
      PROVE  Inv'
    BY <1>3, SubscribeInv
<1>4. ASSUME NEW r \in Readers, EnableReader(r) PROVE Inv'
    <2>1. TypeOK'
        BY <1>4 DEF Inv, TypeOK, EnableReader, journal, account, Enable,
                    Registration, Places
    <2> QED BY <1>4, <2>1, QuietInv DEF EnableReader, journal
<1>5. ASSUME NEW r \in Readers, ReadNothing(r) PROVE Inv'
    <2>1. TypeOK'
        BY <1>5 DEF Inv, TypeOK, ReadNothing, journal, account, Places
    <2> QED BY <1>5, <2>1, QuietInv DEF ReadNothing, journal
<1>6. ASSUME NEW r \in Readers, ReadItem(r) PROVE Inv'
    BY <1>6, ReadItemInv
<1>7. ASSUME NEW r \in Readers, Unpark(r) PROVE Inv'
    <2>1. TypeOK'
        BY <1>7 DEF Inv, TypeOK, Unpark, journal, account, Discard,
                    Registration, Places
    <2> QED BY <1>7, <2>1, QuietInv DEF Unpark, journal
<1>8. CASE UNCHANGED vars
    <2>1. TypeOK'
        BY <1>8 DEF Inv, TypeOK, vars
    <2> QED BY <1>8, <2>1, QuietInv DEF vars, account
<1> QED BY <1>1, <1>2, <1>3, <1>4, <1>5, <1>6, <1>7, <1>8 DEF Next, Follow

THEOREM JournalInvariant == Spec => []Inv
BY InitInv, NextInv, PTL DEF Spec

-----------------------------------------------------------------------------
\* The ring holds the newest consecutive records, never more than its
\* capacity (publish, read_after).
THEOREM RingCorrect == Spec => []RingIsNewest
<1>1. Inv => RingIsNewest
    BY DEF Inv, RingIsNewest
<1> QED BY <1>1, JournalInvariant, PTL

\* Nothing is skipped and nothing is both handed over and lost (next_after).
THEOREM AccountExact == Spec => []EveryRecordAccountedOnce
<1>1. Inv => EveryRecordAccountedOnce
    BY DEF Inv
<1> QED BY <1>1, JournalInvariant, PTL

\* Only records the ring has evicted are reported as lost (read_after).
THEOREM LossesJustified == Spec => []LossesAreEvicted
<1>1. Inv => LossesAreEvicted
    BY DEF Inv
<1> QED BY <1>1, JournalInvariant, PTL

-----------------------------------------------------------------------------
LEMMA InitImplements == Init => Accounted!Init
BY DEF Init, Accounted!Init

LEMMA StepImplements == Inv /\ [Next]_vars => [Accounted!Next]_Accounted!vars
<1> SUFFICES ASSUME Inv, [Next]_vars PROVE [Accounted!Next]_Accounted!vars
    OBVIOUS
<1> USE DEF Accounted!Next, Accounted!vars
<1>1. ASSUME NEW p \in Publishers, Publish(p) PROVE Accounted!Publish
    BY <1>1 DEF Publish, account, Accounted!Publish
<1>2. ASSUME NEW p \in Publishers, Wake(p) PROVE UNCHANGED Accounted!vars
    BY <1>2 DEF Wake, account
<1>3. ASSUME NEW r \in Readers, NEW from \in 0..sequence, Subscribe(r, from)
      PROVE  Accounted!Subscribe(r, from)
    BY <1>3 DEF Subscribe, journal, Accounted!Subscribe
<1>4. ASSUME NEW r \in Readers, EnableReader(r) \/ ReadNothing(r) \/ Unpark(r)
      PROVE  UNCHANGED Accounted!vars
    BY <1>4 DEF EnableReader, ReadNothing, Unpark, journal, account
<1>5. ASSUME NEW r \in Readers, ReadItem(r)
      PROVE  \/ Accounted!HandOver(r)
             \/ \E last \in 0..sequence : Accounted!ReportLoss(r, last)
    <2> DEFINE item == ReadAfter(records, seen[r])
    <2>1. sequence \in Nat /\ Len(records) \in Nat /\ seen[r] \in 0..sequence
        BY DEF Inv, TypeOK, Bounds
    <2>2. /\ item.first = seen[r] + 1
          /\ item.last \in item.first .. sequence
          /\ \/ item.kind = "event" /\ item.last = item.first
             \/ item.kind = "overflow" /\ item.last <= sequence - Len(records)
        BY <1>5, <2>1, InvConsecutive, ReadAfterContinues DEF ReadItem
    <2>3. /\ seen' = [seen EXCEPT ![r] = item.last]
          /\ received' = [received EXCEPT ![r] =
                IF item.kind = "event" THEN @ \union (item.first .. item.last)
                                       ELSE @]
          /\ missed' = [missed EXCEPT ![r] =
                IF item.kind = "overflow" THEN @ \union (item.first .. item.last)
                                          ELSE @]
          /\ UNCHANGED <<sequence, start>>
        BY <1>5 DEF ReadItem, journal
    <2> HIDE DEF item
    <2>4. CASE item.kind = "event"
        <3>1. item.first .. item.last = {seen[r] + 1} /\ item.last = seen[r] + 1
            BY <2>1, <2>2, <2>4
        <3>2. missed' = missed
            BY <2>3, <2>4 DEF Inv, TypeOK
        <3> QED BY <2>1, <2>2, <2>3, <2>4, <3>1, <3>2 DEF Accounted!HandOver
    <2>5. CASE item.kind = "overflow"
        <3>1. received' = received
            BY <2>3, <2>5 DEF Inv, TypeOK
        <3>2. Accounted!ReportLoss(r, item.last)
            BY <2>1, <2>2, <2>3, <2>5, <3>1 DEF Accounted!ReportLoss
        <3> QED BY <2>1, <2>2, <3>2
    <2> QED BY <2>2, <2>4, <2>5
<1>6. CASE UNCHANGED vars
    BY <1>6 DEF vars
<1> QED BY <1>1, <1>2, <1>3, <1>4, <1>5, <1>6 DEF Next, Follow

\* The journal and its readers implement the stream in which every record is
\* accounted for once and in order (publish, next_after).
THEOREM Refinement == Spec => ImplementsAccounted
<1>1. Init => Accounted!Init
    BY InitImplements
<1>2. Inv /\ [Next]_vars => [Accounted!Next]_Accounted!vars
    BY StepImplements
<1> QED BY <1>1, <1>2, JournalInvariant, PTL
        DEF Spec, ImplementsAccounted, Accounted!Spec
=============================================================================
