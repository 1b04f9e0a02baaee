---------------------------- MODULE HandoffProofs ----------------------------
(***************************************************************************)
(* Proofs about the two handoffs of latest.rs, for any sets of tasks and   *)
(* any number of offers: a reader of the latest-value slot is never behind *)
(* the revision it acknowledged, and an accepted answer is delivered       *)
(* exactly once.                                                           *)
(***************************************************************************)
EXTENDS MCHandoffs, Naturals, FiniteSetTheorems, TLAPS

Stamped == [value : Nat, nth : Nat]

\* The writers that have stored but not yet counted.
Uncounted == {w \in Slot!Writers : wpc[w] = "bump"}

SlotTypeOK ==
    /\ slot \in Stamped
    /\ revision \in Nat
    /\ offered \in Nat
    /\ pending \in [Slot!Writers -> Nat]
    /\ wpc \in [Slot!Writers -> {"idle", "acquire", "store", "bump", "wake"}]
    /\ seen \in [Readers -> Nat]
    /\ now \in [Readers -> Nat]
    /\ last \in [Readers -> Stamped]
    /\ slotPc \in [Readers -> {"enable", "check", "lock", "clone", "park"}]

\* Every store is counted once, after it was made.
StoresAreCounted ==
    /\ IsFiniteSet(Uncounted)
    /\ slot.nth = revision + Cardinality(Uncounted)

\* What a reader carries of the counter is not ahead of it.
Behind == \A r \in Readers : now[r] <= revision

\* The property alone is not inductive: that a delivered value is as new as
\* the revision read before it needs the slot to be ahead of the counter.
SlotInv == SlotTypeOK /\ StoresAreCounted /\ Behind /\ NeverOlderThanSeen

-----------------------------------------------------------------------------
LEMMA SlotAhead == SlotInv => slot.nth >= revision
<1> SUFFICES ASSUME SlotInv PROVE slot.nth >= revision
    OBVIOUS
<1>1. Cardinality(Uncounted) \in Nat
    BY FS_CardinalityType DEF SlotInv, StoresAreCounted
<1> QED BY <1>1 DEF SlotInv, SlotTypeOK, StoresAreCounted

LEMMA SlotInitInv == Slot!Init => SlotInv
<1> SUFFICES ASSUME Slot!Init PROVE SlotInv
    OBVIOUS
<1>1. SlotTypeOK
    BY DEF Slot!Init, SlotTypeOK, Slot!Empty, Stamped
<1>2. Uncounted = {}
    BY DEF Slot!Init, Uncounted
<1>3. StoresAreCounted
    BY <1>2, FS_EmptySet DEF Slot!Init, StoresAreCounted, Slot!Empty
<1>4. Behind /\ NeverOlderThanSeen
    BY DEF Slot!Init, Behind, NeverOlderThanSeen, Slot!NeverOlderThanSeen, Slot!Empty
<1> QED BY <1>1, <1>3, <1>4 DEF SlotInv

\* A step that neither stores nor counts leaves the account alone.
LEMMA AccountKept ==
    ASSUME SlotInv, Uncounted' = Uncounted, UNCHANGED <<slot, revision>>
    PROVE  StoresAreCounted'
BY DEF SlotInv, StoresAreCounted

LEMMA StoreInv ==
    ASSUME SlotInv, NEW w \in Slot!Writers, Slot!Store(w)
    PROVE  SlotInv'
<1> USE DEF Slot!Store, Slot!reader
<1>1. SlotTypeOK'
    BY DEF SlotInv, SlotTypeOK, Stamped
<1>2. w \notin Uncounted /\ Uncounted' = Uncounted \cup {w}
    BY DEF SlotInv, SlotTypeOK, Uncounted
<1>3. /\ IsFiniteSet(Uncounted')
      /\ Cardinality(Uncounted') = Cardinality(Uncounted) + 1
      /\ Cardinality(Uncounted) \in Nat
    BY <1>2, FS_AddElement, FS_CardinalityType DEF SlotInv, StoresAreCounted
<1>4. StoresAreCounted'
    BY <1>3 DEF SlotInv, SlotTypeOK, Stamped, StoresAreCounted
<1>5. Behind' /\ NeverOlderThanSeen'
    BY DEF SlotInv, Behind, NeverOlderThanSeen, Slot!NeverOlderThanSeen
<1> QED BY <1>1, <1>4, <1>5 DEF SlotInv

LEMMA BumpInv ==
    ASSUME SlotInv, NEW w \in Slot!Writers, Slot!Bump(w)
    PROVE  SlotInv'
<1> USE DEF Slot!Bump, Slot!reader
<1>1. SlotTypeOK'
    BY DEF SlotInv, SlotTypeOK
<1>2. w \in Uncounted /\ Uncounted' = Uncounted \ {w}
    BY DEF SlotInv, SlotTypeOK, Uncounted
<1>3. /\ IsFiniteSet(Uncounted')
      /\ Cardinality(Uncounted') = Cardinality(Uncounted) - 1
      /\ Cardinality(Uncounted) \in Nat
    BY <1>2, FS_RemoveElement, FS_CardinalityType DEF SlotInv, StoresAreCounted
<1>4. StoresAreCounted'
    BY <1>3 DEF SlotInv, SlotTypeOK, Stamped, StoresAreCounted
<1>5. Behind' /\ NeverOlderThanSeen'
    BY DEF SlotInv, SlotTypeOK, Behind, NeverOlderThanSeen, Slot!NeverOlderThanSeen
<1> QED BY <1>1, <1>4, <1>5 DEF SlotInv

\* The other steps of a writer change neither the slot nor the counter.
LEMMA WaitingWriterInv ==
    ASSUME SlotInv, NEW w \in Slot!Writers,
           \/ Slot!BeginSet(w) \/ Slot!AcquireWrite(w)
           \/ Slot!TrySetNow(w) \/ Slot!RefuseSetNow(w) \/ Slot!Wake(w)
    PROVE  SlotInv'
<1> USE DEF Slot!BeginSet, Slot!AcquireWrite, Slot!TrySetNow,
            Slot!RefuseSetNow, Slot!Wake, Slot!reader
<1>1. SlotTypeOK'
    BY DEF SlotInv, SlotTypeOK
<1>2. Uncounted' = Uncounted
    BY DEF SlotInv, SlotTypeOK, Uncounted
<1>3. StoresAreCounted'
    BY <1>2, AccountKept
<1>4. Behind' /\ NeverOlderThanSeen'
    BY DEF SlotInv, Behind, NeverOlderThanSeen, Slot!NeverOlderThanSeen
<1> QED BY <1>1, <1>3, <1>4 DEF SlotInv

LEMMA ReadInv ==
    ASSUME SlotInv, NEW r \in Readers, Slot!Read(r)
    PROVE  SlotInv'
<1> USE DEF Slot!writer
<1>1. UNCHANGED <<slot, revision, wpc>>
    BY DEF Slot!Read, Slot!EnableReader, Slot!CheckRevision, Slot!LockSlot,
           Slot!Deliver, Slot!Unpark
<1>2. StoresAreCounted'
    BY <1>1, AccountKept DEF Uncounted
<1>3. CASE Slot!CheckRevision(r)
    BY <1>2, <1>3 DEF Slot!CheckRevision, SlotInv, SlotTypeOK, Behind,
       NeverOlderThanSeen, Slot!NeverOlderThanSeen
<1>4. CASE Slot!Deliver(r)
    <2>1. SlotTypeOK' /\ Behind'
        BY <1>4 DEF Slot!Deliver, SlotInv, SlotTypeOK, Behind
    <2>2. slot.nth >= now[r]
        BY SlotAhead DEF SlotInv, SlotTypeOK, Stamped, Behind
    <2>3. NeverOlderThanSeen'
        BY <1>4, <2>2 DEF Slot!Deliver, SlotInv, SlotTypeOK,
           NeverOlderThanSeen, Slot!NeverOlderThanSeen
    <2> QED BY <1>2, <2>1, <2>3 DEF SlotInv
<1>5. CASE Slot!EnableReader(r) \/ Slot!LockSlot(r) \/ Slot!Unpark(r)
    BY <1>2, <1>5 DEF Slot!EnableReader, Slot!LockSlot, Slot!Unpark, SlotInv,
       SlotTypeOK, Behind, NeverOlderThanSeen, Slot!NeverOlderThanSeen
<1> QED BY <1>3, <1>4, <1>5 DEF Slot!Read

LEMMA SlotNextInv == SlotInv /\ Slot!Next => SlotInv'
<1> SUFFICES ASSUME SlotInv, Slot!Next PROVE SlotInv'
    OBVIOUS
<1>1. ASSUME NEW w \in Setters, Slot!BeginSet(w) \/ Slot!AcquireWrite(w)
      PROVE  SlotInv'
    BY <1>1, WaitingWriterInv DEF Slot!Writers
<1>2. ASSUME NEW p \in Painters, Slot!TrySetNow(p) \/ Slot!RefuseSetNow(p)
      PROVE  SlotInv'
    BY <1>2, WaitingWriterInv DEF Slot!Writers
<1>3. ASSUME NEW w \in Slot!Writers, Slot!Publish(w)
      PROVE  SlotInv'
    BY <1>3, StoreInv, BumpInv, WaitingWriterInv DEF Slot!Publish
<1>4. ASSUME NEW r \in Readers, Slot!Read(r)
      PROVE  SlotInv'
    BY <1>4, ReadInv
<1> QED BY <1>1, <1>2, <1>3, <1>4 DEF Slot!Next

LEMMA SlotStutterInv == SlotInv /\ UNCHANGED slotVars => SlotInv'
BY DEF SlotInv, SlotTypeOK, StoresAreCounted, Uncounted, Behind,
       NeverOlderThanSeen, Slot!NeverOlderThanSeen, slotVars

-----------------------------------------------------------------------------
AnswerTypeOK ==
    /\ value \in Answer!Callers \cup {Answer!NoValue}
    /\ final \in BOOLEAN
    /\ spc \in [Answer!Callers -> {"idle", "lock", "write", "wake", "done"}]
    /\ outcome \in [Answer!Callers -> {"pending", "stored", "refused", "abandoned"}]
    /\ rpc \in [Receivers -> {"enable", "lock", "look", "park", "done"}]
    /\ result \in [Receivers -> Answer!Callers \cup {Answer!NoValue}]

Stored(s) == outcome[s] = "stored"
Has(r, s) == result[r] = s

\* A sender writes once: until it has, its call has come to nothing.
WritesOnce ==
    \A s \in Answer!Callers :
        spc[s] \in {"idle", "lock", "write"} => outcome[s] = "pending"

\* A receiver with an answer has returned.
AnsweredIsDone ==
    \A r \in Receivers : result[r] # Answer!NoValue => rpc[r] = "done"

\* Whatever is in the slot or with a receiver was accepted, and is in one
\* place only; whatever was accepted is in such a place.
OnlyAccepted ==
    /\ value # Answer!NoValue => Stored(value)
    /\ \A r \in Receivers : result[r] # Answer!NoValue => Stored(result[r])
OnePlace ==
    /\ \A r \in Receivers : result[r] # Answer!NoValue => result[r] # value
    /\ \A r1, r2 \in Receivers :
           result[r1] # Answer!NoValue /\ result[r1] = result[r2] => r1 = r2
SomePlace ==
    \A s \in Answer!Callers :
        Stored(s) => value = s \/ \E r \in Receivers : Has(r, s)

AnswerInv ==
    /\ AnswerTypeOK /\ WritesOnce /\ AnsweredIsDone
    /\ OnlyAccepted /\ OnePlace /\ SomePlace

LEMMA AnswerInitInv == Answer!Init => AnswerInv
<1> SUFFICES ASSUME Answer!Init  PROVE AnswerInv
    OBVIOUS
<1>1. AnswerTypeOK
    BY DEF Answer!Init, AnswerTypeOK
<1>2. \A s \in Answer!Callers : outcome[s] = "pending"
    BY DEF Answer!Init
<1>3. WritesOnce /\ SomePlace
    BY <1>2 DEF WritesOnce, SomePlace, Stored
<1>4. AnsweredIsDone /\ OnlyAccepted /\ OnePlace
    BY DEF Answer!Init, AnsweredIsDone, OnlyAccepted, OnePlace
<1> QED BY <1>1, <1>3, <1>4 DEF AnswerInv

\* An answer that is stored was offered by a sender that had not written, and
\* goes into an empty slot.
LEMMA AcceptInv ==
    ASSUME AnswerInv, NEW s \in Answer!Callers,
           spc[s] = "write", value = Answer!NoValue, value' = s, final' = TRUE,
           spc' = [spc EXCEPT ![s] = "wake"],
           outcome' = [outcome EXCEPT ![s] = "stored"],
           UNCHANGED <<rpc, result>>
    PROVE  AnswerInv'
<1>1. AnswerTypeOK' /\ WritesOnce' /\ AnsweredIsDone'
    BY DEF AnswerInv, AnswerTypeOK, WritesOnce, AnsweredIsDone
<1>2. \A r \in Receivers : result[r] # s
    BY NoValueIsNoCaller DEF AnswerInv, WritesOnce, OnlyAccepted, Stored
<1>3. OnlyAccepted' /\ OnePlace'
    BY <1>2 DEF AnswerInv, AnswerTypeOK, OnlyAccepted, OnePlace, Stored
<1>4. SomePlace'
    BY NoValueIsNoCaller DEF AnswerInv, AnswerTypeOK, SomePlace, Stored, Has
<1> QED BY <1>1, <1>3, <1>4 DEF AnswerInv

\* A sender that stores nothing changes no place.
LEMMA RefuseInv ==
    ASSUME AnswerInv, NEW s \in Answer!Callers, NEW what \in {"refused", "abandoned"},
           spc[s] = "write", final' \in BOOLEAN,
           spc' \in {[spc EXCEPT ![s] = "wake"], [spc EXCEPT ![s] = "done"]},
           outcome' = [outcome EXCEPT ![s] = what],
           UNCHANGED <<value, rpc, result>>
    PROVE  AnswerInv'
<1>1. AnswerTypeOK' /\ WritesOnce' /\ AnsweredIsDone'
    BY DEF AnswerInv, AnswerTypeOK, WritesOnce, AnsweredIsDone
<1>2. \A t \in Answer!Callers : Stored(t)' <=> Stored(t)
    BY DEF AnswerInv, AnswerTypeOK, WritesOnce, Stored
<1>3. OnlyAccepted' /\ OnePlace' /\ SomePlace'
    BY <1>2 DEF AnswerInv, AnswerTypeOK, OnlyAccepted, OnePlace, SomePlace, Has
<1> QED BY <1>1, <1>3 DEF AnswerInv

LEMMA SenderInv ==
    ASSUME AnswerInv, NEW s \in Answer!Callers, Answer!Call(s) \/ Answer!Finish(s)
    PROVE  AnswerInv'
<1> USE DEF Answer!receiver
<1>1. CASE Answer!Fill(s)
    <2>1. CASE value # Answer!NoValue \/ final
        BY <1>1, <2>1, RefuseInv DEF Answer!Fill, AnswerInv, AnswerTypeOK
    <2>2. CASE ~(value # Answer!NoValue \/ final)
        BY <1>1, <2>2, AcceptInv DEF Answer!Fill
    <2> QED BY <2>1, <2>2
<1>2. CASE Answer!Send(s)
    <2>1. CASE value = Answer!NoValue
        BY <1>2, <2>1, AcceptInv DEF Answer!Send
    <2>2. CASE value # Answer!NoValue
        BY <1>2, <2>2, RefuseInv DEF Answer!Send
    <2> QED BY <2>1, <2>2
<1>3. CASE Answer!Abandon(s)
    BY <1>3, RefuseInv DEF Answer!Abandon
<1>4. CASE Answer!Call(s) \/ Answer!LockForWrite(s) \/ Answer!Wake(s)
    BY <1>4 DEF Answer!Call, Answer!LockForWrite, Answer!Wake, AnswerInv,
       AnswerTypeOK, WritesOnce, AnsweredIsDone, OnlyAccepted, OnePlace,
       SomePlace, Stored, Has
<1> QED BY <1>1, <1>2, <1>3, <1>4 DEF Answer!Finish

\* The answer moves from the slot to the receiver that looks.
LEMMA LookInv ==
    ASSUME AnswerInv, NEW r \in Receivers, Answer!Look(r)
    PROVE  AnswerInv'
<1> USE DEF Answer!Look, Answer!sender
<1>1. AnswerTypeOK' /\ WritesOnce' /\ AnsweredIsDone'
    BY DEF AnswerInv, AnswerTypeOK, WritesOnce, AnsweredIsDone
<1>2. result[r] = Answer!NoValue
    BY DEF AnswerInv, AnsweredIsDone
<1>3. OnlyAccepted' /\ OnePlace'
    BY DEF AnswerInv, AnswerTypeOK, OnlyAccepted, OnePlace, Stored
<1>4. ASSUME NEW s \in Answer!Callers, Stored(s)'
      PROVE  value' = s \/ \E q \in Receivers : Has(q, s)'
    <2>1. CASE value = s
        BY <2>1 DEF AnswerInv, AnswerTypeOK, Has
    <2>2. CASE value # s
        <3>1. PICK q \in Receivers : Has(q, s)
            BY <1>4, <2>2 DEF AnswerInv, SomePlace, Stored
        <3>2. Has(q, s)'
            BY <1>2, <3>1, NoValueIsNoCaller DEF AnswerInv, AnswerTypeOK, Has
        <3> QED BY <3>2
    <2> QED BY <2>1, <2>2
<1>5. SomePlace'
    BY <1>4 DEF SomePlace
<1> QED BY <1>1, <1>3, <1>5 DEF AnswerInv

LEMMA ReceiverInv ==
    ASSUME AnswerInv, NEW r \in Receivers, Answer!Receive(r)
    PROVE  AnswerInv'
<1>1. CASE Answer!EnableReceiver(r) \/ Answer!LockForLook(r) \/ Answer!Unpark(r)
    BY <1>1 DEF Answer!EnableReceiver, Answer!LockForLook, Answer!Unpark,
       Answer!sender, AnswerInv, AnswerTypeOK, WritesOnce, AnsweredIsDone,
       OnlyAccepted, OnePlace, SomePlace, Stored, Has
<1> QED BY <1>1, LookInv DEF Answer!Receive

LEMMA AnswerNextInv == AnswerInv /\ Answer!Next => AnswerInv'
BY SenderInv, ReceiverInv DEF Answer!Next

LEMMA AnswerStutterInv == AnswerInv /\ UNCHANGED answerVars => AnswerInv'
BY DEF AnswerInv, AnswerTypeOK, WritesOnce, AnsweredIsDone, OnlyAccepted,
       OnePlace, SomePlace, Stored, Has, answerVars

LEMMA InvImpliesOnce == AnswerInv => AcceptedIsDeliveredOnce
<1> SUFFICES ASSUME AnswerInv, NEW s \in Answer!Stored
             PROVE  LET owners == {r \in Receivers : result[r] = s} IN
                    IF value = s THEN owners = {} ELSE \E r \in Receivers : owners = {r}
    BY DEF AcceptedIsDeliveredOnce, Answer!AcceptedIsDeliveredOnce
<1> DEFINE owners == {r \in Receivers : result[r] = s}
<1>1. s \in Answer!Callers /\ Stored(s) /\ s # Answer!NoValue
    BY NoValueIsNoCaller DEF Answer!Stored, Stored
<1>2. CASE value = s
    BY <1>1, <1>2 DEF AnswerInv, OnePlace
<1>3. CASE value # s
    <2>1. PICK r \in Receivers : result[r] = s
        BY <1>1, <1>3 DEF AnswerInv, SomePlace, Has
    <2>2. owners = {r}
        BY <1>1, <2>1 DEF AnswerInv, OnePlace
    <2> QED BY <1>3, <2>2
<1> QED BY <1>2, <1>3

-----------------------------------------------------------------------------
LEMMA InitInv == Init => SlotInv /\ AnswerInv
BY SlotInitInv, AnswerInitInv DEF Init

LEMMA NextInv ==
    SlotInv /\ AnswerInv /\ [Next]_<<part, slotVars, answerVars>>
        => SlotInv' /\ AnswerInv'
BY SlotNextInv, SlotStutterInv, AnswerNextInv, AnswerStutterInv DEF Next

\* A reader that acknowledges a revision was given a value at least as new,
\* whatever the writers' stores, counts and wakes interleave with
\* (changed_since).
THEOREM ReadersNeverBehind == Spec => []NeverOlderThanSeen
<1>1. SlotInv => NeverOlderThanSeen
    BY DEF SlotInv
<1> QED BY <1>1, InitInv, NextInv, PTL DEF Spec

\* An answer that was accepted is in the slot or with exactly one receiver,
\* whoever fills, sends, abandons and receives (fill, send, abandon, recv).
THEOREM AcceptedOnce == Spec => []AcceptedIsDeliveredOnce
BY InitInv, NextInv, InvImpliesOnce, PTL DEF Spec
=============================================================================
