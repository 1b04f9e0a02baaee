-------------------------- MODULE AccountedStream --------------------------
(***************************************************************************)
(* What a diagnostic journal promises each reader: starting from the       *)
(* position it asked for, every record published is accounted for exactly  *)
(* once and in order, either handed over or reported as lost.  A reader is *)
(* never handed a record it was told it lost, nor the other way round.     *)
(***************************************************************************)
EXTENDS Integers

CONSTANTS Readers

VARIABLES
    published,    \* how many records were ever published
    start,        \* start[r]: the position reader r subscribed at
    position,     \* position[r]: the last record accounted for
    received,     \* received[r]: records handed over
    missed        \* missed[r]: records reported as lost

vars == <<published, start, position, received, missed>>

Init ==
    /\ published = 0
    /\ start = [r \in Readers |-> 0]
    /\ position = [r \in Readers |-> 0]
    /\ received = [r \in Readers |-> {}]
    /\ missed = [r \in Readers |-> {}]

Publish ==
    /\ published' = published + 1
    /\ UNCHANGED <<start, position, received, missed>>

\* A new subscription starts a new account.
Subscribe(r, from) ==
    /\ from \in 0..published
    /\ start' = [start EXCEPT ![r] = from]
    /\ position' = [position EXCEPT ![r] = from]
    /\ received' = [received EXCEPT ![r] = {}]
    /\ missed' = [missed EXCEPT ![r] = {}]
    /\ UNCHANGED published

HandOver(r) ==
    /\ position[r] < published
    /\ position' = [position EXCEPT ![r] = @ + 1]
    /\ received' = [received EXCEPT ![r] = @ \union {position[r] + 1}]
    /\ UNCHANGED <<published, start, missed>>

ReportLoss(r, last) ==
    /\ last \in position[r] + 1 .. published
    /\ position' = [position EXCEPT ![r] = last]
    /\ missed' = [missed EXCEPT ![r] = @ \union (position[r] + 1 .. last)]
    /\ UNCHANGED <<published, start, received>>

Next ==
    \/ Publish
    \/ \E r \in Readers :
        \/ \E from \in 0..published : Subscribe(r, from)
        \/ HandOver(r)
        \/ \E last \in 0..published : ReportLoss(r, last)

Spec == Init /\ [][Next]_vars
=============================================================================
