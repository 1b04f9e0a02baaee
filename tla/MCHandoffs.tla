----------------------------- MODULE MCHandoffs -----------------------------
(***************************************************************************)
(* The two handoffs of latest.rs in one run.  Nothing connects them, so a  *)
(* behaviour is one of the two and leaves the other where it started: the  *)
(* run explores the sum of their states, not the product.                  *)
(***************************************************************************)
EXTENDS FiniteSets

CONSTANTS
    Setters, Painters, Readers, MaxOffers,       \* of Latest
    Fillers, Senders, Abandoners, Receivers      \* of Once

ASSUME RolesAreDistinct ==
    /\ Fillers \intersect Senders = {}
    /\ Fillers \intersect Abandoners = {}
    /\ Senders \intersect Abandoners = {}

VARIABLES
    part,                                \* which of the two this behaviour is
    slot, revision, slotHolder, offered, pending, wpc,
    slotWaiters, seen, now, last, slotPc,
    value, final, holder, spc, outcome, waiters, rpc, result

Slot == INSTANCE Latest
    WITH holder <- slotHolder, waiters <- slotWaiters, rpc <- slotPc
Answer == INSTANCE Once

\* The absent value is none of the answers.
ASSUME NoValueIsNoCaller == Answer!NoValue \notin Answer!Callers

slotVars == <<slot, revision, slotHolder, offered, pending, wpc,
              slotWaiters, seen, now, last, slotPc>>
answerVars == <<value, final, holder, spc, outcome, waiters, rpc, result>>

Init == part \in {"slot", "answer"} /\ Slot!Init /\ Answer!Init

Next ==
    /\ UNCHANGED part
    /\ \/ part = "slot" /\ Slot!Next /\ UNCHANGED answerVars
       \/ part = "answer" /\ Answer!Next /\ UNCHANGED slotVars

\* The fairness of each module, for the part that runs.
SlotFairness ==
    /\ \A w \in Setters : WF_slotVars(part = "slot" /\ Slot!AcquireWrite(w))
    /\ \A w \in Setters \union Painters :
           WF_slotVars(part = "slot" /\ Slot!Publish(w))
    /\ \A r \in Readers : WF_slotVars(part = "slot" /\ Slot!Read(r))

AnswerFairness ==
    /\ \A s \in Fillers \union Senders \union Abandoners :
           WF_answerVars(part = "answer" /\ Answer!Finish(s))
    /\ \A r \in Receivers :
           WF_answerVars(part = "answer" /\ Answer!Receive(r))

Spec == /\ Init /\ [][Next]_<<part, slotVars, answerVars>>
        /\ SlotFairness /\ AnswerFairness

-----------------------------------------------------------------------------
\* What each of the two promises; stated and explained in Latest and Once.

\* A reader that acknowledges a revision has been given a value as new.
NeverOlderThanSeen == Slot!NeverOlderThanSeen

\* Once writers fall silent every reader ends with the slot's value.
CatchesUp == part = "slot" => Slot!CatchesUp

\* An accepted answer is in the slot, or exactly one receiver has it.
AcceptedIsDeliveredOnce == Answer!AcceptedIsDeliveredOnce

\* Once the handoff is decided, every receiver returns.
DecidedIsObserved == Answer!DecidedIsObserved
=============================================================================
