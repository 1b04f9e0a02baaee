---------------------------- MODULE SessionProofs ----------------------------
(***************************************************************************)
(* The safety properties of Session, and that it implements ControlCall,   *)
(* for any commands, any lengths of the queues, and any number of calls,   *)
(* watches and publications.                                               *)
(***************************************************************************)
EXTENDS Session, SequenceTheorems, TLAPS

-----------------------------------------------------------------------------
(* The inductive invariant.                                                *)

NoReply == \A k \in DOMAIN toClient : toClient[k].type # "reply"
Handling == {"bridge", "direct"}

\* The call under way is in one place only: in the socket towards the server,
\* handled, in the reply, or in the socket towards the client.
OneCall ==
    /\ executed <= sent
    /\ terminal # "none" => place = "idle"
    /\ terminal = "none" => next_id = sent
    /\ place # "exchange" /\ terminal = "none" =>
         toServer = <<>> /\ serving \notin Handling \cup {"reply"} /\ asked = 0 /\ NoReply
    /\ Len(toServer) <= 1
    /\ toServer # <<>> =>
         /\ Head(toServer).id = sent /\ executed < sent /\ asked = 0 /\ NoReply
         /\ serving \notin Handling \cup {"reply"}
    /\ asked # 0 => asked = sent /\ executed < sent
    /\ serving \in Handling => request.id = sent /\ NoReply
    /\ serving = "direct" => executed < sent /\ asked = 0
    /\ serving = "bridge" /\ asked = 0 => executed = sent
    /\ serving = "reply" =>
         /\ frame.type = "reply" /\ frame.id = sent /\ asked = 0 /\ NoReply
         /\ frame.ok => executed = sent
    /\ \A k \in DOMAIN toClient : toClient[k].type = "reply" =>
         /\ toClient[k].id = sent /\ asked = 0
         /\ serving \notin Handling \cup {"reply"}
         /\ toClient[k].ok => executed = sent
         /\ \A l \in DOMAIN toClient : toClient[l].type = "reply" => l = k

\* Everything published and on its way to the tool is newer than its first
\* subscription.
IsFresh(at) == subscribed # NoArm /\ at > subscribed

FreshFrame(f) == IF f.type = "event" THEN IsFresh(f.event.at) ELSE f.event = NoEvent

Fresh ==
    /\ subscribed <= revision /\ baseline <= revision /\ seen <= revision
    /\ IF publishing THEN revision < MaxPublications /\ slot.at = revision + 1
                     ELSE slot.at = revision
    /\ FreshFrame(frame) /\ (serving = "push" => frame.type = "event")
    /\ \A k \in DOMAIN toClient : FreshFrame(toClient[k])
    /\ \A i \in DOMAIN events : IsFresh(events[i].at)
    /\ result.how = "painted" => IsFresh(result.at)
    /\ \A i \in DOMAIN toServer : toServer[i].command.observe => subscribed # NoArm
    /\ request.command.observe => subscribed # NoArm /\ baseline >= subscribed
    /\ observed # {} => subscribed # NoArm /\ seen >= subscribed

\* A drain alone holds what it has collected.
Accounted ==
    /\ place # "drain" => out = 0
    /\ NotificationsAccounted

Timed == deadline <= Timeout /\ elapsed <= deadline

SessionInv == TypeOK /\ OneCall /\ Fresh /\ Accounted /\ Timed

-----------------------------------------------------------------------------
(* The types.                                                              *)

LEMMA Constants ==
    /\ NoEvent \in Event /\ NoFrame \in Frame /\ NoRequest \in Request
    /\ Commands \subseteq Command /\ \A bridged \in BOOLEAN : ArmCommand(bridged) \in Command
    /\ 0 \in Revision /\ "paint" \in Kinds
    /\ Timeout \in Nat \ {0} /\ MaxQueuedEvents \in Nat \ {0} /\ SocketCapacity \in Nat \ {0}
    /\ MaxCalls \in Nat /\ MaxWatches \in Nat /\ MaxPublications \in Nat
BY SessionAssumption DEF NoEvent, NoFrame, NoRequest, Event, Frame, Request, Command, NoCall,
   ArmCommand, Revision

\* What the types say of the numbers.
LEMMA Numbers ==
    ASSUME TypeOK
    PROVE  /\ next_id \in Nat /\ sent \in Nat /\ sent <= next_id /\ next_id <= MaxCalls
           /\ lost \in Nat /\ out \in Nat /\ arrived \in Nat /\ reported \in Nat
           /\ notifications \in Nat /\ notifications <= MaxQueuedEvents
           /\ watches \in Nat /\ watches <= MaxWatches
           /\ revision \in Nat /\ revision <= MaxPublications
           /\ MaxCalls \in Nat /\ MaxQueuedEvents \in Nat /\ MaxWatches \in Nat
           /\ MaxPublications \in Nat /\ Timeout \in Nat
<1>1. lost \in Nat /\ out \in Nat /\ arrived \in Nat /\ reported \in Nat
    BY DEF TypeOK
<1>2. /\ next_id \in Nat /\ sent \in Nat /\ sent <= next_id /\ next_id <= MaxCalls
      /\ notifications \in Nat /\ notifications <= MaxQueuedEvents
      /\ watches \in Nat /\ watches <= MaxWatches
      /\ revision \in Nat /\ revision <= MaxPublications
    BY Constants DEF TypeOK, Revision
<1> QED BY <1>1, <1>2, Constants

LEMMA Heads ==
    ASSUME TypeOK
    PROVE  /\ toClient # <<>> =>
                /\ Head(toClient) \in Frame /\ Tail(toClient) \in Seq(Frame)
                /\ Len(toClient) \in Nat /\ Len(Tail(toClient)) = Len(toClient) - 1
                /\ Head(toClient).event \in Event /\ Head(toClient).id \in 0..MaxCalls
                /\ Head(toClient).ok \in BOOLEAN
           /\ toServer # <<>> =>
                /\ Head(toServer) \in Request /\ Tail(toServer) \in Seq(Request)
                /\ Head(toServer).id \in 0..MaxCalls
                /\ Head(toServer).command \in Command
           /\ \A i \in DOMAIN events : events[i] \in Event
<1>1. \A f \in Frame : f.event \in Event /\ f.id \in 0..MaxCalls /\ f.ok \in BOOLEAN
    BY DEF Frame
<1>2. \A r \in Request : r.id \in 0..MaxCalls /\ r.command \in Command
    BY DEF Request
<1>3. toClient \in Seq(Frame) /\ toServer \in Seq(Request) /\ events \in Seq(Event)
    BY DEF TypeOK
<1>4. toClient # <<>> =>
        /\ Head(toClient) \in Frame /\ Tail(toClient) \in Seq(Frame)
        /\ Len(toClient) \in Nat /\ Len(Tail(toClient)) = Len(toClient) - 1
    BY <1>3
<1>5. toServer # <<>> => Head(toServer) \in Request /\ Tail(toServer) \in Seq(Request)
    BY <1>3
<1>6. \A i \in DOMAIN events : events[i] \in Event
    BY <1>3
<1> QED BY <1>1, <1>2, <1>4, <1>5, <1>6

\* What the helpers return.
LEMMA Built ==
    /\ \A how \in Outcome : Returned(how) \in [how : Outcome, id : 0..MaxCalls, at : Revision]
    /\ \A e \in Event : Painted(e) \in [how : Outcome, id : 0..MaxCalls, at : Revision]
    /\ \A e \in Event : Notification(e) \in Frame
    /\ \A id \in 0..MaxCalls, ok \in BOOLEAN : Reply(id, ok) \in Frame
<1>1. 0 \in 0..MaxCalls /\ 0 \in Revision
    BY Constants
<1>2. \A e \in Event : e.at \in Revision
    BY DEF Event, Revision
<1>3. \A how \in Outcome : Returned(how) \in [how : Outcome, id : 0..MaxCalls, at : Revision]
    BY <1>1 DEF Returned
<1>4. \A e \in Event : Painted(e) \in [how : Outcome, id : 0..MaxCalls, at : Revision]
    BY <1>1, <1>2 DEF Painted, Outcome
<1>5. \A e \in Event : Notification(e) \in Frame
    BY <1>1 DEF Notification, Frame
<1>6. \A id \in 0..MaxCalls, ok \in BOOLEAN : Reply(id, ok) \in Frame
    BY Constants DEF Reply, Frame
<1> QED BY <1>3, <1>4, <1>5, <1>6

\* A queue keeps its bound and its elements, whatever is added to it, taken
\* from it or filtered out.
LEMMA Queues ==
    ASSUME TypeOK
    PROVE  /\ \A e \in Event : LET q == Queued(events, e) IN
                /\ q \in Seq(Event) /\ Len(q) <= MaxQueuedEvents
                /\ \A i \in DOMAIN q : q[i] = e \/ \E j \in DOMAIN events : q[i] = events[j]
           /\ \A k \in DOMAIN events : LET q == RemoveAt(events, k) IN
                /\ q \in Seq(Event) /\ Len(q) <= MaxQueuedEvents
                /\ \A i \in DOMAIN q : \E j \in DOMAIN events : q[i] = events[j]
           /\ ForgetPaints =>
                /\ events' \in Seq(Event) /\ Len(events') <= MaxQueuedEvents
                /\ \A i \in DOMAIN events' : \E j \in DOMAIN events : events'[i] = events[j]
<1>1. /\ events \in Seq(Event) /\ Len(events) \in Nat /\ Len(events) <= MaxQueuedEvents
      /\ DOMAIN events = 1..Len(events)
    BY DEF TypeOK
<1>5. Len(events) \in Nat /\ MaxQueuedEvents \in Nat /\ Len(events) <= MaxQueuedEvents
      /\ MaxQueuedEvents > 0
    BY <1>1, Constants
<1>2. ASSUME NEW e \in Event
      PROVE  LET q == Queued(events, e) IN
                /\ q \in Seq(Event) /\ Len(q) <= MaxQueuedEvents
                /\ \A i \in DOMAIN q : q[i] = e \/ \E j \in DOMAIN events : q[i] = events[j]
    <2>1. CASE Len(events) = MaxQueuedEvents
        <3> DEFINE r == Tail(events)
                   q == Append(r, e)
        <3>1. /\ r \in Seq(Event) /\ Len(r) = Len(events) - 1
              /\ \A i \in 1..Len(r) : r[i] = events[i + 1]
            BY <1>1, <1>5, <2>1
        <3> HIDE DEF r
        <3>2. /\ q \in Seq(Event) /\ Len(q) = Len(r) + 1 /\ DOMAIN q = 1..Len(q)
              /\ \A i \in 1..Len(q) : q[i] = IF i = Len(q) THEN e ELSE r[i]
            BY <3>1
        <3>3. Queued(events, e) = q
            BY <2>1 DEF Queued, r
        <3> HIDE DEF q
        <3>4. \A i \in DOMAIN q : q[i] = e \/ \E j \in DOMAIN events : q[i] = events[j]
            <4> SUFFICES ASSUME NEW i \in DOMAIN q, i # Len(q)
                         PROVE  \E j \in DOMAIN events : q[i] = events[j]
                BY <3>2
            <4>1. i \in 1..Len(r) /\ i + 1 \in 1..Len(events)
                <5>1. Len(r) = Len(events) - 1 /\ Len(q) = Len(r) + 1
                    BY <3>1, <3>2
                <5>2. i \in 1..Len(q)
                    BY <3>2
                <5> QED BY <1>5, <5>1, <5>2
            <4>2. q[i] = r[i] /\ r[i] = events[i + 1]
                BY <3>1, <3>2, <4>1
            <4> QED BY <1>1, <4>1, <4>2
        <3> QED BY <1>1, <2>1, <3>1, <3>2, <3>3, <3>4
    <2>2. CASE Len(events) # MaxQueuedEvents
        <3> DEFINE q == Append(events, e)
        <3>1. /\ q \in Seq(Event) /\ Len(q) = Len(events) + 1 /\ DOMAIN q = 1..Len(q)
              /\ \A i \in 1..Len(q) : q[i] = IF i = Len(q) THEN e ELSE events[i]
            BY <1>1
        <3>2. Queued(events, e) = q
            BY <2>2 DEF Queued
        <3> HIDE DEF q
        <3>3. \A i \in DOMAIN q : q[i] = e \/ \E j \in DOMAIN events : q[i] = events[j]
            BY <1>1, <3>1
        <3>4. Len(q) <= MaxQueuedEvents
            <4>1. Len(q) = Len(events) + 1
                BY <3>1
            <4> QED BY <1>5, <2>2, <4>1
        <3> QED BY <3>1, <3>2, <3>3, <3>4
    <2> QED BY <2>1, <2>2
<1>3. ASSUME NEW k \in DOMAIN events
      PROVE  LET q == RemoveAt(events, k) IN
                /\ q \in Seq(Event) /\ Len(q) <= MaxQueuedEvents
                /\ \A i \in DOMAIN q : \E j \in DOMAIN events : q[i] = events[j]
    <2> DEFINE front == SubSeq(events, 1, k - 1)
               back == SubSeq(events, k + 1, Len(events))
               q == front \o back
    <2>1. k \in 1..Len(events)
        BY <1>1
    <2>2. /\ front \in Seq(Event) /\ Len(front) = k - 1
          /\ \A i \in 1..(k - 1) : front[i] = events[i]
        BY <1>1, <2>1
    <2>3. /\ back \in Seq(Event) /\ Len(back) = Len(events) - k
          /\ \A i \in 1..(Len(events) - k) : back[i] = events[k + i]
        BY <1>1, <2>1
    <2> HIDE DEF front, back
    <2>7. /\ q \in Seq(Event) /\ Len(q) = Len(front) + Len(back)
          /\ \A i \in 1..Len(front) + Len(back) :
               q[i] = IF i <= Len(front) THEN front[i] ELSE back[i - Len(front)]
        BY <2>2, <2>3, ConcatProperties
    <2>4. /\ q \in Seq(Event) /\ Len(q) = Len(events) - 1 /\ DOMAIN q = 1..Len(q)
          /\ \A i \in 1..Len(q) : q[i] = IF i <= k - 1 THEN front[i] ELSE back[i - (k - 1)]
        BY <1>1, <2>1, <2>2, <2>3, <2>7
    <2>5. RemoveAt(events, k) = q
        BY DEF RemoveAt, front, back
    <2> HIDE DEF q
    <2>6. ASSUME NEW i \in DOMAIN q
          PROVE  \E j \in DOMAIN events : q[i] = events[j]
        <3>1. CASE i <= k - 1
            BY <1>1, <2>1, <2>2, <2>4, <3>1
        <3>2. CASE ~(i <= k - 1)
            <4>1. /\ i - (k - 1) \in 1..(Len(events) - k) /\ k + (i - (k - 1)) = i + 1
                  /\ i + 1 \in 1..Len(events)
                BY <1>1, <2>1, <2>4, <3>2
            <4>2. q[i] = back[i - (k - 1)] /\ back[i - (k - 1)] = events[i + 1]
                BY <2>3, <2>4, <3>2, <4>1
            <4> QED BY <1>1, <4>1, <4>2
        <3> QED BY <3>1, <3>2
    <2>8. Len(q) <= MaxQueuedEvents
        BY <1>5, <2>4
    <2> QED BY <2>4, <2>5, <2>6, <2>8
<1>4. ASSUME ForgetPaints
      PROVE  /\ events' \in Seq(Event) /\ Len(events') <= MaxQueuedEvents
             /\ \A i \in DOMAIN events' : \E j \in DOMAIN events : events'[i] = events[j]
    <2>1. PICK n \in 0..Len(events) : \E kept \in [1..n -> DOMAIN events] :
            events' = [i \in 1..n |-> events[kept[i]]]
        BY <1>4 DEF ForgetPaints
    <2>2. PICK kept \in [1..n -> DOMAIN events] : events' = [i \in 1..n |-> events[kept[i]]]
        BY <2>1
    <2>3. \A i \in 1..n : kept[i] \in DOMAIN events /\ events[kept[i]] \in Event
        BY <1>1
    <2>4. n \in Nat /\ n <= Len(events)
        BY <1>1
    <2>5. events' \in Seq(Event) /\ Len(events') = n /\ DOMAIN events' = 1..n
        BY <2>2, <2>3, <2>4
    <2>6. \A i \in DOMAIN events' : events'[i] = events[kept[i]]
        BY <2>2, <2>5
    <2>7. Len(events') <= MaxQueuedEvents
        BY <1>5, <2>4, <2>5
    <2> QED BY <2>3, <2>5, <2>6, <2>7
<1> QED BY <1>2, <1>3, <1>4


LEMMA Received ==
    ASSUME TypeOK, NEW f \in Frame
    PROVE  /\ Notify(f) => arrived' \in Nat /\ lost' \in Nat /\ notifications' \in 0..MaxQueuedEvents
           /\ QueueEvent(f) => events' \in Seq(Event) /\ Len(events') <= MaxQueuedEvents
<1>1. ASSUME Notify(f)
      PROVE  arrived' \in Nat /\ lost' \in Nat /\ notifications' \in 0..MaxQueuedEvents
    <2>1. /\ arrived \in Nat /\ lost \in Nat /\ notifications \in Nat
          /\ notifications <= MaxQueuedEvents /\ MaxQueuedEvents \in Nat
        BY Numbers
    <2>2. /\ arrived' = arrived + 1 \/ arrived' = arrived
          /\ lost' = lost + 1 \/ lost' = lost
          /\ notifications' = notifications
               \/ (notifications # MaxQueuedEvents /\ notifications' = notifications + 1)
        <3>1. CASE f.type = "event" /\ notifications = MaxQueuedEvents
            BY <1>1, <3>1 DEF Notify
        <3>2. CASE f.type = "event" /\ notifications # MaxQueuedEvents
            BY <1>1, <3>2 DEF Notify
        <3>3. CASE f.type # "event"
            BY <1>1, <3>3 DEF Notify
        <3> QED BY <3>1, <3>2, <3>3
    <2> QED BY <2>1, <2>2
<1>2. ASSUME QueueEvent(f)
      PROVE  events' \in Seq(Event) /\ Len(events') <= MaxQueuedEvents
    <2>1. f.event \in Event
        BY DEF Frame
    <2>2. events' = events \/ events' = Queued(events, f.event)
        BY <1>2 DEF QueueEvent
    <2>3. events \in Seq(Event) /\ Len(events) <= MaxQueuedEvents
        BY DEF TypeOK
    <2>4. Queued(events, f.event) \in Seq(Event) /\ Len(Queued(events, f.event)) <= MaxQueuedEvents
        BY <2>1, Queues
    <2> QED BY <2>2, <2>3, <2>4
<1> QED BY <1>1, <1>2

LEMMA TypesStep == ASSUME TypeOK, Fresh, Next PROVE TypeOK'
<1>0. /\ revision \in Revision /\ baseline \in Revision /\ slot \in Event
      /\ publishing => revision < MaxPublications
    BY DEF TypeOK, Fresh
<1>1. ASSUME NEW command \in Commands, Call(command)
      PROVE  TypeOK'
    <2>0. toServer \in Seq(Request) /\ [id |-> next_id + 1, command |-> command] \in Request
        BY <1>1, Numbers, Constants DEF Call, Send, Request, TypeOK
    <2>5. /\ place' = "exchange" /\ next_id < MaxCalls /\ next_id' = next_id + 1
          /\ sent' = next_id + 1 /\ elapsed' = 0 /\ deadline' = Timeout /\ arming' = NoArm
        BY <1>1 DEF Call, Send, StartClock
    <2>6. next_id \in Nat /\ MaxCalls \in Nat /\ Timeout \in Nat
        BY Numbers, Constants DEF TypeOK
    <2>1. /\ place' \in {"idle", "exchange", "paint", "drain"}
          /\ next_id' \in 0..MaxCalls /\ sent' \in 0..next_id' /\ elapsed' \in Nat
          /\ deadline' \in Nat /\ arming' \in Revision \union {NoArm}
        BY <2>5, <2>6
    <2>2. subscribed' \in Revision \union {NoArm}
        BY <1>1, <1>0, Constants DEF Call, Usable, Send, StartClock, TypeOK, Revision
    <2>3. toServer' \in Seq(Request)
        BY <1>1, <2>0 DEF Call, Send
    <2>4. UNCHANGED <<terminal, events, notifications, lost, out, arrived, reported,
                      watches, result, armed, answered, toClient, serverUp, serving,
                      request, frame, baseline, observed, seen, slot, revision,
                      publishing, asked, executed>>
        BY <1>1 DEF Call, Usable, Send, StartClock, clock, queues, marks, totals, client, network,
           server, app
    <2> QED BY <2>1, <2>2, <2>3, <2>4 DEF TypeOK
<1>2. ASSUME NEW bridged \in BOOLEAN, Arm(bridged)
      PROVE  TypeOK'
    <2>0. /\ toServer \in Seq(Request)
          /\ [id |-> next_id + 1, command |-> ArmCommand(bridged)] \in Request
        BY <1>2, Numbers, Constants DEF Arm, Send, Request, TypeOK
    <2>6. /\ place' = "exchange" /\ next_id < MaxCalls /\ next_id' = next_id + 1
          /\ sent' = next_id + 1 /\ elapsed' = 0 /\ deadline' = Timeout
          /\ (arming' = NoArm \/ arming' = revision) /\ (armed' = NoArm \/ armed' = armed)
        BY <1>2 DEF Arm, Send, StartClock
    <2>7. next_id \in Nat /\ MaxCalls \in Nat /\ Timeout \in Nat /\ armed \in Revision \union {NoArm}
        BY Numbers, Constants DEF TypeOK
    <2>1. /\ place' \in {"idle", "exchange", "paint", "drain"}
          /\ next_id' \in 0..MaxCalls /\ sent' \in 0..next_id' /\ elapsed' \in Nat
          /\ deadline' \in Nat /\ arming' \in Revision \union {NoArm}
          /\ armed' \in Revision \union {NoArm}
        BY <1>0, <2>6, <2>7 DEF Revision
    <2>2. subscribed' \in Revision \union {NoArm}
        BY <1>2, <1>0, Constants DEF Arm, Usable, Send, StartClock, ForgetPaints, TypeOK, Revision
    <2>3. toServer' \in Seq(Request)
        BY <1>2, <2>0 DEF Arm, Send
    <2>4. events' \in Seq(Event) /\ Len(events') <= MaxQueuedEvents
        BY <1>2, Queues DEF Arm
    <2>5. UNCHANGED <<terminal, notifications, lost, out, arrived, reported, watches,
                      result, answered, toClient, serverUp, serving, request, frame,
                      baseline, observed, seen, slot, revision, publishing, asked,
                      executed>>
        BY <1>2 DEF Arm, Usable, Send, StartClock, ForgetPaints, clock, queues, marks, totals,
           client, network, server, app
    <2> QED BY <2>1, <2>2, <2>3, <2>4, <2>5 DEF TypeOK
<1>3. ASSUME NEW how \in {"timeout", "disconnected"}, SendFails(how)
      PROVE  TypeOK'
    <2>1. /\ next_id' \in 0..MaxCalls
          /\ terminal' \in {"none", "timeout", "disconnected"}
          /\ sent' \in 0..next_id'
        BY <1>3, <1>0, Constants DEF SendFails, Usable, Returned, TypeOK, Revision
    <2>2. result' \in [how : Outcome, id : 0..MaxCalls, at : Revision]
        BY <1>3, Built DEF SendFails, Outcome
    <2>3. UNCHANGED <<place, elapsed, deadline, events, notifications, lost, out,
                      arrived, reported, watches, arming, armed, subscribed, answered,
                      toServer, toClient, serverUp, serving, request, frame, baseline,
                      observed, seen, slot, revision, publishing, asked, executed>>
        BY <1>3 DEF SendFails, Usable, Returned, clock, queues, marks, totals, client, network,
           server, app
    <2> QED BY <2>1, <2>2, <2>3 DEF TypeOK
<1>4. ASSUME Refuse
      PROVE  TypeOK'
    <2>1. /\ watches' \in 0..MaxWatches /\ next_id' \in 0..MaxCalls
          /\ sent' \in 0..next_id'
        BY <1>4, Numbers DEF Refuse, Returned
    <2>2. result' \in [how : Outcome, id : 0..MaxCalls, at : Revision]
        BY <1>4, Built DEF Refuse, Outcome
    <2>3. UNCHANGED <<place, terminal, elapsed, deadline, events, notifications, lost,
                      out, arrived, reported, arming, armed, subscribed, answered,
                      toServer, toClient, serverUp, serving, request, frame, baseline,
                      observed, seen, slot, revision, publishing, asked, executed>>
        BY <1>4 DEF Refuse, Returned, clock, queues, marks, totals, client, network, server, app
    <2> QED BY <2>1, <2>2, <2>3 DEF TypeOK
<1>5. ASSUME ReceiveAnswer
      PROVE  TypeOK'
    <2>0. Len(toClient) <= SocketCapacity /\ SocketCapacity \in Nat
        BY Constants DEF TypeOK
    <2>1. /\ answered' \in 0..MaxCalls /\ armed' \in Revision \union {NoArm}
          /\ place' \in {"idle", "exchange", "paint", "drain"}
        BY <1>5, <1>0, Constants DEF ReceiveAnswer, TakeFrame, Matches, TypeOK, Revision
    <2>2. toClient' \in Seq(Frame) /\ Len(toClient') <= SocketCapacity
        BY <1>5, <2>0, Heads DEF ReceiveAnswer, TakeFrame
    <2>3. result' \in [how : Outcome, id : 0..MaxCalls, at : Revision]
        BY <1>5, Constants, Heads DEF ReceiveAnswer, TakeFrame, Outcome
    <2>4. UNCHANGED <<next_id, sent, terminal, elapsed, deadline, events, notifications,
                      lost, out, arrived, reported, watches, arming, subscribed,
                      toServer, serverUp, serving, request, frame, baseline, observed,
                      seen, slot, revision, publishing, asked, executed>>
        BY <1>5 DEF ReceiveAnswer, TakeFrame, Matches, clock, queues, marks, totals, client,
           network, server, app
    <2> QED BY <2>1, <2>2, <2>3, <2>4 DEF TypeOK
<1>6. ASSUME ReceiveOther
      PROVE  TypeOK'
    <2>0. Len(toClient) <= SocketCapacity /\ SocketCapacity \in Nat
        BY Constants DEF TypeOK
    <2>1. /\ arrived' \in Nat /\ notifications' \in 0..MaxQueuedEvents
          /\ lost' \in Nat
        BY <1>6, Heads, Received DEF ReceiveOther, TakeFrame
    <2>2. toClient' \in Seq(Frame) /\ Len(toClient') <= SocketCapacity
        BY <1>6, <2>0, Heads DEF ReceiveOther, TakeFrame
    <2>3. events' \in Seq(Event) /\ Len(events') <= MaxQueuedEvents
        BY <1>6, Heads, Received DEF ReceiveOther, TakeFrame
    <2>4. UNCHANGED <<place, next_id, sent, terminal, elapsed, deadline, out, reported,
                      watches, result, arming, armed, subscribed, answered, toServer,
                      serverUp, serving, request, frame, baseline, observed, seen, slot,
                      revision, publishing, asked, executed>>
        BY <1>6 DEF ReceiveOther, TakeFrame, Matches, Notify, QueueEvent, Queued, clock, queues,
           marks, totals, client, network, server, app
    <2> QED BY <2>1, <2>2, <2>3, <2>4 DEF TypeOK
<1>7. ASSUME TakeQueuedPaint
      PROVE  TypeOK'
    <2>1. watches' \in 0..MaxWatches
        BY <1>7, <1>0, Constants DEF TakeQueuedPaint, Usable, Watch, Painted, TypeOK, Revision
    <2>2. events' \in Seq(Event) /\ Len(events') <= MaxQueuedEvents
        BY <1>7, Queues DEF TakeQueuedPaint
    <2>3. result' \in [how : Outcome, id : 0..MaxCalls, at : Revision]
        BY <1>7, Built, Heads DEF TakeQueuedPaint
    <2>4. UNCHANGED <<place, next_id, sent, terminal, elapsed, deadline, notifications,
                      lost, out, arrived, reported, arming, armed, subscribed, answered,
                      toServer, toClient, serverUp, serving, request, frame, baseline,
                      observed, seen, slot, revision, publishing, asked, executed>>
        BY <1>7 DEF TakeQueuedPaint, Usable, Watch, Painted, clock, queues, marks, totals, client,
           network, server, app
    <2> QED BY <2>1, <2>2, <2>3, <2>4 DEF TypeOK
<1>8. ASSUME WaitForPaint
      PROVE  TypeOK'
    <2>1. /\ place' \in {"idle", "exchange", "paint", "drain"}
          /\ watches' \in 0..MaxWatches /\ elapsed' \in Nat /\ deadline' \in Nat
        BY <1>8, Numbers DEF WaitForPaint, Usable, Watch, StartClock
    <2>2. UNCHANGED <<next_id, sent, terminal, events, notifications, lost, out, arrived,
                      reported, result, arming, armed, subscribed, answered, toServer,
                      toClient, serverUp, serving, request, frame, baseline, observed,
                      seen, slot, revision, publishing, asked, executed>>
        BY <1>8 DEF WaitForPaint, Usable, Watch, StartClock, clock, queues, marks, totals, client,
           network, server, app
    <2> QED BY <2>1, <2>2 DEF TypeOK
<1>9. ASSUME ReceiveWhileWaiting
      PROVE  TypeOK'
    <2>0. Len(toClient) <= SocketCapacity /\ SocketCapacity \in Nat
        BY Constants DEF TypeOK
    <2>1. /\ arrived' \in Nat /\ notifications' \in 0..MaxQueuedEvents
          /\ lost' \in Nat /\ place' \in {"idle", "exchange", "paint", "drain"}
        BY <1>9, Heads, Received DEF ReceiveWhileWaiting, TakeFrame
    <2>2. toClient' \in Seq(Frame) /\ Len(toClient') <= SocketCapacity
        BY <1>9, <2>0, Heads DEF ReceiveWhileWaiting, TakeFrame
    <2>3. events' \in Seq(Event) /\ Len(events') <= MaxQueuedEvents
        <3>1. events' = events \/ QueueEvent(Head(toClient))
            BY <1>9 DEF ReceiveWhileWaiting
        <3>2. events \in Seq(Event) /\ Len(events) <= MaxQueuedEvents
            BY DEF TypeOK
        <3> QED BY <1>9, <3>1, <3>2, Heads, Received DEF ReceiveWhileWaiting, TakeFrame
    <2>4. result' \in [how : Outcome, id : 0..MaxCalls, at : Revision]
        <3>1. result' = result \/ result' = Painted(Head(toClient).event)
            BY <1>9 DEF ReceiveWhileWaiting
        <3>2. Head(toClient).event \in Event
            BY <1>9, Heads DEF ReceiveWhileWaiting, TakeFrame
        <3> QED BY <3>1, <3>2, Built DEF TypeOK
    <2>5. UNCHANGED <<next_id, sent, terminal, elapsed, deadline, out, reported, watches,
                      arming, armed, subscribed, answered, toServer, serverUp, serving,
                      request, frame, baseline, observed, seen, slot, revision,
                      publishing, asked, executed>>
        BY <1>9 DEF ReceiveWhileWaiting, TakeFrame, Notify, QueueEvent, Queued, Painted, IsPaint,
           clock, queues, marks, totals, client, network, server, app
    <2> QED BY <2>1, <2>2, <2>3, <2>4, <2>5 DEF TypeOK
<1>10. ASSUME Drain
      PROVE  TypeOK'
    <2>1. /\ watches' \in 0..MaxWatches /\ out' \in Nat
          /\ notifications' \in 0..MaxQueuedEvents /\ lost' \in Nat
          /\ place' \in {"idle", "exchange", "paint", "drain"} /\ elapsed' \in Nat
          /\ deadline' \in Nat
        BY <1>10, Numbers DEF Drain, Usable, Watch, StartClock
    <2>2. UNCHANGED <<next_id, sent, terminal, events, arrived, reported, result, arming,
                      armed, subscribed, answered, toServer, toClient, serverUp, serving,
                      request, frame, baseline, observed, seen, slot, revision,
                      publishing, asked, executed>>
        BY <1>10 DEF Drain, Usable, Watch, StartClock, clock, queues, marks, totals, client,
           network, server, app
    <2> QED BY <2>1, <2>2 DEF TypeOK
<1>11. ASSUME ReceiveWhileDraining
      PROVE  TypeOK'
    <2>0. Len(toClient) <= SocketCapacity /\ SocketCapacity \in Nat
        BY Constants DEF TypeOK
    <2>1. out' \in Nat /\ arrived' \in Nat
        <3>1. (out' = out + 1 /\ arrived' = arrived + 1) \/ UNCHANGED <<out, arrived>>
            BY <1>11 DEF ReceiveWhileDraining
        <3>2. out \in Nat /\ arrived \in Nat
            BY Numbers
        <3> QED BY <3>1, <3>2
    <2>2. toClient' \in Seq(Frame) /\ Len(toClient') <= SocketCapacity
        BY <1>11, <2>0, Heads DEF ReceiveWhileDraining, TakeFrame
    <2>3. UNCHANGED <<place, next_id, sent, terminal, elapsed, deadline, events,
                      notifications, lost, reported, watches, result, arming, armed,
                      subscribed, answered, toServer, serverUp, serving, request, frame,
                      baseline, observed, seen, slot, revision, publishing, asked,
                      executed>>
        BY <1>11 DEF ReceiveWhileDraining, TakeFrame, clock, queues, marks, totals, client,
           network, server, app
    <2> QED BY <2>1, <2>2, <2>3 DEF TypeOK
<1>12. ASSUME Tick
      PROVE  TypeOK'
    <2>1. elapsed' \in Nat
        BY <1>12, <1>0, Constants DEF Tick, TypeOK, Revision
    <2>2. UNCHANGED <<place, next_id, sent, terminal, deadline, events, notifications,
                      lost, out, arrived, reported, watches, result, arming, armed,
                      subscribed, answered, toServer, toClient, serverUp, serving,
                      request, frame, baseline, observed, seen, slot, revision,
                      publishing, asked, executed>>
        BY <1>12 DEF Tick, clock, queues, marks, totals, client, network, server, app
    <2> QED BY <2>1, <2>2 DEF TypeOK
<1>13. ASSUME ExchangeTimesOut
      PROVE  TypeOK'
    <2>1. /\ place' \in {"idle", "exchange", "paint", "drain"}
          /\ terminal' \in {"none", "timeout", "disconnected"}
        BY <1>13, <1>0, Constants DEF ExchangeTimesOut, Late, Returned, TypeOK, Revision
    <2>2. result' \in [how : Outcome, id : 0..MaxCalls, at : Revision]
        BY <1>13, Built DEF ExchangeTimesOut, Outcome
    <2>3. UNCHANGED <<next_id, sent, elapsed, deadline, events, notifications, lost, out,
                      arrived, reported, watches, arming, armed, subscribed, answered,
                      toServer, toClient, serverUp, serving, request, frame, baseline,
                      observed, seen, slot, revision, publishing, asked, executed>>
        BY <1>13 DEF ExchangeTimesOut, Late, Returned, clock, queues, marks, totals, client,
           network, server, app
    <2> QED BY <2>1, <2>2, <2>3 DEF TypeOK
<1>14. ASSUME WatchEnds
      PROVE  TypeOK'
    <2>1. /\ place' \in {"idle", "exchange", "paint", "drain"} /\ reported' \in Nat
          /\ out' \in Nat
        <3>1. place' = "idle" /\ reported' = reported + out /\ out' = 0
            BY <1>14 DEF WatchEnds
        <3> QED BY <3>1, Numbers
    <2>2. result' \in [how : Outcome, id : 0..MaxCalls, at : Revision]
        BY <1>14, Built DEF WatchEnds, Outcome
    <2>3. UNCHANGED <<next_id, sent, terminal, elapsed, deadline, events, notifications,
                      lost, arrived, watches, arming, armed, subscribed, answered,
                      toServer, toClient, serverUp, serving, request, frame, baseline,
                      observed, seen, slot, revision, publishing, asked, executed>>
        BY <1>14 DEF WatchEnds, Late, Returned, clock, queues, marks, totals, client, network,
           server, app
    <2> QED BY <2>1, <2>2, <2>3 DEF TypeOK
<1>15. ASSUME EndOfStream
      PROVE  TypeOK'
    <2>1. /\ place' \in {"idle", "exchange", "paint", "drain"}
          /\ terminal' \in {"none", "timeout", "disconnected"} /\ out' \in Nat
        BY <1>15, <1>0, Constants DEF EndOfStream, Returned, TypeOK, Revision
    <2>2. result' \in [how : Outcome, id : 0..MaxCalls, at : Revision]
        BY <1>15, Built DEF EndOfStream, Outcome
    <2>3. UNCHANGED <<next_id, sent, elapsed, deadline, events, notifications, lost,
                      arrived, reported, watches, arming, armed, subscribed, answered,
                      toServer, toClient, serverUp, serving, request, frame, baseline,
                      observed, seen, slot, revision, publishing, asked, executed>>
        BY <1>15 DEF EndOfStream, Returned, clock, queues, marks, totals, client, network, server,
           app
    <2> QED BY <2>1, <2>2, <2>3 DEF TypeOK
<1>16. ASSUME TakeMessage
      PROVE  TypeOK'
    <2>1. /\ baseline' \in Revision
          /\ serving' \in {"select", "bridge", "direct", "reply", "push", "gone"}
          /\ asked' \in 0..MaxCalls
        BY <1>16, <1>0, Heads, Constants DEF TakeMessage, TypeOK
    <2>2. request' \in Request
        BY <1>16, Heads DEF TakeMessage
    <2>3. toServer' \in Seq(Request)
        BY <1>16, Heads DEF TakeMessage
    <2>4. UNCHANGED <<place, next_id, sent, terminal, elapsed, deadline, events,
                      notifications, lost, out, arrived, reported, watches, result,
                      arming, armed, subscribed, answered, toClient, serverUp, frame,
                      observed, seen, slot, revision, publishing, executed>>
        BY <1>16 DEF TakeMessage, clock, queues, marks, totals, client, network, server, app
    <2> QED BY <2>1, <2>2, <2>3, <2>4 DEF TypeOK
<1>17. ASSUME AnswerDirectly
      PROVE  TypeOK'
    <2>0. request.id \in 0..MaxCalls
        BY DEF Request, TypeOK
    <2>1. /\ serving' \in {"select", "bridge", "direct", "reply", "push", "gone"}
          /\ executed' \in 0..MaxCalls
        BY <1>17, <2>0 DEF AnswerDirectly, Conclude
    <2>2. observed' \in SUBSET Kinds
        BY <1>17, <1>0, Constants DEF AnswerDirectly, Conclude, Reply, TypeOK, Revision, Request,
           Command
    <2>3. seen' \in Revision
        BY <1>17, <1>0, Constants DEF AnswerDirectly, Conclude, Reply, TypeOK, Revision
    <2>4. frame' \in Frame
        BY <1>17, <2>0, Built DEF AnswerDirectly, Conclude
    <2>5. request' \in Request
        BY <1>17, Constants DEF AnswerDirectly, Conclude
    <2>6. UNCHANGED <<place, next_id, sent, terminal, elapsed, deadline, events,
                      notifications, lost, out, arrived, reported, watches, result,
                      arming, armed, subscribed, answered, toServer, toClient, serverUp,
                      baseline, slot, revision, publishing, asked>>
        BY <1>17 DEF AnswerDirectly, Conclude, Reply, clock, queues, marks, totals, client,
           network, server, app
    <2> QED BY <2>1, <2>2, <2>3, <2>4, <2>5, <2>6 DEF TypeOK
<1>18. ASSUME Execute
      PROVE  TypeOK'
    <2>1. executed' \in 0..MaxCalls /\ asked' \in 0..MaxCalls
        BY <1>18, <1>0, Constants DEF Execute, TypeOK, Revision
    <2>2. UNCHANGED <<place, next_id, sent, terminal, elapsed, deadline, events,
                      notifications, lost, out, arrived, reported, watches, result,
                      arming, armed, subscribed, answered, toServer, toClient, serverUp,
                      serving, request, frame, baseline, observed, seen, slot, revision,
                      publishing>>
        BY <1>18 DEF Execute, clock, queues, marks, totals, client, network, server, app
    <2> QED BY <2>1, <2>2 DEF TypeOK
<1>19. ASSUME NEW ok \in BOOLEAN, AnswerBridged(ok)
      PROVE  TypeOK'
    <2>0. request.id \in 0..MaxCalls
        BY DEF Request, TypeOK
    <2>1. serving' \in {"select", "bridge", "direct", "reply", "push", "gone"}
        BY <1>19, <1>0, Constants DEF AnswerBridged, Conclude, Reply, TypeOK, Revision
    <2>2. observed' \in SUBSET Kinds
        BY <1>19, <1>0, Constants DEF AnswerBridged, Conclude, Reply, TypeOK, Revision, Request,
           Command
    <2>3. seen' \in Revision
        BY <1>19, <1>0, Constants DEF AnswerBridged, Conclude, Reply, TypeOK, Revision
    <2>4. frame' \in Frame
        BY <1>19, <2>0, Built DEF AnswerBridged, Conclude
    <2>5. request' \in Request
        BY <1>19, Constants DEF AnswerBridged, Conclude
    <2>6. UNCHANGED <<place, next_id, sent, terminal, elapsed, deadline, events,
                      notifications, lost, out, arrived, reported, watches, result,
                      arming, armed, subscribed, answered, toServer, toClient, serverUp,
                      baseline, slot, revision, publishing, asked, executed>>
        BY <1>19 DEF AnswerBridged, Conclude, Reply, clock, queues, marks, totals, client,
           network, server, app
    <2> QED BY <2>1, <2>2, <2>3, <2>4, <2>5, <2>6 DEF TypeOK
<1>20. ASSUME BridgeClosed
      PROVE  TypeOK'
    <2>0. request.id \in 0..MaxCalls
        BY DEF Request, TypeOK
    <2>1. /\ serving' \in {"select", "bridge", "direct", "reply", "push", "gone"}
          /\ asked' \in 0..MaxCalls
        BY <1>20, <1>0, Constants DEF BridgeClosed, Conclude, Reply, TypeOK, Revision
    <2>2. observed' \in SUBSET Kinds
        BY <1>20, <1>0, Constants DEF BridgeClosed, Conclude, Reply, TypeOK, Revision, Request,
           Command
    <2>3. seen' \in Revision
        BY <1>20, <1>0, Constants DEF BridgeClosed, Conclude, Reply, TypeOK, Revision
    <2>4. frame' \in Frame
        BY <1>20, <2>0, Built DEF BridgeClosed, Conclude
    <2>5. request' \in Request
        BY <1>20, Constants DEF BridgeClosed, Conclude
    <2>6. UNCHANGED <<place, next_id, sent, terminal, elapsed, deadline, events,
                      notifications, lost, out, arrived, reported, watches, result,
                      arming, armed, subscribed, answered, toServer, toClient, serverUp,
                      baseline, slot, revision, publishing, executed>>
        BY <1>20 DEF BridgeClosed, Conclude, Reply, clock, queues, marks, totals, client, network,
           server, app
    <2> QED BY <2>1, <2>2, <2>3, <2>4, <2>5, <2>6 DEF TypeOK
<1>21. ASSUME TakeEvent
      PROVE  TypeOK'
    <2>1. serving' \in {"select", "bridge", "direct", "reply", "push", "gone"}
        BY <1>21, <1>0, Constants DEF TakeEvent, Notification, TypeOK, Revision
    <2>2. seen' \in Revision
        BY <1>21, <1>0, Constants DEF TakeEvent, Notification, TypeOK, Revision
    <2>3. frame' \in Frame
        <3>1. frame' = Notification(slot) \/ frame' = frame
            BY <1>21 DEF TakeEvent
        <3> QED BY <1>0, <3>1, Built DEF TypeOK
    <2>4. UNCHANGED <<place, next_id, sent, terminal, elapsed, deadline, events,
                      notifications, lost, out, arrived, reported, watches, result,
                      arming, armed, subscribed, answered, toServer, toClient, serverUp,
                      request, baseline, observed, slot, revision, publishing, asked,
                      executed>>
        BY <1>21 DEF TakeEvent, Notification, clock, queues, marks, totals, client, network,
           server, app
    <2> QED BY <2>1, <2>2, <2>3, <2>4 DEF TypeOK
<1>22. ASSUME SendFrame
      PROVE  TypeOK'
    <2>1. serving' \in {"select", "bridge", "direct", "reply", "push", "gone"}
        BY <1>22, <1>0, Constants DEF SendFrame, TypeOK, Revision
    <2>2. toClient' \in Seq(Frame) /\ Len(toClient') <= SocketCapacity
        BY <1>22, <1>0, Constants DEF SendFrame, TypeOK, Revision
    <2>3. frame' \in Frame
        BY <1>22, Constants DEF SendFrame
    <2>4. UNCHANGED <<place, next_id, sent, terminal, elapsed, deadline, events,
                      notifications, lost, out, arrived, reported, watches, result,
                      arming, armed, subscribed, answered, toServer, serverUp, request,
                      baseline, observed, seen, slot, revision, publishing, asked,
                      executed>>
        BY <1>22 DEF SendFrame, clock, queues, marks, totals, client, network, server, app
    <2> QED BY <2>1, <2>2, <2>3, <2>4 DEF TypeOK
<1>23. ASSUME HostGone
      PROVE  TypeOK'
    <2>1. /\ serverUp' \in BOOLEAN
          /\ serving' \in {"select", "bridge", "direct", "reply", "push", "gone"}
        BY <1>23, <1>0, Constants DEF HostGone, TypeOK, Revision
    <2>2. request' \in Request
        BY <1>23, Constants DEF HostGone
    <2>3. frame' \in Frame
        BY <1>23, Constants DEF HostGone
    <2>4. UNCHANGED <<place, next_id, sent, terminal, elapsed, deadline, events,
                      notifications, lost, out, arrived, reported, watches, result,
                      arming, armed, subscribed, answered, toServer, toClient, baseline,
                      observed, seen, slot, revision, publishing, asked, executed>>
        BY <1>23 DEF HostGone, clock, queues, marks, totals, client, network, server, app
    <2> QED BY <2>1, <2>2, <2>3, <2>4 DEF TypeOK
<1>24. ASSUME NEW kind \in Kinds, Store(kind)
      PROVE  TypeOK'
    <2>1. publishing' \in BOOLEAN
        BY <1>24, <1>0, Constants DEF Store, TypeOK, Revision
    <2>2. slot' \in Event
        BY <1>24, <1>0, Constants DEF Store, TypeOK, Revision, Event
    <2>3. UNCHANGED <<place, next_id, sent, terminal, elapsed, deadline, events,
                      notifications, lost, out, arrived, reported, watches, result,
                      arming, armed, subscribed, answered, toServer, toClient, serverUp,
                      serving, request, frame, baseline, observed, seen, revision, asked,
                      executed>>
        BY <1>24 DEF Store, clock, queues, marks, totals, client, network, server, app
    <2> QED BY <2>1, <2>2, <2>3 DEF TypeOK
<1>25. ASSUME Bump
      PROVE  TypeOK'
    <2>1. revision' \in Revision /\ publishing' \in BOOLEAN
        <3>1. revision' = revision + 1 /\ publishing' = FALSE /\ revision < MaxPublications
            BY <1>0, <1>25 DEF Bump
        <3>2. revision \in Nat /\ MaxPublications \in Nat
            BY Numbers
        <3>3. revision' \in Nat /\ revision' <= MaxPublications
            BY <3>1, <3>2
        <3>4. revision' \in Revision
            BY <3>2, <3>3 DEF Revision
        <3>5. publishing' \in BOOLEAN
            BY <3>1
        <3> QED BY <3>4, <3>5
    <2>2. UNCHANGED <<place, next_id, sent, terminal, elapsed, deadline, events,
                      notifications, lost, out, arrived, reported, watches, result,
                      arming, armed, subscribed, answered, toServer, toClient, serverUp,
                      serving, request, frame, baseline, observed, seen, slot, asked,
                      executed>>
        BY <1>25 DEF Bump, clock, queues, marks, totals, client, network, server, app
    <2> QED BY <2>1, <2>2 DEF TypeOK
<1> QED BY <1>1, <1>2, <1>3, <1>4, <1>5, <1>6, <1>7, <1>8, <1>9, <1>10, <1>11, <1>12,
           <1>13, <1>14, <1>15, <1>16, <1>17, <1>18, <1>19, <1>20, <1>21, <1>22, <1>23,
           <1>24, <1>25
           DEF Next, Client, Server, App, Receive, GiveUp

-----------------------------------------------------------------------------
(* The call under way.                                                     *)

\* Taking a frame leaves the others, and no reply if it was one.
LEMMA Taken ==
    ASSUME TypeOK, TakeFrame
    PROVE  /\ \E k \in DOMAIN toClient : Head(toClient) = toClient[k]
           /\ \A k \in DOMAIN toClient' : \E l \in DOMAIN toClient : toClient'[k] = toClient[l]
           /\ NoReply => NoReply'
           /\ OneCall /\ Head(toClient).type = "reply" => NoReply'
           /\ OneCall => \A k, l \in DOMAIN toClient' :
                toClient'[k].type = "reply" /\ toClient'[l].type = "reply" => l = k
<1>1. /\ toClient \in Seq(Frame) /\ Len(toClient) \in Nat /\ Len(toClient) > 0
      /\ DOMAIN toClient = 1..Len(toClient) /\ Head(toClient) = toClient[1]
    BY DEF TypeOK, TakeFrame
<1>2. /\ DOMAIN toClient' = 1..(Len(toClient) - 1)
      /\ \A k \in 1..(Len(toClient) - 1) : toClient'[k] = toClient[k + 1]
    BY <1>1 DEF TakeFrame
<1>3. \A k \in DOMAIN toClient' : k + 1 \in DOMAIN toClient /\ k + 1 # 1 /\ 1 \in DOMAIN toClient
                                  /\ k \in Int
    BY <1>1, <1>2
<1>4. OneCall => \A k, l \in DOMAIN toClient :
        toClient[k].type = "reply" /\ toClient[l].type = "reply" => l = k
    BY DEF OneCall
<1>5. NoReply => NoReply'
    BY <1>2, <1>3 DEF NoReply
<1>6. OneCall /\ Head(toClient).type = "reply" => NoReply'
    BY <1>1, <1>2, <1>3, <1>4 DEF NoReply
<1>7. OneCall => \A k, l \in DOMAIN toClient' :
        toClient'[k].type = "reply" /\ toClient'[l].type = "reply" => l = k
    <2> SUFFICES ASSUME OneCall, NEW k \in DOMAIN toClient', NEW l \in DOMAIN toClient',
                        toClient'[k].type = "reply", toClient'[l].type = "reply"
                 PROVE  l = k
        OBVIOUS
    <2>1. l + 1 = k + 1
        BY <1>2, <1>3, <1>4
    <2> QED BY <1>3, <2>1
<1>8. 1 \in DOMAIN toClient
    BY <1>1
<1> QED BY <1>1, <1>2, <1>3, <1>5, <1>6, <1>7, <1>8

\* Sending a frame adds it to the others.
LEMMA Sent ==
    ASSUME TypeOK, SendFrame
    PROVE  /\ \A k \in DOMAIN toClient' :
                toClient'[k] = frame \/ \E l \in DOMAIN toClient : toClient'[k] = toClient[l]
           /\ NoReply => \A k, l \in DOMAIN toClient' :
                toClient'[k].type = "reply" /\ toClient'[l].type = "reply" => l = k
           /\ NoReply /\ frame.type # "reply" => NoReply'
           /\ OneCall /\ frame.type # "reply" => \A k, l \in DOMAIN toClient' :
                toClient'[k].type = "reply" /\ toClient'[l].type = "reply" => l = k
<1>1. /\ toClient \in Seq(Frame) /\ Len(toClient) \in Nat /\ frame \in Frame
      /\ DOMAIN toClient = 1..Len(toClient) /\ toClient' = Append(toClient, frame)
    BY DEF TypeOK, SendFrame
<1>2. /\ DOMAIN toClient' = 1..(Len(toClient) + 1)
      /\ \A k \in DOMAIN toClient' :
           IF k = Len(toClient) + 1 THEN toClient'[k] = frame
           ELSE k \in DOMAIN toClient /\ toClient'[k] = toClient[k]
    BY <1>1
<1>3. OneCall => \A k, l \in DOMAIN toClient :
        toClient[k].type = "reply" /\ toClient[l].type = "reply" => l = k
    BY DEF OneCall
<1> HIDE <1>1
<1>4. NoReply => \A k \in DOMAIN toClient' :
        toClient'[k].type = "reply" => k = Len(toClient) + 1
    BY <1>2 DEF NoReply
<1>5. NoReply /\ frame.type # "reply" => NoReply'
    BY <1>2 DEF NoReply
<1>6. OneCall /\ frame.type # "reply" => \A k, l \in DOMAIN toClient' :
        toClient'[k].type = "reply" /\ toClient'[l].type = "reply" => l = k
    BY <1>2, <1>3
<1> QED BY <1>2, <1>4, <1>5, <1>6

LEMMA OneCallStep == ASSUME TypeOK, OneCall, Fresh, Next PROVE OneCall'
<1> USE DEF clock, queues, marks, totals, client, network, server, app
<1>0. /\ next_id \in Nat /\ sent \in Nat /\ executed \in Nat /\ asked \in Nat
      /\ Len(toServer) \in Nat /\ toServer \in Seq(Request)
    BY DEF TypeOK
<1>1. ASSUME NEW command \in Commands, Call(command)
      PROVE  OneCall'
    BY <1>0, <1>1 DEF Call, Send, Usable, OneCall, NoReply, Handling
<1>2. ASSUME NEW bridged \in BOOLEAN, Arm(bridged)
      PROVE  OneCall'
    BY <1>0, <1>2 DEF Arm, Send, Usable, OneCall, NoReply, Handling
<1>3. ASSUME NEW how \in {"timeout", "disconnected"}, SendFails(how)
      PROVE  OneCall'
    BY <1>0, <1>3 DEF SendFails, Usable, OneCall, NoReply, Handling
<1>4. ASSUME Refuse
      PROVE  OneCall'
    BY <1>0, <1>4 DEF Refuse, OneCall, NoReply, Handling
<1>5. ASSUME ReceiveAnswer
      PROVE  OneCall'
    BY <1>0, <1>5, Taken DEF ReceiveAnswer, TakeFrame, Matches, OneCall, NoReply, Handling
<1>6. ASSUME ReceiveOther
      PROVE  OneCall'
    BY <1>0, <1>6, Taken DEF ReceiveOther, TakeFrame, Matches, OneCall, NoReply, Handling
<1>7. ASSUME TakeQueuedPaint
      PROVE  OneCall'
    BY <1>0, <1>7 DEF TakeQueuedPaint, OneCall, NoReply, Handling
<1>8. ASSUME WaitForPaint
      PROVE  OneCall'
    BY <1>0, <1>8 DEF WaitForPaint, Usable, OneCall, NoReply, Handling
<1>9. ASSUME ReceiveWhileWaiting
      PROVE  OneCall'
    BY <1>0, <1>9, Taken DEF ReceiveWhileWaiting, TakeFrame, OneCall, NoReply, Handling
<1>10. ASSUME Drain
      PROVE  OneCall'
    BY <1>0, <1>10 DEF Drain, Usable, OneCall, NoReply, Handling
<1>11. ASSUME ReceiveWhileDraining
      PROVE  OneCall'
    BY <1>0, <1>11, Taken DEF ReceiveWhileDraining, TakeFrame, OneCall, NoReply, Handling
<1>12. ASSUME Tick
      PROVE  OneCall'
    BY <1>0, <1>12 DEF Tick, OneCall, NoReply, Handling
<1>13. ASSUME ExchangeTimesOut
      PROVE  OneCall'
    BY <1>0, <1>13 DEF ExchangeTimesOut, OneCall, NoReply, Handling
<1>14. ASSUME WatchEnds
      PROVE  OneCall'
    BY <1>0, <1>14 DEF WatchEnds, OneCall, NoReply, Handling
<1>15. ASSUME EndOfStream
      PROVE  OneCall'
    BY <1>0, <1>15 DEF EndOfStream, OneCall, NoReply, Handling
<1>16. ASSUME TakeMessage
      PROVE  OneCall'
    BY <1>0, <1>16 DEF TakeMessage, OneCall, NoReply, Handling
<1>17. ASSUME AnswerDirectly
      PROVE  OneCall'
    BY <1>0, <1>17 DEF AnswerDirectly, Conclude, Reply, OneCall, NoReply, Handling
<1>18. ASSUME Execute
      PROVE  OneCall'
    BY <1>0, <1>18 DEF Execute, OneCall, NoReply, Handling
<1>19. ASSUME NEW ok \in BOOLEAN, AnswerBridged(ok)
      PROVE  OneCall'
    BY <1>0, <1>19 DEF AnswerBridged, Conclude, Reply, OneCall, NoReply, Handling
<1>20. ASSUME BridgeClosed
      PROVE  OneCall'
    BY <1>0, <1>20 DEF BridgeClosed, Conclude, Reply, OneCall, NoReply, Handling
<1>21. ASSUME TakeEvent
      PROVE  OneCall'
    BY <1>0, <1>21 DEF TakeEvent, OneCall, NoReply, Handling
<1>22. ASSUME SendFrame
      PROVE  OneCall'
    <2>1. /\ UNCHANGED <<executed, sent, terminal, place, next_id, toServer, asked, request>>
          /\ serving' = "select" /\ serving \in {"reply", "push"}
        BY <1>22 DEF SendFrame
    <2>2. \A k \in DOMAIN toClient' :
            toClient'[k] = frame \/ \E l \in DOMAIN toClient : toClient'[k] = toClient[l]
        BY <1>22, Sent
    <2>3. CASE serving = "reply"
        <3>1. /\ toServer = <<>> /\ NoReply /\ frame.id = sent /\ asked = 0
              /\ frame.ok => executed = sent
            BY <2>3 DEF OneCall
        <3>2. place = "exchange" \/ terminal # "none"
            BY <2>3 DEF OneCall
        <3>3. \A k \in DOMAIN toClient' : toClient'[k].type = "reply" =>
                /\ toClient'[k].id = sent /\ (toClient'[k].ok => executed = sent)
                /\ \A l \in DOMAIN toClient' : toClient'[l].type = "reply" => l = k
            BY <1>22, <2>2, <3>1, Sent DEF NoReply
        <3> QED BY <2>1, <3>1, <3>2, <3>3 DEF OneCall, Handling
    <2>4. CASE serving = "push"
        <3>1. frame.type # "reply"
            BY <2>4 DEF Fresh
        <3>2. \A k \in DOMAIN toClient' : toClient'[k].type = "reply" =>
                /\ toClient'[k].id = sent /\ asked = 0 /\ (toClient'[k].ok => executed = sent)
                /\ \A l \in DOMAIN toClient' : toClient'[l].type = "reply" => l = k
            BY <1>22, <2>2, <3>1, Sent DEF OneCall
        <3>3. NoReply => NoReply'
            BY <1>22, <3>1, Sent
        <3> QED BY <2>1, <3>2, <3>3 DEF OneCall, Handling
    <2> QED BY <2>1, <2>3, <2>4
<1>23. ASSUME HostGone
      PROVE  OneCall'
    BY <1>0, <1>23 DEF HostGone, NoRequest, NoFrame, OneCall, NoReply, Handling
<1>24. ASSUME NEW kind \in Kinds, Store(kind)
      PROVE  OneCall'
    BY <1>0, <1>24 DEF Store, OneCall, NoReply, Handling
<1>25. ASSUME Bump
      PROVE  OneCall'
    BY <1>0, <1>25 DEF Bump, OneCall, NoReply, Handling
<1> QED BY <1>1, <1>2, <1>3, <1>4, <1>5, <1>6, <1>7, <1>8, <1>9, <1>10, <1>11, <1>12,
           <1>13, <1>14, <1>15, <1>16, <1>17, <1>18, <1>19, <1>20, <1>21, <1>22, <1>23,
           <1>24, <1>25
           DEF Next, Client, Server, App, Receive, GiveUp

-----------------------------------------------------------------------------
(* What is on its way is new.                                              *)

LEMMA FreshStep == ASSUME TypeOK, Fresh, Next PROVE Fresh'
<1> USE DEF clock, queues, marks, totals, client, network, server, app
<1>0. /\ revision \in Int /\ baseline \in Int /\ seen \in Int /\ subscribed \in Int
      /\ NoArm = -1 /\ slot.at \in Int /\ revision >= 0
    BY Constants DEF TypeOK, Revision, NoArm, Event
<1>1. ASSUME NEW command \in Commands, Call(command)
      PROVE  Fresh'
    BY <1>0, <1>1 DEF Call, Send, ArmCommand, Fresh, FreshFrame, IsFresh
<1>2. ASSUME NEW bridged \in BOOLEAN, Arm(bridged)
      PROVE  Fresh'
    BY <1>0, <1>2, Queues, Heads DEF Arm, Send, ArmCommand, Fresh, FreshFrame, IsFresh
<1>3. ASSUME NEW how \in {"timeout", "disconnected"}, SendFails(how)
      PROVE  Fresh'
    BY <1>0, <1>3 DEF SendFails, Returned, Fresh, FreshFrame, IsFresh
<1>4. ASSUME Refuse
      PROVE  Fresh'
    BY <1>0, <1>4 DEF Refuse, Returned, Fresh, FreshFrame, IsFresh
<1>5. ASSUME ReceiveAnswer
      PROVE  Fresh'
    BY <1>0, <1>5, Taken DEF ReceiveAnswer, TakeFrame, Fresh, FreshFrame, IsFresh
<1>6. ASSUME ReceiveOther
      PROVE  Fresh'
    <2>1. /\ UNCHANGED <<subscribed, revision, baseline, seen, publishing, slot, frame, serving,
                      toServer, request, observed>>
          /\ TakeFrame
        BY <1>6 DEF ReceiveOther, TakeFrame
    <2>2. \A k \in DOMAIN toClient' : FreshFrame(toClient'[k])
        BY <2>1, Taken DEF Fresh
    <2>3. FreshFrame(Head(toClient)) /\ Head(toClient).event \in Event
        BY <2>1, Taken, Heads DEF Fresh, TakeFrame
    <2>4. \A i \in DOMAIN events : IsFresh(events[i].at)
        BY DEF Fresh
    <2>5. \A i \in DOMAIN events' : IsFresh(events'[i].at)
        <3>1. CASE events' = events
            BY <2>4, <3>1
        <3>2. CASE /\ Head(toClient).type = "event"
                   /\ events' = Queued(events, Head(toClient).event)
            <4>1. \A i \in DOMAIN events' : events'[i] = Head(toClient).event
                    \/ \E j \in DOMAIN events : events'[i] = events[j]
                BY <2>3, <3>2, Queues
            <4>2. IsFresh(Head(toClient).event.at)
                BY <2>3, <3>2 DEF FreshFrame
            <4> QED BY <2>4, <4>1, <4>2
        <3> QED BY <1>6, <3>1, <3>2 DEF ReceiveOther, QueueEvent
    <2>6. result'.how = "painted" => IsFresh(result'.at)
        BY <1>6 DEF ReceiveOther, Fresh
    <2> QED BY <2>1, <2>2, <2>5, <2>6 DEF Fresh, FreshFrame, IsFresh
<1>7. ASSUME TakeQueuedPaint
      PROVE  Fresh'
    BY <1>0, <1>7, Queues, Heads DEF TakeQueuedPaint, Painted, Fresh, FreshFrame, IsFresh
<1>8. ASSUME WaitForPaint
      PROVE  Fresh'
    BY <1>0, <1>8 DEF WaitForPaint, Fresh, FreshFrame, IsFresh
<1>9. ASSUME ReceiveWhileWaiting
      PROVE  Fresh'
    <2>1. /\ UNCHANGED <<subscribed, revision, baseline, seen, publishing, slot, frame, serving,
                      toServer, request, observed>>
          /\ TakeFrame
        BY <1>9 DEF ReceiveWhileWaiting, TakeFrame
    <2>2. \A k \in DOMAIN toClient' : FreshFrame(toClient'[k])
        BY <2>1, Taken DEF Fresh
    <2>3. FreshFrame(Head(toClient)) /\ Head(toClient).event \in Event
        BY <2>1, Taken, Heads DEF Fresh, TakeFrame
    <2>4. \A i \in DOMAIN events : IsFresh(events[i].at)
        BY DEF Fresh
    <2>5. \A i \in DOMAIN events' : IsFresh(events'[i].at)
        <3>1. CASE events' = events
            BY <2>4, <3>1
        <3>2. CASE /\ Head(toClient).type = "event"
                   /\ events' = Queued(events, Head(toClient).event)
            <4>1. \A i \in DOMAIN events' : events'[i] = Head(toClient).event
                    \/ \E j \in DOMAIN events : events'[i] = events[j]
                BY <2>3, <3>2, Queues
            <4>2. IsFresh(Head(toClient).event.at)
                BY <2>3, <3>2 DEF FreshFrame
            <4> QED BY <2>4, <4>1, <4>2
        <3> QED BY <1>9, <3>1, <3>2 DEF ReceiveWhileWaiting, QueueEvent
    <2>6. result'.how = "painted" => IsFresh(result'.at)
        <3>1. CASE result' = result
            BY <3>1 DEF Fresh
        <3>2. CASE IsPaint(Head(toClient).event) /\ result' = Painted(Head(toClient).event)
            <4>1. Head(toClient).type = "event"
                BY <2>3, <3>2 DEF FreshFrame, IsPaint, NoEvent
            <4> QED BY <2>3, <3>2, <4>1 DEF FreshFrame, Painted
        <3> QED BY <1>9, <3>1, <3>2 DEF ReceiveWhileWaiting
    <2> QED BY <2>1, <2>2, <2>5, <2>6 DEF Fresh, FreshFrame, IsFresh
<1>10. ASSUME Drain
      PROVE  Fresh'
    BY <1>0, <1>10 DEF Drain, Fresh, FreshFrame, IsFresh
<1>11. ASSUME ReceiveWhileDraining
      PROVE  Fresh'
    BY <1>0, <1>11, Taken DEF ReceiveWhileDraining, TakeFrame, Fresh, FreshFrame, IsFresh
<1>12. ASSUME Tick
      PROVE  Fresh'
    BY <1>0, <1>12 DEF Tick, Fresh, FreshFrame, IsFresh
<1>13. ASSUME ExchangeTimesOut
      PROVE  Fresh'
    BY <1>0, <1>13 DEF ExchangeTimesOut, Returned, Fresh, FreshFrame, IsFresh
<1>14. ASSUME WatchEnds
      PROVE  Fresh'
    BY <1>0, <1>14 DEF WatchEnds, Returned, Fresh, FreshFrame, IsFresh
<1>15. ASSUME EndOfStream
      PROVE  Fresh'
    BY <1>0, <1>15 DEF EndOfStream, Returned, Fresh, FreshFrame, IsFresh
<1>16. ASSUME TakeMessage
      PROVE  Fresh'
    BY <1>0, <1>16 DEF TakeMessage, Fresh, FreshFrame, IsFresh
<1>17. ASSUME AnswerDirectly
      PROVE  Fresh'
    BY <1>0, <1>17 DEF AnswerDirectly, Conclude, Reply, NoRequest, NoCall, Fresh, FreshFrame,
       IsFresh
<1>18. ASSUME Execute
      PROVE  Fresh'
    BY <1>0, <1>18 DEF Execute, Fresh, FreshFrame, IsFresh
<1>19. ASSUME NEW ok \in BOOLEAN, AnswerBridged(ok)
      PROVE  Fresh'
    BY <1>0, <1>19 DEF AnswerBridged, Conclude, Reply, NoRequest, NoCall, Fresh, FreshFrame,
       IsFresh
<1>20. ASSUME BridgeClosed
      PROVE  Fresh'
    BY <1>0, <1>20 DEF BridgeClosed, Conclude, Reply, NoRequest, NoCall, Fresh, FreshFrame,
       IsFresh
<1>21. ASSUME TakeEvent
      PROVE  Fresh'
    BY <1>0, <1>21 DEF TakeEvent, Notification, Fresh, FreshFrame, IsFresh
<1>22. ASSUME SendFrame
      PROVE  Fresh'
    BY <1>0, <1>22, Sent DEF SendFrame, NoFrame, Fresh, FreshFrame, IsFresh
<1>23. ASSUME HostGone
      PROVE  Fresh'
    BY <1>0, <1>23 DEF HostGone, NoRequest, NoFrame, NoCall, Fresh, FreshFrame, IsFresh
<1>24. ASSUME NEW kind \in Kinds, Store(kind)
      PROVE  Fresh'
    BY <1>0, <1>24 DEF Store, Fresh, FreshFrame, IsFresh
<1>25. ASSUME Bump
      PROVE  Fresh'
    BY <1>0, <1>25 DEF Bump, Fresh, FreshFrame, IsFresh
<1> QED BY <1>1, <1>2, <1>3, <1>4, <1>5, <1>6, <1>7, <1>8, <1>9, <1>10, <1>11, <1>12,
           <1>13, <1>14, <1>15, <1>16, <1>17, <1>18, <1>19, <1>20, <1>21, <1>22, <1>23,
           <1>24, <1>25
           DEF Next, Client, Server, App, Receive, GiveUp

-----------------------------------------------------------------------------
(* The notifications and the deadline.                                     *)

LEMMA AccountedStep == ASSUME TypeOK, Accounted, Next PROVE Accounted'
<1> USE DEF clock, queues, marks, totals, client, network, server, app
<1>0. /\ out \in Int /\ arrived \in Int /\ notifications \in Int /\ lost \in Int
      /\ reported \in Int
    BY Numbers
<1>1. ASSUME NEW command \in Commands, Call(command)
      PROVE  Accounted'
    BY <1>0, <1>1 DEF Call, Send, Usable, Accounted, NotificationsAccounted
<1>2. ASSUME NEW bridged \in BOOLEAN, Arm(bridged)
      PROVE  Accounted'
    BY <1>0, <1>2 DEF Arm, Send, Usable, Accounted, NotificationsAccounted
<1>3. ASSUME NEW how \in {"timeout", "disconnected"}, SendFails(how)
      PROVE  Accounted'
    BY <1>0, <1>3 DEF SendFails, Accounted, NotificationsAccounted
<1>4. ASSUME ReceiveAnswer
      PROVE  Accounted'
    BY <1>0, <1>4 DEF ReceiveAnswer, Accounted, NotificationsAccounted
<1>5. ASSUME ReceiveOther
      PROVE  Accounted'
    BY <1>0, <1>5 DEF ReceiveOther, Notify, Accounted, NotificationsAccounted
<1>6. ASSUME WaitForPaint
      PROVE  Accounted'
    BY <1>0, <1>6 DEF WaitForPaint, Usable, Accounted, NotificationsAccounted
<1>7. ASSUME ReceiveWhileWaiting
      PROVE  Accounted'
    BY <1>0, <1>7 DEF ReceiveWhileWaiting, Notify, Accounted, NotificationsAccounted
<1>8. ASSUME Drain
      PROVE  Accounted'
    BY <1>0, <1>8 DEF Drain, Usable, Accounted, NotificationsAccounted
<1>9. ASSUME ReceiveWhileDraining
      PROVE  Accounted'
    BY <1>0, <1>9 DEF ReceiveWhileDraining, Accounted, NotificationsAccounted
<1>10. ASSUME ExchangeTimesOut
      PROVE  Accounted'
    BY <1>0, <1>10 DEF ExchangeTimesOut, Accounted, NotificationsAccounted
<1>11. ASSUME WatchEnds
      PROVE  Accounted'
    <2>1. /\ place' = "idle" /\ reported' = reported + out /\ out' = 0
          /\ UNCHANGED <<terminal, arrived, notifications, lost>>
        BY <1>11 DEF WatchEnds
    <2> QED BY <1>0, <2>1 DEF Accounted, NotificationsAccounted
<1>12. ASSUME EndOfStream
      PROVE  Accounted'
    BY <1>0, <1>12 DEF EndOfStream, Accounted, NotificationsAccounted
<1>13. CASE \/ Refuse \/ TakeQueuedPaint \/ Tick \/ TakeMessage \/ AnswerDirectly
            \/ Execute \/ (\E ok \in BOOLEAN : AnswerBridged(ok)) \/ BridgeClosed
            \/ TakeEvent \/ SendFrame \/ HostGone \/ (\E kind \in Kinds : Store(kind))
            \/ Bump
    BY <1>13 DEF Refuse, TakeQueuedPaint, Tick, TakeMessage, AnswerDirectly, Execute,
       AnswerBridged, BridgeClosed, TakeEvent, SendFrame, HostGone, Store, Bump,
       Conclude, Accounted, NotificationsAccounted, TakeFrame, Watch
<1> QED BY <1>1, <1>2, <1>3, <1>4, <1>5, <1>6, <1>7, <1>8, <1>9, <1>10, <1>11, <1>12,
           <1>13
           DEF Next, Client, Server, App, Receive, GiveUp

LEMMA TimedStep == ASSUME TypeOK, Timed, Next PROVE Timed'
<1> USE DEF clock, queues, marks, totals, client, network, server, app
<1>0. elapsed \in Nat /\ deadline \in Nat /\ Timeout \in Nat
    BY Numbers DEF TypeOK
<1>1. Tick => Timed'
    BY <1>0 DEF Tick, Timed
<1>2. ASSUME StartClock
      PROVE  Timed'
    BY <1>0, <1>2 DEF StartClock, Timed
<1>3. (\E command \in Commands : Call(command)) \/ (\E bridged \in BOOLEAN : Arm(bridged))
        \/ WaitForPaint \/ Drain => StartClock
    BY DEF Call, Arm, Send, WaitForPaint, Drain
<1>4. CASE UNCHANGED clock
    BY <1>4 DEF Timed
<1>5. (\E how \in {"timeout", "disconnected"} : SendFails(how)) \/ Refuse
        \/ ReceiveAnswer \/ ReceiveOther \/ TakeQueuedPaint \/ ReceiveWhileWaiting
        \/ ReceiveWhileDraining \/ ExchangeTimesOut \/ WatchEnds \/ EndOfStream
        \/ TakeMessage \/ AnswerDirectly \/ Execute
        \/ (\E ok \in BOOLEAN : AnswerBridged(ok)) \/ BridgeClosed \/ TakeEvent
        \/ SendFrame \/ HostGone \/ (\E kind \in Kinds : Store(kind)) \/ Bump
        => UNCHANGED clock
    BY DEF SendFails, Refuse, ReceiveAnswer, ReceiveOther, TakeQueuedPaint,
           ReceiveWhileWaiting, ReceiveWhileDraining, ExchangeTimesOut, WatchEnds,
           EndOfStream, TakeMessage, AnswerDirectly, Execute, AnswerBridged,
           BridgeClosed, TakeEvent, SendFrame, HostGone, Store, Bump, Conclude
<1> QED BY <1>1, <1>2, <1>3, <1>4, <1>5 DEF Next, Client, Server, App, Receive, GiveUp

-----------------------------------------------------------------------------
(* The theorems.                                                           *)

LEMMA InitInv == Init => SessionInv
<1> SUFFICES ASSUME Init  PROVE SessionInv
    OBVIOUS
<1>1. TypeOK
    <2>1. /\ events \in Seq(Event) /\ Len(events) = 0 /\ toServer \in Seq(Request)
          /\ toClient \in Seq(Frame) /\ Len(toClient) = 0
        BY DEF Init
    <2>2. result \in [how : Outcome, id : 0..MaxCalls, at : Revision]
        BY Built DEF Init, Outcome
    <2>3. /\ {lost, out, arrived, reported} \subseteq Nat
          /\ {arming, armed, subscribed} \subseteq Revision \union {NoArm}
        BY DEF Init
    <2>4. /\ request \in Request /\ frame \in Frame /\ slot \in Event
          /\ baseline \in Revision /\ seen \in Revision /\ revision \in Revision
        BY Constants DEF Init
    <2>5. /\ next_id \in 0..MaxCalls /\ sent \in 0..next_id /\ elapsed \in Nat /\ deadline \in Nat
          /\ notifications \in 0..MaxQueuedEvents /\ watches \in 0..MaxWatches
          /\ answered \in 0..MaxCalls /\ asked \in 0..MaxCalls /\ executed \in 0..MaxCalls
        BY Constants DEF Init
    <2>6. Len(events) <= MaxQueuedEvents /\ Len(toClient) <= SocketCapacity
        BY <2>1, Constants
    <2>7. serverUp \in BOOLEAN /\ publishing \in BOOLEAN
        BY DEF Init
    <2> QED BY <2>1, <2>2, <2>3, <2>4, <2>5, <2>6, <2>7 DEF Init, TypeOK
<1>2. OneCall
    BY DEF Init, OneCall, NoReply, Handling
<1>3. Fresh
    BY Constants DEF Init, Fresh, FreshFrame, NoArm, NoEvent, NoFrame, NoRequest, NoCall,
       Returned
<1>4. Accounted /\ Timed
    BY Constants DEF Init, Accounted, NotificationsAccounted, Timed
<1> QED BY <1>1, <1>2, <1>3, <1>4 DEF SessionInv

LEMMA NextInv == SessionInv /\ [Next]_vars => SessionInv'
<1> SUFFICES ASSUME SessionInv, [Next]_vars  PROVE SessionInv'
    OBVIOUS
<1>1. CASE Next
    BY <1>1, TypesStep, OneCallStep, FreshStep, AccountedStep, TimedStep DEF SessionInv
<1>2. CASE UNCHANGED vars
    <2> USE <1>2 DEF vars, clock, queues, marks, totals, client, network, server, app
    <2>1. TypeOK'
        BY DEF SessionInv, TypeOK
    <2>2. OneCall' /\ Fresh'
        BY DEF SessionInv, OneCall, NoReply, Fresh, FreshFrame, IsFresh
    <2>3. Accounted' /\ Timed'
        BY DEF SessionInv, Accounted, NotificationsAccounted, Timed
    <2> QED BY <2>1, <2>2, <2>3 DEF SessionInv
<1> QED BY <1>1, <1>2

THEOREM Invariance == Spec => []SessionInv
BY InitInv, NextInv, PTL DEF Spec

(* Nothing the server sends stretches a queue or an exchange               *)
(* (client.rs:495, 612).                                                   *)
THEOREM BoundsKept == Spec => []BoundsHold
<1>1. SessionInv => BoundsHold
    <2>1. SessionInv => elapsed \in Nat /\ deadline \in Nat /\ Timeout \in Nat
        BY Numbers DEF SessionInv, TypeOK
    <2>2. SessionInv => elapsed <= Timeout
        BY <2>1 DEF SessionInv, Timed
    <2> QED BY <2>2 DEF SessionInv, BoundsHold, DeadlineHonoured
<1> QED BY <1>1, Invariance, PTL

(* Every notification taken off a working connection is queued, collected  *)
(* or reported (client.rs:467, 793).                                       *)
THEOREM NothingUncounted == Spec => []NotificationsAccounted
<1>1. SessionInv => NotificationsAccounted
    BY DEF SessionInv, Accounted
<1> QED BY <1>1, Invariance, PTL

(* A paint a tool is told of was published after it first subscribed       *)
(* (server.rs:394-411).                                                    *)
THEOREM PaintsAreNew == Spec => []PaintFollowsSubscription
<1>1. SessionInv => PaintFollowsSubscription
    BY DEF SessionInv, Fresh, IsFresh, PaintFollowsSubscription
<1> QED BY <1>1, Invariance, PTL

(* A stored failure is final: what the tool asks from then on is refused   *)
(* with it, unsent (client.rs:559).                                        *)
THEOREM FailuresAreFinal == Spec => FailureIsFinal
<1> DEFINE Final == terminal # "none" =>
              /\ terminal' = terminal
              /\ result' = result \/ result'.how = "error"
              /\ Len(toServer') <= Len(toServer)
<1>1. SessionInv /\ [Next]_vars => [Final]_vars
    <2> SUFFICES ASSUME SessionInv, Next, terminal # "none"
                 PROVE  Final
        OBVIOUS
    <2> USE DEF clock, queues, marks, totals, client, network, server, app
    <2>1. place = "idle"
        BY DEF SessionInv, OneCall
    <2>2. Len(toServer) \in Nat /\ toServer \in Seq(Request)
        BY DEF SessionInv, TypeOK
    <2>3. toServer # <<>> => Len(Tail(toServer)) <= Len(toServer)
        BY <2>2
    <2>4. CASE UNCHANGED <<terminal, result, toServer>>
        BY <2>2, <2>4
    <2>5. CASE Refuse
        BY <2>2, <2>5 DEF Refuse, Returned
    <2>6. CASE TakeMessage
        BY <2>3, <2>6 DEF TakeMessage
    <2>7. ~Client \/ Refuse
        BY <2>1 DEF Client, Call, Arm, Usable, SendFails, TakeQueuedPaint, WaitForPaint, Drain,
           Receive, ReceiveAnswer, ReceiveOther, ReceiveWhileWaiting, ReceiveWhileDraining,
           Tick, GiveUp, ExchangeTimesOut, WatchEnds, EndOfStream, Late
    <2>8. Server => TakeMessage \/ UNCHANGED <<terminal, result, toServer>>
        BY DEF Server, AnswerDirectly, AnswerBridged, BridgeClosed, Conclude, TakeEvent, SendFrame
    <2>9. App \/ HostGone => UNCHANGED <<terminal, result, toServer>>
        BY DEF App, Execute, Bump, Store, HostGone
    <2> QED BY <2>4, <2>5, <2>6, <2>7, <2>8, <2>9 DEF Next
<1> QED BY <1>1, Invariance, PTL DEF Spec, FailureIsFinal

(* The connection makes the promises of ControlCall: each call is carried  *)
(* out at most once, in order, and before its successful answer.           *)
THEOREM Refinement == Spec => ImplementsControlCall
<1>1. Init => ControlCall!Init
    BY DEF Init, ControlCall!Init
<1>2. SessionInv /\ [Next]_vars => [ControlCall!Next]_(ControlCall!vars)
    <2> SUFFICES ASSUME SessionInv, [Next]_vars
                 PROVE  ControlCall!Next \/ UNCHANGED ControlCall!vars
        OBVIOUS
    <2> USE DEF clock, queues, marks, totals, client, network, server, app
    <2>0. /\ OneCall /\ next_id \in Nat /\ sent \in Nat
          /\ executed \in Nat /\ asked \in Nat
        BY DEF SessionInv, TypeOK
    <2>1. (\E command \in Commands : Call(command)) \/ (\E bridged \in BOOLEAN : Arm(bridged))
            => ControlCall!Invoke
        BY <2>0 DEF Call, Arm, Send, Usable, OneCall, ControlCall!Invoke
    <2>2. Execute \/ AnswerDirectly => ControlCall!CarryOut
        BY <2>0 DEF Execute, AnswerDirectly, Conclude, OneCall, Handling, ControlCall!CarryOut
    <2>3. ReceiveAnswer => ControlCall!Answer \/ ControlCall!Refuse
        <3> SUFFICES ASSUME ReceiveAnswer
                     PROVE  ControlCall!Answer \/ ControlCall!Refuse
            OBVIOUS
        <3>1. PICK k \in DOMAIN toClient : Head(toClient) = toClient[k]
            BY Taken DEF SessionInv, ReceiveAnswer
        <3>2. /\ toClient[k].type = "reply" /\ place = "exchange" /\ place' = "idle"
              /\ answered' = IF toClient[k].ok THEN toClient[k].id ELSE answered
              /\ UNCHANGED <<sent, executed, terminal>>
            BY <3>1 DEF ReceiveAnswer, Matches
        <3>3. toClient[k].id = sent /\ (toClient[k].ok => executed = sent)
            BY <2>0, <3>2 DEF OneCall
        <3> QED BY <3>2, <3>3 DEF ControlCall!Answer, ControlCall!Refuse
    <2>4. (\E how \in {"timeout", "disconnected"} : SendFails(how)) \/ ExchangeTimesOut
            \/ EndOfStream => ControlCall!Fail
        BY <2>0 DEF SendFails, Usable, ExchangeTimesOut, EndOfStream, OneCall, ControlCall!Fail
    <2>5. Refuse \/ TakeQueuedPaint \/ WaitForPaint \/ Drain \/ ReceiveOther
            \/ ReceiveWhileWaiting \/ ReceiveWhileDraining \/ Tick \/ WatchEnds
            => UNCHANGED ControlCall!vars
        BY DEF Refuse, TakeQueuedPaint, WaitForPaint, Drain, ReceiveOther, Usable,
           ReceiveWhileWaiting, ReceiveWhileDraining, Tick, WatchEnds, ControlCall!vars
    <2>6. TakeMessage \/ (\E ok \in BOOLEAN : AnswerBridged(ok)) \/ BridgeClosed \/ TakeEvent
            \/ SendFrame \/ Bump \/ (\E kind \in Kinds : Store(kind)) \/ HostGone
            \/ UNCHANGED vars => UNCHANGED ControlCall!vars
        BY DEF TakeMessage, AnswerBridged, BridgeClosed, Conclude, TakeEvent, SendFrame, Bump,
           Store, HostGone, vars, ControlCall!vars
    <2> QED BY <2>1, <2>2, <2>3, <2>4, <2>5, <2>6
            DEF Next, Client, Server, App, Receive, GiveUp, ControlCall!Next
<1> QED BY <1>1, <1>2, Invariance, PTL DEF Spec, ImplementsControlCall, ControlCall!Spec
==============================================================================
