------------------------------- MODULE Session -------------------------------
(***************************************************************************)
(* One inspector connection: the tool's `Client` (client.rs), the server's *)
(* `handle_connection` (server.rs), the two directions of the Unix socket  *)
(* between them, the bridge to the UI thread, and a `Latest` event source  *)
(* (latest.rs) the application publishes into.                             *)
(*                                                                         *)
(* A command says whether it asks for event streams (`observe`) and        *)
(* whether the server needs the UI thread for it (`bridged`).  An event is *)
(* its kind and the number of the publication it came from.  Time is the   *)
(* ticks that elapse inside one client operation.                          *)
(***************************************************************************)
EXTENDS Integers, Sequences, SequencesExt

CONSTANTS
    Kinds,           \* kinds of diagnostic event, "paint" among them
    Commands,        \* commands tools issue besides arm_paint_events
    Timeout,         \* ticks until an operation's deadline
    MaxQueuedEvents, \* the client's bound on queued events, notifications
    SocketCapacity,  \* frames the socket holds towards the client
    MaxCalls,        \* bound: ids the client uses
    MaxWatches,      \* bound: wait_for_paint and drain calls
    MaxPublications  \* bound: events the application publishes

ASSUME SessionAssumption ==
    /\ "paint" \in Kinds
    /\ Commands \subseteq [observe : BOOLEAN, streams : SUBSET Kinds,
                           bridged : BOOLEAN]
    /\ {Timeout, MaxQueuedEvents, SocketCapacity} \subseteq Nat \ {0}
    /\ {MaxCalls, MaxWatches, MaxPublications} \subseteq Nat

VARIABLES
    \* the client
    place,         \* idle, or inside exchange, wait_for_paint or drain
    next_id,
    sent,          \* the id of the last request sent
    terminal,      \* the stored failure of the connection
    elapsed,       \* ticks since the operation began
    deadline,      \* ticks at which the operation gives up
    events,        \* queued decoded events, oldest first
    notifications, \* how many notifications are queued
    lost,          \* lost_notifications
    out,           \* what the drain in progress has collected
    watches,       \* wait_for_paint and drain calls made
    result,        \* what the last operation returned
    \* the connection
    toServer, toClient, serverUp,
    \* the server's connection task
    serving,       \* where it is
    request,       \* the request it is handling
    frame,         \* the frame it is about to send
    baseline, observed, seen,
    \* the application
    slot, revision, publishing,
    asked,         \* the request the UI thread holds, 0 if none
    executed,      \* the last request carried out, on any thread
    \* history
    arming,        \* the revision when the arm in progress began
    armed,         \* the revision when the last successful arm began
    subscribed,    \* the revision when the first Observe was sent
    answered,      \* the last request answered with success
    arrived,       \* notifications taken off the socket
    reported       \* notifications returned or declared lost by drains

clock == <<elapsed, deadline>>
queues == <<events, notifications, lost, out>>
marks == <<arming, armed, subscribed>>
totals == <<answered, arrived, reported>>
client == <<place, next_id, sent, terminal, clock, queues, watches, result,
            marks, totals>>
network == <<toServer, toClient, serverUp>>
server == <<serving, request, frame, baseline, observed, seen>>
app == <<slot, revision, publishing, asked, executed>>
vars == <<client, network, server, app>>

NoArm == -1
NoEvent == [kind |-> "none", at |-> 0]
NoCall == [observe |-> FALSE, streams |-> {}, bridged |-> FALSE]
ArmCommand(bridged) ==
    [observe |-> TRUE, streams |-> {"paint"}, bridged |-> bridged]

Notification(event) == [type |-> "event", id |-> 0, ok |-> TRUE, event |-> event]
Reply(id, ok) == [type |-> "reply", id |-> id, ok |-> ok, event |-> NoEvent]
NoFrame == [type |-> "none", id |-> 0, ok |-> FALSE, event |-> NoEvent]
NoRequest == [id |-> 0, command |-> NoCall]

Returned(how) == [how |-> how, id |-> 0, at |-> 0]

Init ==
    /\ place = "idle" /\ next_id = 0 /\ sent = 0 /\ terminal = "none"
    /\ elapsed = 0 /\ deadline = 0
    /\ events = <<>> /\ notifications = 0 /\ lost = 0 /\ out = 0
    /\ watches = 0 /\ result = Returned("none")
    /\ arming = NoArm /\ armed = NoArm /\ subscribed = NoArm
    /\ answered = 0
    /\ arrived = 0 /\ reported = 0
    /\ toServer = <<>> /\ toClient = <<>> /\ serverUp = TRUE
    /\ serving = "select" /\ request = NoRequest /\ frame = NoFrame
    /\ baseline = 0 /\ observed = {} /\ seen = 0
    /\ slot = NoEvent /\ revision = 0 /\ publishing = FALSE
    /\ asked = 0 /\ executed = 0

-----------------------------------------------------------------------------
\* The client: requests.

IsPaint(event) == event.kind = "paint"
NotPaint(event) == ~IsPaint(event)

\* Both queues drop their oldest element when full.
Queued(queue, event) ==
    IF Len(queue) = MaxQueuedEvents THEN Append(Tail(queue), event)
                                    ELSE Append(queue, event)

StartClock ==
    /\ elapsed' = 0
    /\ deadline' = Timeout

Usable == place = "idle" /\ terminal = "none"

\* `exchange`: one id, one frame, one deadline for send and receive.
Send(command) ==
    /\ next_id < MaxCalls
    /\ next_id' = next_id + 1
    /\ sent' = next_id + 1
    /\ subscribed' = IF command.observe /\ subscribed = NoArm
                     THEN revision ELSE subscribed
    /\ toServer' = Append(toServer, [id |-> next_id + 1, command |-> command])
    /\ place' = "exchange"
    /\ StartClock
    /\ UNCHANGED <<terminal, notifications, lost, out, watches, result,
                   totals, toClient, serverUp, server, app>>

\* agent, diagnostics, initialize and the envelopes.
Call(command) ==
    /\ Usable /\ serverUp
    /\ Send(command)
    /\ arming' = NoArm
    /\ UNCHANGED <<events, armed>>

\* `events.retain`: the queue loses its paints, the rest keep their order.
ForgetPaints ==
    \E n \in 0..Len(events) : \E kept \in [1..n -> DOMAIN events] :
        /\ \A i, j \in 1..n : i < j => kept[i] < kept[j]
        /\ {kept[i] : i \in 1..n} = {i \in DOMAIN events : NotPaint(events[i])}
        /\ events' = [i \in 1..n |-> events[kept[i]]]

\* arm_paint_events: forget queued paints, then ask for the paint stream,
\* through the UI thread when the client has selected a target.
Arm(bridged) ==
    /\ Usable /\ serverUp
    /\ ForgetPaints
    /\ Send(ArmCommand(bridged))
    /\ arming' = revision
    /\ armed' = NoArm

\* The send phase fails: the server is gone, or the socket stays full past
\* the deadline.  The id is spent either way.
SendFails(how) ==
    /\ Usable /\ next_id < MaxCalls
    /\ how = "disconnected" => ~serverUp
    /\ next_id' = next_id + 1
    /\ terminal' = how
    /\ result' = Returned("error")
    /\ UNCHANGED <<place, sent, clock, queues, watches, marks, totals,
                   network, server, app>>

\* `ensure_available`: a failed connection refuses requests, unsent, and
\* watches alike, with the stored failure.
Refuse ==
    /\ place = "idle" /\ terminal # "none"
    /\ \/ next_id < MaxCalls /\ next_id' = next_id + 1 /\ UNCHANGED watches
       \/ watches < MaxWatches /\ watches' = watches + 1 /\ UNCHANGED next_id
    /\ result' = Returned("error")
    /\ UNCHANGED <<place, sent, terminal, clock, queues, marks, totals,
                   network, server, app>>

\* Mutation: the full queue is trimmed without counting what it drops.
NotifyUncounted(received) ==
    IF received.type = "event"
    THEN /\ arrived' = arrived + 1
         /\ notifications' = IF notifications = MaxQueuedEvents
                             THEN notifications ELSE notifications + 1
         /\ UNCHANGED lost
    ELSE UNCHANGED <<arrived, notifications, lost>>

\* `queue_notification`, which only takes pushed frames.
Notify(received) ==
    IF received.type = "event"
    THEN /\ arrived' = arrived + 1
         /\ IF notifications = MaxQueuedEvents
            THEN lost' = lost + 1 /\ UNCHANGED notifications
            ELSE notifications' = notifications + 1 /\ UNCHANGED lost
    ELSE UNCHANGED <<arrived, notifications, lost>>

\* Decoded events are queued; a stray reply decodes to none.
QueueEvent(received) ==
    events' = IF received.type = "event" THEN Queued(events, received.event)
                                         ELSE events

TakeFrame ==
    /\ toClient # <<>>
    /\ toClient' = Tail(toClient)
    /\ UNCHANGED <<toServer, serverUp>>

\* The reply to this very id ends the exchange.
Matches(received) == received.type = "reply" /\ received.id = next_id

ReceiveAnswer ==
    /\ place = "exchange" /\ TakeFrame
    /\ LET received == Head(toClient) IN
        /\ Matches(received)
        /\ result' = [how |-> IF received.ok THEN "answer" ELSE "error",
                      id |-> received.id, at |-> 0]
        /\ answered' = IF received.ok THEN received.id ELSE answered
        /\ armed' = IF received.ok /\ arming # NoArm THEN arming ELSE armed
    /\ place' = "idle"
    /\ UNCHANGED <<next_id, sent, terminal, clock, queues, watches, arming,
                   subscribed, arrived, reported, server, app>>

\* Mutation: every frame taken gives the exchange a new deadline.
ReceiveOtherRenewing ==
    /\ place = "exchange" /\ TakeFrame
    /\ ~Matches(Head(toClient))
    /\ Notify(Head(toClient))
    /\ QueueEvent(Head(toClient))
    /\ deadline' = elapsed + Timeout
    /\ UNCHANGED <<place, next_id, sent, terminal, elapsed, out, watches,
                   result, marks, answered, reported, server, app>>

\* Anything else is queued and the exchange goes on under the same deadline.
ReceiveOther ==
    /\ place = "exchange" /\ TakeFrame
    /\ ~Matches(Head(toClient))
    /\ Notify(Head(toClient))
    /\ QueueEvent(Head(toClient))
    /\ UNCHANGED <<place, next_id, sent, terminal, clock, out, watches,
                   result, marks, answered, reported, server, app>>

-----------------------------------------------------------------------------
\* The client: waiting for a paint, draining.

Watch ==
    /\ place = "idle"
    /\ watches < MaxWatches /\ watches' = watches + 1

Painted(event) == [how |-> "painted", id |-> 0, at |-> event.at]

\* Mutation: the queue is looked at before the stored failure.
TakeQueuedPaintUnchecked ==
    /\ Watch
    /\ \E i \in DOMAIN events :
        /\ IsPaint(events[i])
        /\ \A j \in 1..(i - 1) : NotPaint(events[j])
        /\ events' = RemoveAt(events, i)
        /\ result' = Painted(events[i])
    /\ UNCHANGED <<place, next_id, sent, terminal, clock, notifications, lost,
                   out, marks, totals, network, server, app>>

\* wait_for_paint finds a queued paint and takes the oldest one.
TakeQueuedPaint ==
    /\ Usable /\ Watch
    /\ \E i \in DOMAIN events :
        /\ IsPaint(events[i])
        /\ \A j \in 1..(i - 1) : NotPaint(events[j])
        /\ events' = RemoveAt(events, i)
        /\ result' = Painted(events[i])
    /\ UNCHANGED <<place, next_id, sent, terminal, clock, notifications, lost,
                   out, marks, totals, network, server, app>>

WaitForPaint ==
    /\ Usable /\ Watch
    /\ \A i \in DOMAIN events : NotPaint(events[i])
    /\ place' = "paint"
    /\ StartClock
    /\ UNCHANGED <<next_id, sent, terminal, queues, result, marks, totals,
                   network, server, app>>

ReceiveWhileWaiting ==
    /\ place = "paint" /\ TakeFrame
    /\ Notify(Head(toClient))
    /\ IF IsPaint(Head(toClient).event)
       THEN /\ place' = "idle"
            /\ result' = Painted(Head(toClient).event)
            /\ UNCHANGED events
       ELSE /\ QueueEvent(Head(toClient))
            /\ UNCHANGED <<place, result>>
    /\ UNCHANGED <<next_id, sent, terminal, clock, out, watches, marks,
                   answered, reported, server, app>>

\* drain starts with what is queued, the count of the lost ones included.
Drain ==
    /\ Usable /\ Watch
    /\ out' = notifications + lost
    /\ notifications' = 0 /\ lost' = 0
    /\ place' = "drain"
    /\ StartClock
    /\ UNCHANGED <<next_id, sent, terminal, events, result, marks, totals,
                   network, server, app>>

ReceiveWhileDraining ==
    /\ place = "drain" /\ TakeFrame
    /\ IF Head(toClient).type = "event"
       THEN out' = out + 1 /\ arrived' = arrived + 1
       ELSE UNCHANGED <<out, arrived>>
    /\ UNCHANGED <<place, next_id, sent, terminal, clock, events,
                   notifications, lost, watches, result, marks, answered,
                   reported, server, app>>

-----------------------------------------------------------------------------
\* The client: time and disconnection.

Tick ==
    /\ place # "idle" /\ elapsed < deadline
    /\ elapsed' = elapsed + 1
    /\ UNCHANGED <<place, next_id, sent, terminal, deadline, queues, watches,
                   result, marks, totals, network, server, app>>

Late == place # "idle" /\ elapsed >= deadline

\* Mutation: the receive loop of an exchange has no deadline.
ExchangeNeverTimesOut == FALSE /\ UNCHANGED vars

\* A request without an answer at its deadline ends the connection's use.
ExchangeTimesOut ==
    /\ Late /\ place = "exchange"
    /\ place' = "idle"
    /\ terminal' = "timeout"
    /\ result' = Returned("error")
    /\ UNCHANGED <<next_id, sent, clock, queues, watches, marks, totals,
                   network, server, app>>

\* Not seeing a paint, or the end of a drain, is an ordinary answer.
WatchEnds ==
    /\ Late /\ place \in {"paint", "drain"}
    /\ place' = "idle"
    /\ result' = Returned(IF place = "paint" THEN "not painted" ELSE "drained")
    /\ reported' = reported + out
    /\ out' = 0
    /\ UNCHANGED <<next_id, sent, terminal, clock, events, notifications, lost,
                   watches, marks, answered, arrived, network, server, app>>

\* Everything the server sent has been read and the stream has ended.  What
\* a drain had collected is dropped with its error.
EndOfStream ==
    /\ place # "idle" /\ ~serverUp /\ toClient = <<>>
    /\ place' = "idle"
    /\ terminal' = "disconnected"
    /\ result' = Returned("error")
    /\ out' = 0
    /\ UNCHANGED <<next_id, sent, clock, events, notifications, lost, watches,
                   marks, totals, network, server, app>>

-----------------------------------------------------------------------------
\* The server's task for this connection.

\* Mutation: the baseline of an Observe is not read again.
TakeMessageWithoutBaseline ==
    /\ serving = "select" /\ toServer # <<>>
    /\ request' = Head(toServer)
    /\ toServer' = Tail(toServer)
    /\ serving' = IF Head(toServer).command.bridged THEN "bridge" ELSE "direct"
    /\ asked' = IF Head(toServer).command.bridged THEN Head(toServer).id ELSE asked
    /\ UNCHANGED <<frame, baseline, observed, seen, toClient, serverUp, client,
                   slot, revision, publishing, executed>>

\* A request's baseline is read before the bridge is asked.
TakeMessage ==
    /\ serving = "select" /\ toServer # <<>>
    /\ request' = Head(toServer)
    /\ toServer' = Tail(toServer)
    /\ baseline' = revision
    /\ serving' = IF Head(toServer).command.bridged THEN "bridge" ELSE "direct"
    /\ asked' = IF Head(toServer).command.bridged THEN Head(toServer).id ELSE asked
    /\ UNCHANGED <<frame, observed, seen, toClient, serverUp, client,
                   slot, revision, publishing, executed>>

\* The reply is prepared; an acknowledged Observe replaces the subscription.
Conclude(ok) ==
    /\ IF ok /\ request.command.observe
       THEN observed' = request.command.streams /\ seen' = baseline
       ELSE UNCHANGED <<observed, seen>>
    /\ frame' = Reply(request.id, ok)
    /\ request' = NoRequest
    /\ serving' = "reply"
    /\ UNCHANGED <<baseline, network, client, slot, revision, publishing>>

\* initialize, tools/list, and a plain Observe over a Latest source.
AnswerDirectly ==
    /\ serving = "direct"
    /\ Conclude(TRUE)
    /\ executed' = request.id
    /\ UNCHANGED asked

\* The UI thread carries the command out, sooner, later or never.
Execute ==
    /\ asked # 0
    /\ executed' = asked
    /\ asked' = 0
    /\ UNCHANGED <<slot, revision, publishing, client, network, server>>

\* Mutation: the acknowledgement does not wait for the UI thread.
AnswerBridgedEarly(ok) ==
    /\ serving = "bridge"
    /\ Conclude(ok)
    /\ UNCHANGED <<asked, executed>>

\* It fills the answer with what came of it.
AnswerBridged(ok) ==
    /\ serving = "bridge" /\ executed = request.id
    /\ Conclude(ok)
    /\ UNCHANGED <<asked, executed>>

\* The UI thread goes away without executing: `bridgeClosed`.
BridgeClosed ==
    /\ serving = "bridge" /\ asked = request.id
    /\ Conclude(FALSE)
    /\ asked' = 0
    /\ UNCHANGED executed

\* `changed_since(seen)` resolves.  The position moves before the filter.
TakeEvent ==
    /\ serving = "select" /\ observed # {}
    /\ revision # seen
    /\ seen' = revision
    /\ IF slot.kind \in observed
       THEN frame' = Notification(slot) /\ serving' = "push"
       ELSE UNCHANGED <<frame, serving>>
    /\ UNCHANGED <<request, baseline, observed, network, client, app>>

\* `stream.send` waits for room; the connection does nothing else meanwhile.
SendFrame ==
    /\ serving \in {"reply", "push"} /\ Len(toClient) < SocketCapacity
    /\ toClient' = Append(toClient, frame)
    /\ frame' = NoFrame
    /\ serving' = "select"
    /\ UNCHANGED <<request, baseline, observed, seen, toServer, serverUp,
                   client, app>>

\* The host exits, crashes, or drops its server at any point.
HostGone ==
    /\ serverUp
    /\ serverUp' = FALSE
    /\ serving' = "gone"
    /\ request' = NoRequest
    /\ frame' = NoFrame
    /\ UNCHANGED <<baseline, observed, seen, toServer, toClient, client, app>>

-----------------------------------------------------------------------------
\* The application publishes: store, then count (and wake).

Store(kind) ==
    /\ serverUp /\ ~publishing /\ revision < MaxPublications
    /\ slot' = [kind |-> kind, at |-> revision + 1]
    /\ publishing' = TRUE
    /\ UNCHANGED <<revision, asked, executed, client, network, server>>

Bump ==
    /\ publishing
    /\ revision' = revision + 1
    /\ publishing' = FALSE
    /\ UNCHANGED <<slot, asked, executed, client, network, server>>

-----------------------------------------------------------------------------
Receive ==
    ReceiveAnswer \/ ReceiveOther \/ ReceiveWhileWaiting \/ ReceiveWhileDraining

GiveUp == ExchangeTimesOut \/ WatchEnds \/ EndOfStream

Client ==
    \/ \E command \in Commands : Call(command)
    \/ \E bridged \in BOOLEAN : Arm(bridged)
    \/ \E how \in {"timeout", "disconnected"} : SendFails(how)
    \/ Refuse
    \/ TakeQueuedPaint \/ WaitForPaint \/ Drain
    \/ Receive \/ Tick \/ GiveUp

Server ==
    \/ TakeMessage \/ AnswerDirectly \/ TakeEvent \/ SendFrame
    \/ \E ok \in BOOLEAN : AnswerBridged(ok)
    \/ BridgeClosed

App == Execute \/ Bump \/ \E kind \in Kinds : Store(kind)

Next == Client \/ Server \/ App \/ HostGone

\* The client's runtime polls its socket and its timers.  Nothing is assumed
\* of the server, of the UI thread, or of what the tool does between calls.
Fairness == WF_vars(Receive) /\ WF_vars(Tick) /\ WF_vars(GiveUp)

Spec == Init /\ [][Next]_vars /\ Fairness

-----------------------------------------------------------------------------
Event == [kind : Kinds \union {"none"}, at : 0..MaxPublications]
Command == [observe : BOOLEAN, streams : SUBSET Kinds, bridged : BOOLEAN]
Frame == [type : {"event", "reply", "none"}, id : 0..MaxCalls, ok : BOOLEAN,
          event : Event]
Request == [id : 0..MaxCalls, command : Command]
Revision == 0..MaxPublications
Outcome == {"none", "answer", "error", "painted", "not painted", "drained"}

\* Every variable keeps its type and every queue its bound.
TypeOK ==
    /\ place \in {"idle", "exchange", "paint", "drain"}
    /\ next_id \in 0..MaxCalls /\ sent \in 0..next_id
    /\ terminal \in {"none", "timeout", "disconnected"}
    /\ elapsed \in Nat /\ deadline \in Nat
    /\ events \in Seq(Event) /\ Len(events) <= MaxQueuedEvents
    /\ notifications \in 0..MaxQueuedEvents
    /\ {lost, out, arrived, reported} \subseteq Nat
    /\ watches \in 0..MaxWatches
    /\ result \in [how : Outcome, id : 0..MaxCalls, at : Revision]
    /\ {arming, armed, subscribed} \subseteq Revision \union {NoArm}
    /\ answered \in 0..MaxCalls
    /\ toServer \in Seq(Request)
    /\ toClient \in Seq(Frame) /\ Len(toClient) <= SocketCapacity
    /\ serverUp \in BOOLEAN
    /\ serving \in {"select", "bridge", "direct", "reply", "push", "gone"}
    /\ request \in Request /\ frame \in Frame
    /\ baseline \in Revision /\ observed \in SUBSET Kinds /\ seen \in Revision
    /\ slot \in Event /\ revision \in Revision /\ publishing \in BOOLEAN
    /\ asked \in 0..MaxCalls /\ executed \in 0..MaxCalls

\* The connection implements one call at a time, each carried out at most
\* once, in order, before its successful answer, and none after a failure.
ControlCall == INSTANCE ControlCall
    WITH issued <- sent, calling <- place = "exchange",
         carriedOut <- executed, failed <- terminal # "none"
ImplementsControlCall == ControlCall!Spec

\* A failure is stored for good: from then on every operation reports it, and
\* nothing that was queued or arrives late is returned (ensure_available).
FailureIsFinal ==
    [][terminal # "none" =>
        /\ terminal' = terminal
        /\ result' = result \/ result'.how = "error"
        /\ Len(toServer') <= Len(toServer)]_vars

\* One deadline bounds the whole exchange: frames that are not the answer do
\* not extend it, so a chatty server cannot hold a call (exchange).
DeadlineHonoured == elapsed <= Timeout

\* Nothing the server does stretches an exchange or a queue: the types, the
\* bounds of the queues among them, and the deadline in one (queue_event).
BoundsHold == TypeOK /\ DeadlineHonoured

\* No notification disappears uncounted: every one taken off a working
\* connection is queued, collected, or reported, drops included
\* (queue_notification, drain).
NotificationsAccounted ==
    terminal = "none" => arrived = notifications + lost + out + reported

\* A paint handed to wait_for_paint was published after the connection first
\* subscribed: Observe's baseline keeps out what the slot already held.
PaintFollowsSubscription == result.how = "painted" => result.at > subscribed

\* Every operation returns: the peer's silence, a hung UI thread or a dead
\* host ends in an error or in an ordinary "not painted" (timeout, EOF).
OperationsReturn == place # "idle" ~> place = "idle"

\* "New runtimes answer with Ack and suppress any revision that predates this
\* call" and "the first real frame committed after an armed interaction"
\* (client.rs): the paint wait_for_paint returns is newer than the last arm.
\* Frames an earlier subscription left in the socket refute it.
PaintFollowsArm ==
    result.how = "painted" /\ armed # NoArm => result.at > armed
=============================================================================
