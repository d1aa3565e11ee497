---------------------------- MODULE NodeEventSocket ----------------------------
(***************************************************************************)
(* The desktop's event socket to the relay (desktop/src/NodeEventSocket.cpp) *)
(* and what its owner does with it (MainWindowRepos.cpp).                    *)
(*                                                                         *)
(* Everything runs on the one thread of the event loop.  Two calls let other *)
(* events be handled before they return: the authorizer that opens a        *)
(* connection, which may ask the user, and the owner's handlers, whose       *)
(* requests may ask too.  "stack" holds those calls, innermost last.         *)
(***************************************************************************)
EXTENDS Naturals, Sequences

CONSTANTS
    MaxShift,    \* how often the delay is doubled (9)
    MaxFrames,   \* bound on the frames that come in one read
    MaxDepth     \* bound on the calls that are under way

ASSUME SocketAssumption ==
    /\ MaxShift \in Nat /\ MaxFrames \in Nat
    /\ MaxDepth \in Nat \ {0}

VARIABLES
    node,      \* the NodeEventSocket's members
    stack,     \* calls that let events be handled, or run the read loop
    undefined  \* a null or deleted object was used: nothing is said of what follows

vars == <<node, stack, undefined>>

Timer == {"reconnect", "connect", "ping"}

\* A frame of data or of control; a "ping" stands for all that change nothing,
\* "big" for one over kMaxEventPayload.
Frame == {"hello", "bye", "event", "ping", "close", "big"}

Node == [stopped : BOOLEAN,                      \* m_userStopped
         socket : {"none", "dialing", "asked", "open", "closing"},
         ready : BOOLEAN, active : BOOLEAN,      \* m_wsReady, m_attemptActive
         accepts : BOOLEAN,                      \* m_accepts
         timers : SUBSET Timer,                  \* those that are active
         shift : 0..MaxShift,                    \* m_reconnectAttempts, at most
         silent : BOOLEAN,                       \* m_lastRxMs is kStaleRxMs old
         buffer : Seq(Frame)]                    \* m_readBuffer

Fresh == [stopped |-> TRUE, socket |-> "none", ready |-> FALSE, active |-> FALSE,
          accepts |-> FALSE, timers |-> {}, shift |-> 0, silent |-> FALSE,
          buffer |-> <<>>]

\* "ask": the authorizer; "loop": onSocketReadyRead; "told": a handler it
\* called.  "own": the read loop is still that of the present socket.
Call == [at : {"ask", "loop", "told"}, own : BOOLEAN]

Init == node = Fresh /\ stack = <<>> /\ undefined = FALSE

-----------------------------------------------------------------------------
(* The members' own calls, on a value of "node". *)

discardCurrentSocket(n) == [n EXCEPT !.socket = "none"]

\* Mutant: the delay is doubled without end.
scheduleReconnectUncapped(n) ==
    LET m == [n EXCEPT !.timers = @ \ {"connect"}] IN
    IF m.stopped \/ "reconnect" \in m.timers THEN m
    ELSE [m EXCEPT !.timers = @ \cup {"reconnect"}, !.shift = @ + 1]

\* Mutant: the longest delay is the last.
scheduleReconnectGivesUp(n) ==
    LET m == [n EXCEPT !.timers = @ \ {"connect"}] IN
    IF m.stopped \/ "reconnect" \in m.timers \/ m.shift = MaxShift THEN m
    ELSE [m EXCEPT !.timers = @ \cup {"reconnect"}, !.shift = @ + 1]

scheduleReconnect(n) ==
    LET m == [n EXCEPT !.timers = @ \ {"connect"}] IN
    IF m.stopped \/ "reconnect" \in m.timers THEN m
    ELSE [m EXCEPT !.timers = @ \cup {"reconnect"},
                   !.shift = IF @ = MaxShift THEN @ ELSE @ + 1]

\* Mutant: the keepalive of the lost link goes on.
handleLinkLostPinging(n) ==
    IF ~n.active /\ ~n.ready THEN n
    ELSE scheduleReconnect([n EXCEPT !.active = FALSE, !.ready = FALSE,
                                     !.accepts = FALSE, !.timers = @ \ {"connect"}])

handleLinkLost(n) ==
    IF ~n.active /\ ~n.ready THEN n
    ELSE scheduleReconnect([n EXCEPT !.active = FALSE, !.ready = FALSE,
                                     !.accepts = FALSE,
                                     !.timers = @ \ {"ping", "connect"}])

failCurrentConnection(n) == handleLinkLost(discardCurrentSocket(n))

\* Mutant: what the relay offers is left to handleLinkLost to forget.
ClearedKeepsOffers(n) == [discardCurrentSocket(n) EXCEPT
                              !.active = FALSE, !.ready = FALSE, !.buffer = <<>>]

\* openConnection as far as the authorizer, and after it.
Cleared(n) == [discardCurrentSocket(n) EXCEPT
                   !.active = FALSE, !.ready = FALSE, !.accepts = FALSE,
                   !.buffer = <<>>]
Dialled(n) == [n EXCEPT !.timers = @ \cup {"connect"}, !.socket = "dialing",
                        !.active = TRUE]

-----------------------------------------------------------------------------
(* Events. *)

Top == stack[Len(stack)]
Under == SubSeq(stack, 1, Len(stack) - 1)

\* The event loop runs: at the bottom, or in a call that lets it.
Looping == ~undefined /\ (stack # <<>> => Top.at # "loop")

\* A socket that is read from does not say again that it can be.
BeingRead == \E i \in DOMAIN stack : stack[i].own

\* The calls under way, once the present socket is dropped.
Disowned == [i \in DOMAIN stack |-> [stack[i] EXCEPT !.own = FALSE]]

\* The sockets dropped in this step are not this one's calls any more.
Becomes(n) ==
    /\ node' = n
    /\ stack' = IF n.socket = "none" THEN Disowned ELSE stack
    /\ UNCHANGED undefined

\* openConnection: no valid URL, or the firewall refuses; allowed; or asked for.
OpenRefused(n) == Becomes(scheduleReconnect(Cleared(n)))
OpenAllowed(n) == Becomes(Dialled(Cleared(n)))
OpenAsks(n) ==
    /\ Len(stack) < MaxDepth
    /\ node' = Cleared(n)
    /\ stack' = Append(Disowned, [at |-> "ask", own |-> FALSE])
    /\ UNCHANGED undefined

\* startNodeEventSocket, with a new object; calls of one that was deleted
\* before have returned.
Start ==
    /\ Looping /\ stack = <<>> /\ node.stopped
    /\ LET n == [Fresh EXCEPT !.stopped = FALSE] IN
           OpenRefused(n) \/ OpenAllowed(n) \/ OpenAsks(n)

\* stopNodeEventSocket
Stop ==
    /\ Looping /\ ~node.stopped
    /\ Becomes([discardCurrentSocket(node) EXCEPT
                   !.stopped = TRUE, !.timers = {}, !.ready = FALSE,
                   !.accepts = FALSE, !.active = FALSE])

Fires(t) == Looping /\ t \in node.timers
Without(t) == [node EXCEPT !.timers = @ \ {t}]

ReconnectRefused == Fires("reconnect") /\ OpenRefused(Without("reconnect"))
ReconnectAllowed == Fires("reconnect") /\ OpenAllowed(Without("reconnect"))
ReconnectAsks == Fires("reconnect") /\ OpenAsks(Without("reconnect"))

\* The user answers.  When the owner stopped the socket meanwhile, it deleted
\* it too: what the call then does to the members has no meaning.
AskEnds ==
    /\ Looping /\ stack # <<>> /\ Top.at = "ask"
    /\ stack' = Under
    /\ IF node.stopped
       THEN undefined' = TRUE /\ UNCHANGED node
       ELSE /\ node' \in {scheduleReconnect(node), Dialled(node)}
            /\ UNCHANGED undefined

\* Mutant: the connection is dropped and nothing else.
ConnectTimeoutDiscards ==
    /\ Fires("connect")
    /\ LET n == Without("connect") IN
        Becomes(IF n.ready \/ n.stopped \/ ~n.active THEN n
                ELSE discardCurrentSocket(n))

ConnectTimeout ==
    /\ Fires("connect")
    /\ LET n == Without("connect") IN
        Becomes(IF n.ready \/ n.stopped \/ ~n.active THEN n
                ELSE failCurrentConnection(n))

\* onPingTick; an answer in time keeps the link.
PingTick ==
    /\ Fires("ping") /\ node.silent
    /\ Becomes(failCurrentConnection(node))

GoesSilent ==
    /\ Looping /\ node.ready /\ ~node.silent
    /\ node' = [node EXCEPT !.silent = TRUE]
    /\ UNCHANGED <<stack, undefined>>

\* connected or encrypted: sendHandshake
Connected ==
    /\ Looping /\ node.socket = "dialing"
    /\ Becomes([node EXCEPT !.socket = "asked"])

\* disconnected or errorOccurred
Disconnected ==
    /\ Looping /\ node.socket # "none"
    /\ Becomes(failCurrentConnection(node))

\* onSocketReadyRead: the upgrade is refused.
Refused ==
    /\ Looping /\ node.socket = "asked" /\ ~BeingRead
    /\ Becomes(failCurrentConnection(node))

Reads(n, at) ==
    /\ ~BeingRead /\ Len(stack) < MaxDepth
    /\ \E k \in 0..MaxFrames : \E f \in [1..k -> Frame] :
           node' = [n EXCEPT !.buffer = @ \o f]
    /\ stack' = Append(stack, [at |-> at, own |-> TRUE])
    /\ UNCHANGED undefined

\* ... or accepted, which the owner is told; frames may come along.
Upgraded ==
    /\ Looping /\ node.socket = "asked"
    /\ \E at \in {"loop", "told"} :
           Reads([node EXCEPT !.socket = "open", !.ready = TRUE, !.active = TRUE,
                              !.shift = 0, !.silent = FALSE,
                              !.timers = (@ \ {"reconnect", "connect"})
                                             \cup {"ping"}], at)

Received ==
    /\ Looping /\ node.socket = "open" /\ node.ready
    /\ Reads([node EXCEPT !.silent = FALSE], "loop")

\* The handler returns; the loop goes on with what is in the buffer by then.
HandlerEnds ==
    /\ Looping /\ stack # <<>> /\ Top.at = "told"
    /\ \/ /\ ~node.stopped
          /\ stack' = [stack EXCEPT ![Len(stack)].at = "loop"]
          /\ UNCHANGED <<node, undefined>>
       \/ /\ node.stopped /\ stack' = Under
          /\ undefined' = TRUE /\ UNCHANGED node

-----------------------------------------------------------------------------
(* The read loop: nothing else happens until it returns or calls a handler. *)

InLoop == ~undefined /\ stack # <<>> /\ Top.at = "loop"
Next1 == Head(node.buffer)
Rest == [node EXCEPT !.buffer = Tail(@), !.silent = FALSE]
Comes(f) == InLoop /\ node.buffer # <<>> /\ Next1 = f

LoopEnds ==
    /\ InLoop /\ node.buffer = <<>>
    /\ stack' = Under
    /\ UNCHANGED <<node, undefined>>

TooBig ==
    /\ Comes("big")
    /\ node' = failCurrentConnection(node)
    /\ stack' = SubSeq(Disowned, 1, Len(stack) - 1)
    /\ UNCHANGED undefined

\* m_socket->disconnectFromHost(), whoever m_socket is by now.
CloseFrame ==
    /\ Comes("close")
    /\ stack' = Under
    /\ IF node.socket = "none"
       THEN undefined' = TRUE /\ UNCHANGED node
       ELSE node' = [Rest EXCEPT !.socket = "closing"] /\ UNCHANGED undefined

Greeted ==
    /\ \/ Comes("hello") /\ node' = [Rest EXCEPT !.accepts = TRUE]
       \/ Comes("bye") /\ node' = [Rest EXCEPT !.accepts = FALSE]
    /\ UNCHANGED <<stack, undefined>>

Skipped == Comes("ping") /\ node' = Rest /\ UNCHANGED <<stack, undefined>>

\* eventReceived: the owner's handler may let events be handled.
Event ==
    /\ Comes("event")
    /\ node' = Rest
    /\ \E at \in {"loop", "told"} : stack' = [stack EXCEPT ![Len(stack)].at = at]
    /\ UNCHANGED undefined

Loop == LoopEnds \/ TooBig \/ CloseFrame \/ Greeted \/ Skipped \/ Event

Opens == ReconnectRefused \/ ReconnectAllowed \/ ReconnectAsks

Next ==
    \/ Start \/ Stop \/ Opens \/ AskEnds
    \/ ConnectTimeout \/ PingTick \/ GoesSilent
    \/ Connected \/ Disconnected \/ Refused \/ Upgraded \/ Received
    \/ HandlerEnds \/ Loop

Spec == Init /\ [][Next]_vars

\* Timers fire and calls return; and a network, a user and a relay that would
\* again and again let a connection through do so at some time.
Fairness ==
    /\ WF_vars(Opens) /\ WF_vars(ConnectTimeout) /\ WF_vars(PingTick)
    /\ WF_vars(AskEnds) /\ WF_vars(HandlerEnds) /\ WF_vars(Loop)
    /\ SF_vars(ReconnectAllowed) /\ SF_vars(Connected) /\ SF_vars(Upgraded)

FairSpec == Spec /\ Fairness

-----------------------------------------------------------------------------
(* Properties. *)

\* The members, the calls and the flag keep their types.
TypeOK == node \in Node /\ stack \in Seq(Call) /\ undefined \in BOOLEAN

Asking == \E i \in DOMAIN stack : stack[i].at = "ask"

Watched ==
    /\ node.socket # "none" /\ node.active
    /\ IF node.ready THEN "ping" \in node.timers ELSE "connect" \in node.timers

\* A link that was started is never left to itself: a timer will try it again,
\* the user is asked, or a timer watches the connection that is up or being
\* made, whatever dropped it and whoever dropped it first.  A link that was
\* stopped is left alone, whatever was under way.
Inert == node.socket = "none" /\ node.timers = {} /\ ~node.ready /\ ~node.active

NeverStranded ==
    IF node.stopped THEN Inert ELSE "reconnect" \in node.timers \/ Asking \/ Watched

\* There is one connection: none is up or being made while another is waited
\* for or the user is asked for one.
OneAttempt ==
    "reconnect" \in node.timers \/ Asking =>
        /\ node.socket = "none" /\ ~node.active /\ ~node.ready
        /\ "connect" \notin node.timers /\ "ping" \notin node.timers

\* What the owner sees is a NodeLink.
Link == INSTANCE NodeLink WITH
    link <- IF node.stopped THEN "off" ELSE IF node.ready THEN "up" ELSE "down",
    offers <- node.ready /\ node.accepts

ImplementsLink == Link!LinkSpec

\* A link that was started comes up, unless it is stopped.
LinkRecovers == ~node.stopped ~> node.ready \/ node.stopped \/ undefined
=============================================================================
