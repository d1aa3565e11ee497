------------------------ MODULE NodeEventSocketProofs ------------------------
(***************************************************************************)
(* The inductive invariant of the event socket, the three invariants that   *)
(* are checked of it, and that it implements NodeLink.                      *)
(***************************************************************************)
EXTENDS NodeEventSocket, SequenceTheorems, TLAPS

USE SocketAssumption

\* A prompt is always the innermost call: while the user is asked there is no
\* socket to be read from, and no timer that would ask again.
AskOnTop == \A i \in DOMAIN stack : stack[i].at = "ask" => i = Len(stack)

\* What holds of the members, by whether the user is asked: the two invariants
\* of NodeEventSocket; no timer will try while the user is asked; and a
\* connection that is about to be made, or is being made, starts with nothing
\* that the last one left.
Idle(n) == n.socket = "none" /\ ~n.active /\ ~n.ready
Cared(n) ==
    /\ n.socket # "none" /\ n.active
    /\ IF n.ready THEN "ping" \in n.timers ELSE "connect" \in n.timers
Sound(n, asking) ==
    /\ IF n.stopped THEN Idle(n) /\ n.timers = {}
       ELSE "reconnect" \in n.timers \/ asking \/ Cared(n)
    /\ "reconnect" \in n.timers \/ asking =>
           Idle(n) /\ "connect" \notin n.timers /\ "ping" \notin n.timers
    /\ asking => "reconnect" \notin n.timers
    /\ (n.socket # "none" /\ ~n.ready) \/ (asking /\ ~n.stopped) =>
           ~n.accepts /\ n.buffer = <<>>

IInv == TypeOK /\ AskOnTop /\ Sound(node, Asking)

\* The invariants that the runs check are parts of it.
LEMMA InvariantsFollow == IInv => TypeOK /\ NeverStranded /\ OneAttempt
  BY DEF IInv, Sound, Idle, Cared, NeverStranded, Inert, Watched, OneAttempt

-----------------------------------------------------------------------------
(* The members' calls. *)

\* scheduleReconnect touches the timers and the delay only.
LEMMA ScheduleShape ==
  ASSUME NEW n \in Node
  PROVE  LET m == scheduleReconnect(n) IN
         /\ m \in Node
         /\ m.timers = IF n.stopped THEN n.timers \ {"connect"}
                       ELSE (n.timers \ {"connect"}) \cup {"reconnect"}
         /\ m.stopped = n.stopped /\ m.socket = n.socket /\ m.ready = n.ready
         /\ m.active = n.active /\ m.accepts = n.accepts /\ m.buffer = n.buffer
  <1> DEFINE k == [n EXCEPT !.timers = @ \ {"connect"}]
             m == [k EXCEPT !.timers = @ \cup {"reconnect"},
                            !.shift = IF @ = MaxShift THEN @ ELSE @ + 1]
  <1>1. k \in Node /\ k.timers = n.timers \ {"connect"} /\ k.shift = n.shift
        /\ k.stopped = n.stopped /\ k.socket = n.socket /\ k.ready = n.ready
        /\ k.active = n.active /\ k.accepts = n.accepts /\ k.buffer = n.buffer
    BY DEF Node, Timer
  <1>2. (IF k.shift = MaxShift THEN k.shift ELSE k.shift + 1) \in 0..MaxShift
    BY <1>1 DEF Node
  <1>3. m \in Node /\ m.timers = k.timers \cup {"reconnect"}
        /\ m.stopped = k.stopped /\ m.socket = k.socket /\ m.ready = k.ready
        /\ m.active = k.active /\ m.accepts = k.accepts /\ m.buffer = k.buffer
    BY <1>1, <1>2 DEF Node, Timer
  <1>4. scheduleReconnect(n) = IF k.stopped \/ "reconnect" \in k.timers THEN k ELSE m
    BY DEF scheduleReconnect
  <1> QED BY <1>1, <1>3, <1>4

\* However a connection fails, another will be tried, unless none is wanted.
LEMMA FailIsSound ==
  ASSUME NEW n \in Node, NEW asking \in BOOLEAN, Sound(n, asking)
  PROVE  LET m == failCurrentConnection(n) IN
         /\ m \in Node /\ Sound(m, asking) /\ m.socket = "none" /\ ~m.ready
         /\ m.stopped = n.stopped
  <1> DEFINE d == discardCurrentSocket(n)
             c == [d EXCEPT !.active = FALSE, !.ready = FALSE, !.accepts = FALSE,
                            !.timers = @ \ {"ping", "connect"}]
  <1>1. d \in Node /\ d.socket = "none" /\ d.stopped = n.stopped
        /\ d.timers = n.timers /\ d.ready = n.ready /\ d.active = n.active
        /\ d.accepts = n.accepts /\ d.buffer = n.buffer
    BY DEF Node, discardCurrentSocket
  <1>2. c \in Node /\ c.socket = "none" /\ c.stopped = n.stopped
        /\ c.timers = n.timers \ {"ping", "connect"} /\ ~c.ready /\ ~c.active
        /\ ~c.accepts /\ c.buffer = n.buffer
    BY <1>1 DEF Node, Timer
  <1>3. failCurrentConnection(n) =
            IF ~d.active /\ ~d.ready THEN d ELSE scheduleReconnect(c)
    BY DEF failCurrentConnection, handleLinkLost
  <1> HIDE DEF d, c
  <1>4. CASE ~n.active /\ ~n.ready
    <2>1. failCurrentConnection(n) = d
      BY <1>1, <1>3, <1>4
    <2> QED BY <1>1, <1>4, <2>1 DEF Sound, Idle, Cared
  <1>5. CASE n.active \/ n.ready
    <2>1. ~n.stopped /\ ~asking
      BY <1>5 DEF Sound, Idle
    <2>2. failCurrentConnection(n) = scheduleReconnect(c)
      BY <1>1, <1>3, <1>5
    <2> DEFINE m == scheduleReconnect(c)
    <2>3. /\ m \in Node /\ m.timers = (n.timers \ {"ping", "connect"}) \cup {"reconnect"}
          /\ m.stopped = n.stopped /\ m.socket = "none" /\ ~m.ready
          /\ ~m.active
      BY <1>2, <2>1, ScheduleShape, Zenon
    <2> HIDE DEF m
    <2>4. Sound(m, asking)
      BY <2>1, <2>3 DEF Sound, Idle
    <2> QED BY <2>2, <2>3, <2>4 DEF m
  <1> QED BY <1>4, <1>5

\* openConnection starts from nothing, but for the timers.
LEMMA ClearedShape ==
  ASSUME NEW n \in Node
  PROVE  LET m == Cleared(n) IN
         /\ m \in Node /\ Idle(m) /\ ~m.accepts /\ m.buffer = <<>>
         /\ m.stopped = n.stopped /\ m.timers = n.timers
  <1> DEFINE d == discardCurrentSocket(n)
             m == [d EXCEPT !.active = FALSE, !.ready = FALSE, !.accepts = FALSE,
                            !.buffer = <<>>]
  <1>1. d \in Node /\ d.socket = "none" /\ d.stopped = n.stopped
        /\ d.timers = n.timers
    BY DEF Node, discardCurrentSocket
  <1>2. m \in Node /\ m.socket = "none" /\ ~m.active /\ ~m.ready /\ ~m.accepts
        /\ m.buffer = <<>> /\ m.stopped = n.stopped /\ m.timers = n.timers
    BY <1>1, EmptySeq DEF Node
  <1>3. Cleared(n) = m
    BY DEF Cleared
  <1> QED BY <1>2, <1>3 DEF Idle

LEMMA DialledShape ==
  ASSUME NEW n \in Node
  PROVE  LET m == Dialled(n) IN
         /\ m \in Node /\ m.socket = "dialing" /\ m.active
         /\ m.timers = n.timers \cup {"connect"}
         /\ m.stopped = n.stopped /\ m.ready = n.ready
         /\ m.accepts = n.accepts /\ m.buffer = n.buffer
  BY DEF Node, Timer, Dialled

-----------------------------------------------------------------------------
(* The calls under way. *)

\* Dropping the socket leaves the calls, though not as its own.
LEMMA DisownedShape ==
  ASSUME TypeOK
  PROVE  /\ Disowned \in Seq(Call) /\ Len(Disowned) = Len(stack)
         /\ DOMAIN Disowned = DOMAIN stack
         /\ \A i \in DOMAIN stack : Disowned[i].at = stack[i].at
  <1>1. stack \in Seq(Call)
    BY DEF TypeOK
  <1>2. \A i \in DOMAIN stack : stack[i] \in Call
    BY <1>1, ElementOfSeq, LenProperties
  <1>3. \A i \in DOMAIN stack : [stack[i] EXCEPT !.own = FALSE] \in Call
                                /\ [stack[i] EXCEPT !.own = FALSE].at = stack[i].at
    BY <1>2 DEF Call
  <1>4. DOMAIN stack = 1..Len(stack) /\ Len(stack) \in Nat
    BY <1>1, LenProperties
  <1>5. Disowned \in [1..Len(stack) -> Call]
    BY <1>3, <1>4 DEF Disowned
  <1>6. Disowned \in Seq(Call) /\ DOMAIN Disowned = 1..Len(stack)
    BY <1>4, <1>5, SeqDef
  <1>7. Len(Disowned) = Len(stack)
    BY <1>4, <1>5, <1>6, LenProperties
  <1> QED BY <1>3, <1>4, <1>6, <1>7 DEF Disowned

\* A step that ends in Becomes: the calls are those of before.
LEMMA BecomesIsSound ==
  ASSUME IInv, NEW n \in Node, Becomes(n), Sound(n, Asking)
  PROVE  IInv'
  <1>1. stack' \in Seq(Call) /\ Len(stack') = Len(stack)
        /\ DOMAIN stack' = DOMAIN stack
        /\ \A i \in DOMAIN stack : stack'[i].at = stack[i].at
    BY DisownedShape DEF IInv, TypeOK, Becomes
  <1>2. Asking' = Asking /\ AskOnTop'
    BY <1>1 DEF Asking, AskOnTop, IInv
  <1>3. TypeOK'
    BY <1>1 DEF TypeOK, IInv, Becomes
  <1>4. node' = n
    BY DEF Becomes
  <1> QED BY <1>2, <1>3, <1>4 DEF IInv

\* The innermost call returns: the user is not asked by what is left.
LEMMA UnderShape ==
  ASSUME NEW s \in Seq(Call), s # <<>>
  PROVE  LET u == SubSeq(s, 1, Len(s) - 1) IN
         /\ u \in Seq(Call)
         /\ DOMAIN u = 1..(Len(s) - 1)
         /\ \A i \in DOMAIN u : i \in DOMAIN s /\ i # Len(s) /\ u[i].at = s[i].at
  <1>1. Len(s) \in Nat \ {0} /\ DOMAIN s = 1..Len(s)
    BY LenProperties, EmptySeq
  <1> QED BY <1>1, SubSeqProperties, LenProperties

LEMMA TopShape ==
  ASSUME TypeOK, stack # <<>>
  PROVE  Len(stack) \in DOMAIN stack /\ Top = stack[Len(stack)] /\ Top \in Call
  <1>1. stack \in Seq(Call) /\ Len(stack) \in Nat \ {0} /\ DOMAIN stack = 1..Len(stack)
    BY LenProperties, EmptySeq DEF TypeOK
  <1> QED BY <1>1, ElementOfSeq DEF Top

\* While another call than a prompt is innermost, the user is not asked.
LEMMA NotAsking ==
  ASSUME IInv, stack # <<>>, Top.at # "ask"
  PROVE  ~Asking
  BY TopShape DEF IInv, AskOnTop, Asking

\* The innermost call returns to a loop or a handler.
LEMMA ReturnIsSound ==
  ASSUME IInv, stack # <<>>, stack' = Under \/ stack' = SubSeq(Disowned, 1, Len(stack) - 1)
  PROVE  stack' \in Seq(Call) /\ AskOnTop' /\ ~Asking'
  <1> DEFINE s == IF stack' = Under THEN stack ELSE Disowned
  <1>1. s \in Seq(Call) /\ Len(s) = Len(stack) /\ s # <<>> /\ DOMAIN s = DOMAIN stack
        /\ \A i \in DOMAIN stack : s[i].at = stack[i].at
    <2>1. Len(stack) # 0
      BY EmptySeq DEF IInv, TypeOK
    <2>2. Len(<<>>) = 0
      BY EmptySeq
    <2> QED BY <2>1, <2>2, DisownedShape DEF IInv, TypeOK
  <1>2. stack' = SubSeq(s, 1, Len(s) - 1)
    BY <1>1 DEF Under
  <1> HIDE DEF s
  <1>3. stack' \in Seq(Call)
        /\ \A i \in DOMAIN stack' : i \in DOMAIN s /\ i # Len(s) /\ stack'[i].at = s[i].at
    BY <1>1, <1>2, UnderShape
  <1>4. \A i \in DOMAIN stack' : stack'[i].at # "ask"
    BY <1>1, <1>3 DEF IInv, AskOnTop
  <1> QED BY <1>3, <1>4 DEF AskOnTop, Asking

\* A call is made: a prompt when there was none, or a loop or a handler.
LEMMA CallIsSound ==
  ASSUME IInv, NEW s \in Seq(Call), NEW c \in Call, stack' = Append(s, c), ~Asking,
         DOMAIN s = DOMAIN stack, \A i \in DOMAIN stack : s[i].at = stack[i].at
  PROVE  stack' \in Seq(Call) /\ AskOnTop' /\ (Asking' <=> c.at = "ask")
  <1>1. /\ stack' \in Seq(Call) /\ Len(stack') = Len(s) + 1 /\ Len(s) \in Nat
        /\ DOMAIN s = 1..Len(s) /\ DOMAIN stack' = 1..(Len(s) + 1)
        /\ \A i \in 1..Len(s) : stack'[i] = s[i]
        /\ stack'[Len(s) + 1] = c
    BY AppendProperties, LenProperties
  <1>2. \A i \in 1..Len(s) : stack'[i].at # "ask"
    BY <1>1 DEF Asking
  <1>3. AskOnTop'
    BY <1>1, <1>2 DEF AskOnTop
  <1>4. Asking' <=> c.at = "ask"
    <2>1. Len(s) + 1 \in DOMAIN stack'
      BY <1>1
    <2>2. \A i \in DOMAIN stack' : i \in 1..Len(s) \/ i = Len(s) + 1
      BY <1>1
    <2> QED BY <1>1, <1>2, <2>1, <2>2 DEF Asking
  <1> QED BY <1>1, <1>3, <1>4

\* The innermost call calls a handler or is returned to.
LEMMA TurnIsSound ==
  ASSUME IInv, stack # <<>>, Top.at # "ask", NEW at \in {"loop", "told"},
         stack' = [stack EXCEPT ![Len(stack)].at = at]
  PROVE  stack' \in Seq(Call) /\ AskOnTop' /\ ~Asking'
  <1>1. Len(stack) \in DOMAIN stack /\ Top = stack[Len(stack)] /\ Top \in Call
        /\ stack \in Seq(Call)
    BY TopShape DEF IInv, TypeOK
  <1>2. [Top EXCEPT !.at = at] \in Call /\ [Top EXCEPT !.at = at].at = at
    BY <1>1 DEF Call
  <1>3. stack' = [stack EXCEPT ![Len(stack)] = [Top EXCEPT !.at = at]]
    BY <1>1
  <1>4. stack' \in Seq(Call)
    BY <1>1, <1>2, <1>3, ExceptSeq, LenProperties
  <1>5. \A i \in DOMAIN stack' : stack'[i].at # "ask"
    BY <1>1, <1>2, <1>3, NotAsking DEF Asking
  <1> QED BY <1>4, <1>5 DEF AskOnTop, Asking

-----------------------------------------------------------------------------
(* The steps. *)

\* openConnection, when nothing is under way: refused, allowed or asked for.
LEMMA OpenIsSound ==
  ASSUME IInv, ~Asking, NEW n \in Node, ~n.stopped, n.timers = {},
         OpenRefused(n) \/ OpenAllowed(n) \/ OpenAsks(n)
  PROVE  IInv'
  <1> DEFINE c == Cleared(n)
  <1>1. c \in Node /\ Idle(c) /\ ~c.accepts /\ c.buffer = <<>> /\ ~c.stopped
        /\ c.timers = {}
    BY ClearedShape
  <1> HIDE DEF c
  <1>2. CASE OpenRefused(n)
    <2> DEFINE m == scheduleReconnect(c)
    <2>1. m \in Node /\ m.timers = {"reconnect"} /\ Idle(m) /\ ~m.stopped
      BY <1>1, ScheduleShape DEF Idle
    <2>2. Becomes(m)
      BY <1>2 DEF OpenRefused, c
    <2> HIDE DEF m
    <2>3. Sound(m, Asking)
      BY <2>1 DEF Sound, Idle
    <2> QED BY <2>1, <2>2, <2>3, BecomesIsSound
  <1>3. CASE OpenAllowed(n)
    <2> DEFINE m == Dialled(c)
    <2>1. /\ m \in Node /\ m.timers = {"connect"} /\ m.socket = "dialing" /\ m.active
          /\ ~m.ready /\ ~m.stopped /\ ~m.accepts /\ m.buffer = <<>>
      BY <1>1, DialledShape DEF Idle
    <2>2. Becomes(m)
      BY <1>3 DEF OpenAllowed, c
    <2> HIDE DEF m
    <2>3. Sound(m, Asking)
      BY <2>1 DEF Sound, Idle, Cared
    <2> QED BY <2>1, <2>2, <2>3, BecomesIsSound
  <1>4. CASE OpenAsks(n)
    <2>1. [at |-> "ask", own |-> FALSE] \in Call
      BY DEF Call
    <2>2. stack' \in Seq(Call) /\ AskOnTop' /\ Asking'
      BY <1>4, <2>1, CallIsSound, DisownedShape DEF OpenAsks, IInv
    <2>3. Sound(c, TRUE)
      BY <1>1 DEF Sound, Idle
    <2> QED BY <1>1, <1>4, <2>2, <2>3 DEF OpenAsks, IInv, TypeOK, c
  <1> QED BY <1>2, <1>3, <1>4

\* What a socket's own signals find: it is the one connection, nothing else is
\* waited for, and the user is not asked.
LEMMA SocketIsAlone ==
  ASSUME IInv, node.socket # "none"
  PROVE  ~node.stopped /\ ~Asking /\ "reconnect" \notin node.timers /\ Cared(node)
  BY DEF IInv, Sound, Idle, TypeOK

\* A timer of a connection finds the connection.
LEMMA TimerIsOfSocket ==
  ASSUME IInv, "connect" \in node.timers \/ "ping" \in node.timers
  PROVE  node.socket # "none" /\ node.active
  BY DEF IInv, Sound, Cared

\* The reconnect timer is alone.
LEMMA ReconnectIsAlone ==
  ASSUME IInv, "reconnect" \in node.timers
  PROVE  ~Asking /\ ~node.stopped /\ node.timers = {"reconnect"} /\ Idle(node)
  BY DEF IInv, Sound, TypeOK, Node, Timer

\* The user is not asked after the step, and the members are sound.
LEMMA NobodyAsked ==
  ASSUME node' \in Node, stack' \in Seq(Call), undefined' \in BOOLEAN,
         AskOnTop', ~Asking', Sound(node', FALSE)
  PROVE  IInv'
  <1>1. Sound(node, Asking)'
    BY DEF Sound
  <1> QED BY <1>1 DEF IInv, TypeOK

\* Frames come in: the members but for the buffer are those of n.
LEMMA ReadsIsSound ==
  ASSUME IInv, NEW n \in Node, NEW at \in {"loop", "told"}, Reads(n, at),
         ~n.stopped, "reconnect" \notin n.timers, Cared(n), n.ready, ~Asking
  PROVE  IInv'
  <1>1. PICK f \in Seq(Frame) : node' = [n EXCEPT !.buffer = @ \o f]
    <2>1. PICK k \in 0..MaxFrames :
              \E f \in [1..k -> Frame] : node' = [n EXCEPT !.buffer = @ \o f]
      BY DEF Reads
    <2>2. [1..k -> Frame] \subseteq Seq(Frame)
      BY SeqDef
    <2> QED BY <2>1, <2>2
  <1>2. n.buffer \o f \in Seq(Frame)
    BY ConcatProperties DEF Node
  <1>3. node' \in Node /\ node'.stopped = n.stopped /\ node'.timers = n.timers
        /\ node'.socket = n.socket /\ node'.active = n.active /\ node'.ready = n.ready
    BY <1>1, <1>2 DEF Node
  <1>4. [at |-> at, own |-> TRUE] \in Call
    BY DEF Call
  <1>5. stack' \in Seq(Call) /\ AskOnTop' /\ ~Asking'
    BY <1>4, CallIsSound DEF Reads, IInv, TypeOK
  <1>6. Sound(node', FALSE)
    BY <1>3 DEF Sound, Cared
  <1>7. undefined' \in BOOLEAN
    BY DEF Reads, IInv, TypeOK
  <1> QED BY <1>3, <1>5, <1>6, <1>7, NobodyAsked

LEMMA StartIsSound == IInv /\ Start => IInv'
  <1> SUFFICES ASSUME IInv, Start PROVE IInv'
    OBVIOUS
  <1> DEFINE n == [Fresh EXCEPT !.stopped = FALSE]
  <1>1. n \in Node /\ ~n.stopped /\ n.timers = {}
    <2>1. Fresh \in Node /\ Fresh.timers = {}
      BY EmptySeq DEF Fresh, Node
    <2> QED BY <2>1 DEF Node
  <1>2. ~Asking
    BY EmptySeq DEF Start, Asking
  <1>3. OpenRefused(n) \/ OpenAllowed(n) \/ OpenAsks(n)
    BY DEF Start
  <1> HIDE DEF n
  <1> QED BY <1>1, <1>2, <1>3, OpenIsSound

LEMMA StopIsSound == IInv /\ Stop => IInv'
  <1> SUFFICES ASSUME IInv, Stop PROVE IInv'
    OBVIOUS
  <1> DEFINE d == discardCurrentSocket(node)
             n == [d EXCEPT !.stopped = TRUE, !.timers = {}, !.ready = FALSE,
                            !.accepts = FALSE, !.active = FALSE]
  <1>1. d \in Node /\ d.socket = "none"
    BY DEF IInv, TypeOK, Node, discardCurrentSocket
  <1>2. n \in Node /\ n.stopped /\ n.timers = {} /\ Idle(n)
    BY <1>1 DEF Node, Idle
  <1>3. Becomes(n)
    BY DEF Stop
  <1> HIDE DEF n
  <1>4. Sound(n, Asking)
    BY <1>2 DEF Sound, Idle
  <1> QED BY <1>2, <1>3, <1>4, BecomesIsSound

LEMMA OpensIsSound == IInv /\ Opens => IInv'
  <1> SUFFICES ASSUME IInv, Opens PROVE IInv'
    OBVIOUS
  <1> DEFINE n == Without("reconnect")
  <1>1. "reconnect" \in node.timers
    BY DEF Opens, ReconnectRefused, ReconnectAllowed, ReconnectAsks, Fires
  <1>2. n \in Node /\ n.timers = {} /\ ~n.stopped /\ ~Asking
    BY <1>1, ReconnectIsAlone DEF IInv, TypeOK, Node, Without
  <1>3. OpenRefused(n) \/ OpenAllowed(n) \/ OpenAsks(n)
    BY DEF Opens, ReconnectRefused, ReconnectAllowed, ReconnectAsks
  <1> HIDE DEF n
  <1> QED BY <1>2, <1>3, OpenIsSound

LEMMA AskEndsIsSound == IInv /\ AskEnds => IInv'
  <1> SUFFICES ASSUME IInv, AskEnds PROVE IInv'
    OBVIOUS
  <1>1. stack' \in Seq(Call) /\ AskOnTop' /\ ~Asking'
    BY ReturnIsSound DEF AskEnds
  <1>2. node \in Node /\ undefined' \in BOOLEAN
    BY DEF AskEnds, IInv, TypeOK
  <1>3. Asking
    BY TopShape DEF AskEnds, IInv, Asking
  <1>4. CASE node.stopped
    <2>1. node' = node
      BY <1>4 DEF AskEnds
    <2>2. Sound(node, FALSE)
      BY <1>3, <1>4 DEF IInv, Sound, Idle
    <2> QED BY <1>1, <1>2, <2>1, <2>2, NobodyAsked
  <1>5. CASE ~node.stopped
    <2>1. Idle(node) /\ "reconnect" \notin node.timers /\ "connect" \notin node.timers
          /\ ~node.accepts /\ node.buffer = <<>> /\ "ping" \notin node.timers
      BY <1>3, <1>5 DEF IInv, Sound
    <2>2. node' = scheduleReconnect(node) \/ node' = Dialled(node)
      BY <1>5 DEF AskEnds
    <2>3. CASE node' = scheduleReconnect(node)
      <3> DEFINE m == scheduleReconnect(node)
      <3>1. /\ m \in Node /\ ~m.stopped /\ m.socket = "none" /\ ~m.active /\ ~m.ready
            /\ m.timers = (node.timers \ {"connect"}) \cup {"reconnect"}
        BY <1>2, <1>5, <2>1, ScheduleShape, Zenon DEF Idle
      <3> HIDE DEF m
      <3>2. /\ node' \in Node /\ "reconnect" \in node'.timers /\ Idle(node')
            /\ ~node'.stopped /\ "connect" \notin node'.timers
            /\ "ping" \notin node'.timers
        BY <2>1, <2>3, <3>1 DEF Idle, m
      <3>3. Sound(node', FALSE)
        BY <3>2 DEF Sound, Idle
      <3> QED BY <1>1, <1>2, <3>2, <3>3, NobodyAsked
    <2>4. CASE node' = Dialled(node)
      <3>1. /\ node' \in Node /\ "reconnect" \notin node'.timers
            /\ node'.socket = "dialing" /\ node'.active /\ ~node'.ready
            /\ "connect" \in node'.timers /\ ~node'.stopped
            /\ ~node'.accepts /\ node'.buffer = <<>>
        BY <1>2, <1>5, <2>1, <2>4, DialledShape DEF Idle
      <3>2. Sound(node', FALSE)
        BY <3>1 DEF Sound, Cared
      <3> QED BY <1>1, <1>2, <3>1, <3>2, NobodyAsked
    <2> QED BY <2>2, <2>3, <2>4
  <1> QED BY <1>4, <1>5

\* A connection fails, whoever noticed it.
LEMMA FailingIsSound ==
  ASSUME IInv, NEW n \in Node, Sound(n, Asking), Becomes(failCurrentConnection(n))
  PROVE  IInv'
  <1> DEFINE m == failCurrentConnection(n)
  <1>1. Asking \in BOOLEAN
    BY DEF Asking
  <1>2. m \in Node /\ Sound(m, Asking)
    BY <1>1, FailIsSound
  <1> HIDE DEF m
  <1>3. Becomes(m)
    BY DEF m
  <1> QED BY <1>2, <1>3, BecomesIsSound

LEMMA ConnectTimeoutIsSound == IInv /\ ConnectTimeout => IInv'
  <1> SUFFICES ASSUME IInv, ConnectTimeout PROVE IInv'
    OBVIOUS
  <1> DEFINE n == Without("connect")
  <1>1. "connect" \in node.timers /\ node \in Node
    BY DEF ConnectTimeout, Fires, IInv, TypeOK
  <1>2. Cared(node) /\ ~node.stopped /\ ~Asking /\ "reconnect" \notin node.timers
    BY <1>1, TimerIsOfSocket, SocketIsAlone
  <1>3. n \in Node /\ n.timers = node.timers \ {"connect"} /\ n.socket = node.socket
        /\ n.stopped = node.stopped /\ n.ready = node.ready /\ n.active = node.active
        /\ n.accepts = node.accepts /\ n.buffer = node.buffer
    BY <1>1 DEF Without, Node, Timer
  <1>4. Becomes(IF n.ready \/ n.stopped \/ ~n.active THEN n
                ELSE failCurrentConnection(n))
    BY DEF ConnectTimeout
  <1> HIDE DEF n
  <1>5. CASE node.ready
    <2>1. Sound(n, Asking)
      BY <1>2, <1>3, <1>5 DEF Sound, Cared
    <2>2. Becomes(n)
      BY <1>3, <1>4, <1>5
    <2> QED BY <1>3, <2>1, <2>2, BecomesIsSound
  <1>6. CASE ~node.ready
    <2> DEFINE m == failCurrentConnection(n)
               d == discardCurrentSocket(n)
               c == [d EXCEPT !.active = FALSE, !.ready = FALSE, !.accepts = FALSE,
                              !.timers = @ \ {"ping", "connect"}]
    <2>1. Becomes(m)
      BY <1>2, <1>3, <1>4, <1>6 DEF Cared
    <2>2. d \in Node /\ d.socket = "none" /\ d.active /\ ~d.stopped
          /\ d.timers = n.timers
      BY <1>2, <1>3 DEF Node, discardCurrentSocket, Cared
    <2>3. c \in Node /\ Idle(c) /\ ~c.stopped
          /\ c.timers = n.timers \ {"ping", "connect"}
      BY <2>2 DEF Node, Timer, Idle
    <2>4. m = scheduleReconnect(c)
      BY <2>2 DEF failCurrentConnection, handleLinkLost
    <2> HIDE DEF c, d, m
    <2>5. m \in Node /\ Idle(m) /\ ~m.stopped
          /\ m.timers = ((n.timers \ {"ping", "connect"}) \ {"connect"}) \cup {"reconnect"}
      BY <2>3, <2>4, ScheduleShape DEF Idle
    <2>6. Sound(m, Asking)
      BY <1>2, <2>5 DEF Sound, Idle
    <2> QED BY <2>1, <2>5, <2>6, BecomesIsSound
  <1> QED BY <1>5, <1>6

LEMMA LostIsSound == IInv /\ (PingTick \/ Disconnected \/ Refused) => IInv'
  BY FailingIsSound DEF IInv, TypeOK, PingTick, Disconnected, Refused

LEMMA GoesSilentIsSound == IInv /\ GoesSilent => IInv'
  <1> SUFFICES ASSUME IInv, GoesSilent PROVE IInv'
    OBVIOUS
  <1>1. /\ node' \in Node /\ node'.stopped = node.stopped
        /\ node'.socket = node.socket /\ node'.ready = node.ready
        /\ node'.active = node.active /\ node'.timers = node.timers
        /\ node'.accepts = node.accepts /\ node'.buffer = node.buffer
    BY DEF GoesSilent, IInv, TypeOK, Node
  <1>2. UNCHANGED <<stack, undefined>>
    BY DEF GoesSilent
  <1>3. Sound(node', Asking)
    BY <1>1 DEF IInv, Sound, Idle, Cared
  <1>4. Asking' = Asking /\ AskOnTop'
    BY <1>2 DEF Asking, AskOnTop, IInv
  <1> QED BY <1>1, <1>2, <1>3, <1>4 DEF IInv, TypeOK

LEMMA ConnectedIsSound == IInv /\ Connected => IInv'
  <1> SUFFICES ASSUME IInv, Connected PROVE IInv'
    OBVIOUS
  <1> DEFINE n == [node EXCEPT !.socket = "asked"]
  <1>1. n \in Node /\ n.stopped = node.stopped /\ n.socket = "asked"
        /\ n.ready = node.ready /\ n.active = node.active /\ n.timers = node.timers
        /\ n.accepts = node.accepts /\ n.buffer = node.buffer
    BY DEF IInv, TypeOK, Node
  <1>2. node.socket # "none" /\ Becomes(n)
    BY DEF Connected
  <1> HIDE DEF n
  <1>3. Sound(n, Asking)
    BY <1>1, <1>2 DEF IInv, Sound, Idle, Cared
  <1> QED BY <1>1, <1>2, <1>3, BecomesIsSound

LEMMA UpgradedIsSound == IInv /\ Upgraded => IInv'
  <1> SUFFICES ASSUME IInv, Upgraded PROVE IInv'
    OBVIOUS
  <1> DEFINE n == [node EXCEPT !.socket = "open", !.ready = TRUE, !.active = TRUE,
                               !.shift = 0, !.silent = FALSE,
                               !.timers = (@ \ {"reconnect", "connect"}) \cup {"ping"}]
  <1>1. PICK at \in {"loop", "told"} : Reads(n, at)
    BY DEF Upgraded
  <1>2. ~Asking /\ ~node.stopped
    BY SocketIsAlone DEF Upgraded
  <1>3. n \in Node /\ ~n.stopped /\ n.ready /\ Cared(n) /\ "reconnect" \notin n.timers
    <2>1. (node.timers \ {"reconnect", "connect"}) \cup {"ping"} \in SUBSET Timer
      BY DEF IInv, TypeOK, Node, Timer
    <2>2. 0 \in 0..MaxShift
      OBVIOUS
    <2>3. n \in Node
      BY <2>1, <2>2 DEF IInv, TypeOK, Node
    <2> QED BY <1>2, <2>3 DEF IInv, TypeOK, Node, Cared
  <1> HIDE DEF n
  <1> QED BY <1>1, <1>2, <1>3, ReadsIsSound

LEMMA ReceivedIsSound == IInv /\ Received => IInv'
  <1> SUFFICES ASSUME IInv, Received PROVE IInv'
    OBVIOUS
  <1> DEFINE n == [node EXCEPT !.silent = FALSE]
  <1>1. Reads(n, "loop")
    BY DEF Received
  <1>2. ~Asking /\ ~node.stopped /\ "reconnect" \notin node.timers /\ Cared(node)
        /\ node.ready
    BY SocketIsAlone DEF Received
  <1>3. n \in Node /\ ~n.stopped /\ n.ready /\ Cared(n) /\ "reconnect" \notin n.timers
    BY <1>2 DEF IInv, TypeOK, Node, Cared
  <1> HIDE DEF n
  <1> QED BY <1>1, <1>2, <1>3, ReadsIsSound

LEMMA HandlerEndsIsSound == IInv /\ HandlerEnds => IInv'
  <1> SUFFICES ASSUME IInv, HandlerEnds PROVE IInv'
    OBVIOUS
  <1>1. stack # <<>> /\ Top.at # "ask" /\ node' = node /\ undefined' \in BOOLEAN
    BY DEF HandlerEnds, IInv, TypeOK
  <1>2. stack' = Under \/ stack' = [stack EXCEPT ![Len(stack)].at = "loop"]
    BY DEF HandlerEnds
  <1>3. stack' \in Seq(Call) /\ AskOnTop' /\ ~Asking'
    BY <1>1, <1>2, ReturnIsSound, TurnIsSound
  <1>4. Sound(node, FALSE)
    BY <1>1, NotAsking DEF IInv, Sound
  <1> QED BY <1>1, <1>3, <1>4, NobodyAsked DEF IInv, TypeOK

\* The read loop, whosever it is.
LEMMA LoopIsSound == IInv /\ Loop => IInv'
  <1> SUFFICES ASSUME IInv, Loop PROVE IInv'
    OBVIOUS
  <1>1. stack # <<>> /\ Top.at = "loop"
    BY DEF Loop, LoopEnds, TooBig, CloseFrame, Greeted, Skipped, Event, Comes, InLoop
  <1>2. ~Asking /\ Sound(node, FALSE) /\ node \in Node
    BY <1>1, NotAsking DEF IInv, Sound, TypeOK
  <1>3. stack' \in Seq(Call) /\ AskOnTop' /\ ~Asking' /\ undefined' \in BOOLEAN
    <2>1. CASE LoopEnds \/ TooBig \/ CloseFrame
      BY <1>1, <2>1, ReturnIsSound DEF LoopEnds, TooBig, CloseFrame, IInv, TypeOK
    <2>2. CASE Event
      BY <1>1, <2>2, TurnIsSound DEF Event, IInv, TypeOK
    <2>3. CASE Greeted \/ Skipped
      BY <1>2, <2>3 DEF Greeted, Skipped, IInv, TypeOK, AskOnTop, Asking
    <2> QED BY <2>1, <2>2, <2>3 DEF Loop
  <1>4. ASSUME node.buffer # <<>>
        PROVE  /\ Rest \in Node /\ Rest.stopped = node.stopped
               /\ Rest.socket = node.socket /\ Rest.ready = node.ready
               /\ Rest.active = node.active /\ Rest.timers = node.timers
               /\ Rest.accepts = node.accepts
    <2>1. Tail(node.buffer) \in Seq(Frame)
      BY <1>2, <1>4, HeadTailProperties DEF Node
    <2> QED BY <1>2, <2>1 DEF Rest, Node
  <1>5. ASSUME node.buffer # <<>>, NEW m \in Node, m.stopped = node.stopped,
               m.ready = node.ready, m.active = node.active, m.timers = node.timers,
               m.socket = "none" <=> node.socket = "none"
        PROVE  Sound(m, FALSE)
    BY <1>2, <1>5 DEF Sound, Idle, Cared
  <1>6. CASE LoopEnds
    BY <1>2, <1>3, <1>6, NobodyAsked DEF LoopEnds
  <1>7. CASE TooBig
    BY <1>2, <1>3, <1>7, FailIsSound, NobodyAsked DEF TooBig
  <1>8. CASE CloseFrame
    <2>1. node.buffer # <<>>
      BY <1>8 DEF CloseFrame, Comes
    <2>2. CASE node.socket = "none"
      BY <1>2, <1>3, <1>8, <2>2, NobodyAsked DEF CloseFrame
    <2>3. CASE node.socket # "none"
      <3>1. node' = [Rest EXCEPT !.socket = "closing"]
        BY <1>8, <2>3 DEF CloseFrame
      <3>2. node' \in Node /\ node'.stopped = node.stopped /\ node'.socket = "closing"
            /\ node'.ready = node.ready /\ node'.active = node.active
            /\ node'.timers = node.timers
        BY <1>4, <2>1, <3>1 DEF Node
      <3>3. Sound(node', FALSE)
        BY <1>5, <2>1, <2>3, <3>2
      <3> QED BY <1>3, <3>2, <3>3, NobodyAsked
    <2> QED BY <2>2, <2>3
  <1>9. CASE Greeted
    <2>1. node.buffer # <<>>
      BY <1>9 DEF Greeted, Comes
    <2>2. PICK b \in BOOLEAN : node' = [Rest EXCEPT !.accepts = b]
      BY <1>9 DEF Greeted
    <2>3. node' \in Node /\ node'.stopped = node.stopped /\ node'.socket = node.socket
          /\ node'.ready = node.ready /\ node'.active = node.active
          /\ node'.timers = node.timers
      BY <1>4, <2>1, <2>2 DEF Node
    <2>4. Sound(node', FALSE)
      BY <1>5, <2>1, <2>3
    <2> QED BY <1>3, <2>3, <2>4, NobodyAsked
  <1>10. CASE Skipped \/ Event
    <2>1. node.buffer # <<>> /\ node' = Rest
      BY <1>10 DEF Skipped, Event, Comes
    <2>2. Sound(node', FALSE)
      BY <1>4, <1>5, <2>1
    <2> QED BY <1>3, <1>4, <2>1, <2>2, NobodyAsked
  <1> QED BY <1>6, <1>7, <1>8, <1>9, <1>10 DEF Loop

LEMMA InitIsSound == Init => IInv
  <1> SUFFICES ASSUME Init PROVE IInv
    OBVIOUS
  <1>1. Fresh \in Node /\ stack \in Seq(Call)
    BY EmptySeq DEF Fresh, Node, Init
  <1>2. ~Asking /\ AskOnTop
    BY EmptySeq DEF Init, Asking, AskOnTop
  <1>3. Sound(node, Asking)
    BY <1>2 DEF Init, Fresh, Sound, Idle
  <1> QED BY <1>1, <1>2, <1>3 DEF Init, IInv, TypeOK

LEMMA NextIsSound == IInv /\ [Next]_vars => IInv'
  <1> SUFFICES ASSUME IInv, [Next]_vars PROVE IInv'
    OBVIOUS
  <1>1. CASE Next
    BY <1>1, StartIsSound, StopIsSound, OpensIsSound, AskEndsIsSound,
       ConnectTimeoutIsSound, LostIsSound, GoesSilentIsSound, ConnectedIsSound,
       UpgradedIsSound, ReceivedIsSound, HandlerEndsIsSound, LoopIsSound DEF Next
  <1>2. CASE UNCHANGED vars
    BY <1>2 DEF vars, IInv, TypeOK, AskOnTop, Sound, Idle, Cared, Asking
  <1> QED BY <1>1, <1>2

\* The invariant holds of every behaviour.
THEOREM Inductive == Spec => []IInv
  BY InitIsSound, NextIsSound, PTL DEF Spec

\* The three invariants of the runs, for every bound.
THEOREM TypesHold == Spec => []TypeOK
  BY Inductive, InvariantsFollow, PTL

\* A link that was started is never left to itself, one that was stopped is
\* left alone.
THEOREM LinkIsWatched == Spec => []NeverStranded
  BY Inductive, InvariantsFollow, PTL

\* There is one connection, or one that is waited for.
THEOREM OneConnection == Spec => []OneAttempt
  BY Inductive, InvariantsFollow, PTL

-----------------------------------------------------------------------------
(* The socket implements the link that its owner sees. *)

\* What a step does that the owner sees: only a start ends a stop, and only an
\* upgrade makes a link ready, which then offers nothing.
Quiet == (node.stopped => node'.stopped) /\ (node'.ready => node.ready)

\* scheduleReconnect, openConnection and a failure do neither.
LEMMA CallsAreQuiet ==
  ASSUME NEW n \in Node
  PROVE  /\ ~scheduleReconnect(Cleared(n)).ready
         /\ ~Dialled(Cleared(n)).ready
         /\ ~Cleared(n).ready
         /\ scheduleReconnect(Cleared(n)).stopped = n.stopped
         /\ Dialled(Cleared(n)).stopped = n.stopped
         /\ Cleared(n).stopped = n.stopped
  <1> DEFINE c == Cleared(n)
  <1>1. c \in Node /\ ~c.ready /\ c.stopped = n.stopped
    BY ClearedShape DEF Idle
  <1> HIDE DEF c
  <1>2. scheduleReconnect(c).ready = c.ready /\ scheduleReconnect(c).stopped = c.stopped
    BY <1>1, ScheduleShape, Zenon
  <1>3. Dialled(c).ready = c.ready /\ Dialled(c).stopped = c.stopped
    BY <1>1, DialledShape, Zenon
  <1> QED BY <1>1, <1>2, <1>3 DEF c

\* The opens end with a link that is not ready.
LEMMA OpenedIsDown ==
  ASSUME NEW n \in Node, OpenRefused(n) \/ OpenAllowed(n) \/ OpenAsks(n)
  PROVE  ~node'.ready /\ node'.stopped = n.stopped
  BY CallsAreQuiet DEF OpenRefused, OpenAllowed, OpenAsks, Becomes

\* Every step but a start and an upgrade is quiet.
LEMMA OthersAreQuiet ==
  ASSUME IInv, [Next]_vars
  PROVE  Quiet \/ Start \/ Upgraded
  <1> USE DEF Quiet
  <1>1. node \in Node /\ Sound(node, Asking)
    BY DEF IInv, TypeOK
  <1>2. CASE Stop
    BY <1>1, <1>2 DEF Stop, Becomes, discardCurrentSocket, Node
  <1>3. CASE Opens
    <2>1. Without("reconnect") \in Node /\ Without("reconnect").stopped = node.stopped
      BY <1>1 DEF Without, Node
    <2> QED BY <1>3, <2>1, OpenedIsDown
            DEF Opens, ReconnectRefused, ReconnectAllowed, ReconnectAsks
  <1>4. CASE AskEnds
    <2>1. CASE node' = scheduleReconnect(node)
      BY <1>1, <2>1, ScheduleShape, Zenon
    <2>2. CASE node' = Dialled(node)
      BY <1>1, <2>2, DialledShape, Zenon
    <2>3. CASE node' = node
      BY <2>3
    <2> QED BY <1>4, <2>1, <2>2, <2>3 DEF AskEnds
  <1>5. CASE ConnectTimeout
    <2> DEFINE n == Without("connect")
               d == discardCurrentSocket(n)
               c == [d EXCEPT !.active = FALSE, !.ready = FALSE, !.accepts = FALSE,
                              !.timers = @ \ {"ping", "connect"}]
    <2>1. n \in Node /\ n.stopped = node.stopped /\ n.ready = node.ready
      BY <1>1 DEF Without, Node, Timer
    <2>2. d \in Node /\ d.stopped = n.stopped /\ d.ready = n.ready
      BY <2>1 DEF Node, discardCurrentSocket
    <2>3. c \in Node /\ c.stopped = n.stopped /\ ~c.ready
      BY <2>2 DEF Node, Timer
    <2>4. node' \in {n, d, scheduleReconnect(c)}
      BY <1>5 DEF ConnectTimeout, Becomes, failCurrentConnection, handleLinkLost
    <2> HIDE DEF n, d, c
    <2>5. scheduleReconnect(c).ready = c.ready
          /\ scheduleReconnect(c).stopped = c.stopped
      BY <2>3, ScheduleShape, Zenon
    <2> QED BY <2>1, <2>2, <2>3, <2>4, <2>5
  <1>6. CASE PingTick \/ Disconnected \/ Refused \/ TooBig
    <2>1. node' = failCurrentConnection(node)
      BY <1>6 DEF PingTick, Disconnected, Refused, TooBig, Becomes
    <2>2. Asking \in BOOLEAN
      BY DEF Asking
    <2> QED BY <1>1, <2>1, <2>2, FailIsSound
  <1>7. CASE GoesSilent \/ Connected
    BY <1>1, <1>7 DEF GoesSilent, Connected, Becomes, Node
  <1>8. CASE Received
    BY <1>1, <1>8 DEF Received, Reads, Node
  <1>9. CASE HandlerEnds \/ LoopEnds \/ UNCHANGED vars
    BY <1>9 DEF HandlerEnds, LoopEnds, vars
  <1>10. CASE CloseFrame \/ Greeted \/ Skipped \/ Event
    BY <1>1, <1>10 DEF CloseFrame, Greeted, Skipped, Event, Rest, Node
  <1> QED BY <1>2, <1>3, <1>4, <1>5, <1>6, <1>7, <1>8, <1>9, <1>10 DEF Next, Loop

\* What a step does to the link, by what it does to the members.
LEMMA SeenSteps ==
  ASSUME IInv, IInv', node.stopped /\ ~node'.stopped => ~node'.ready,
         ~node.ready /\ node'.ready => ~node'.accepts
  PROVE  [Link!LinkNext]_(Link!linkVars)
  <1>1. node.stopped => ~node.ready
    BY DEF IInv, Sound, Idle
  <1>2. node'.stopped => ~node'.ready
    BY DEF IInv, Sound, Idle
  <1>3. node.ready \in BOOLEAN /\ node.accepts \in BOOLEAN /\ node.stopped \in BOOLEAN
        /\ node'.ready \in BOOLEAN /\ node'.accepts \in BOOLEAN
        /\ node'.stopped \in BOOLEAN
    BY DEF IInv, TypeOK, Node
  <1> QED BY <1>1, <1>2, <1>3 DEF Link!LinkNext, Link!linkVars, Link!SwitchOn,
             Link!SwitchOff, Link!GoesUp, Link!GoesDown, Link!Hello

\* The owner sees a link that goes up and down, and that offers to carry signed
\* writes only while it is up and as the relay said on this connection.
THEOREM SocketIsALink == Spec => ImplementsLink
  <1>1. Init => Link!LinkInit
    BY DEF Init, Fresh, Link!LinkInit
  <1>2. IInv /\ IInv' /\ [Next]_vars => [Link!LinkNext]_(Link!linkVars)
    <2> SUFFICES ASSUME IInv, IInv', [Next]_vars
                 PROVE  [Link!LinkNext]_(Link!linkVars)
      OBVIOUS
    <2>1. CASE Quiet
      BY <2>1, SeenSteps DEF Quiet, IInv, Sound, Idle
    <2>2. CASE Start
      <3>1. [Fresh EXCEPT !.stopped = FALSE] \in Node
        <4>1. Fresh \in Node
          BY EmptySeq DEF Fresh, Node
        <4> QED BY <4>1 DEF Node
      <3>2. ~node'.ready
        BY <2>2, <3>1, OpenedIsDown DEF Start
      <3> QED BY <3>2, SeenSteps
    <2>3. CASE Upgraded
      <3>1. node.socket # "none" /\ node'.accepts = node.accepts
            /\ node'.stopped = node.stopped
        BY <2>3 DEF Upgraded, Reads, IInv, TypeOK, Node
      <3>2. ~node.stopped
        BY <3>1, SocketIsAlone
      <3>3. ~node.ready => ~node.accepts
        BY <3>1 DEF IInv, Sound
      <3> QED BY <3>1, <3>2, <3>3, SeenSteps
    <2> QED BY <2>1, <2>2, <2>3, OthersAreQuiet
  <1> QED BY <1>1, <1>2, Inductive, PTL DEF Spec, ImplementsLink, Link!LinkSpec
=============================================================================
