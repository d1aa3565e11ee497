------------------------- MODULE ActionQueueProofs -------------------------
(***************************************************************************)
(* More proofs about module ActionScheduler, from the inductive invariant  *)
(* of ActionSchedulerProofs: the queue holds each queued run once, at most *)
(* one run of a workflow is live, a run's mirror stays pinned and its      *)
(* signal names it, a run starts after what it needs, and each runner      *)
(* lives the life of a run that ActionRunner implements.                   *)
(***************************************************************************)
EXTENDS ActionSchedulerProofs, SequenceTheorems

-----------------------------------------------------------------------------
(* The queue as a set of ids.                                              *)

Ids(q) == {q[i] : i \in DOMAIN q}

Distinct(q) == \A i, j \in DOMAIN q : q[i] = q[j] => i = j

\* What dropping one position does.
LEMMA DropFacts ==
    ASSUME NEW q \in Seq(Nat), Distinct(q), NEW i \in DOMAIN q
    PROVE  /\ Distinct(DropAt(q, i))
           /\ Ids(DropAt(q, i)) = Ids(q) \ {q[i]}
<1> DEFINE d == DropAt(q, i)
<1>1. /\ DOMAIN q = 1..Len(q) /\ Len(q) \in Nat
      /\ DOMAIN d = 1..(Len(q) - 1)
      /\ \A k \in DOMAIN d : d[k] = IF k < i THEN q[k] ELSE q[k + 1]
  <2> DEFINE u == SubSeq(q, 1, i - 1)
             v == SubSeq(q, i + 1, Len(q))
  <2>1. /\ u \in Seq(Nat) /\ Len(u) = i - 1
        /\ \A k \in 1..(i - 1) : u[k] = q[k]
    BY SubSeqProperties
  <2>2. /\ v \in Seq(Nat) /\ Len(v) = Len(q) - i
        /\ \A k \in 1..(Len(q) - i) : v[k] = q[k + i]
    BY SubSeqProperties
  <2> HIDE DEF u, v
  <2>3. /\ u \o v \in Seq(Nat) /\ Len(u \o v) = Len(q) - 1
        /\ \A k \in 1..(Len(q) - 1) :
              (u \o v)[k] = IF k <= i - 1 THEN u[k] ELSE v[k - (i - 1)]
    <3>1. /\ u \o v \in Seq(Nat) /\ Len(u \o v) = Len(u) + Len(v)
          /\ \A k \in 1..(Len(u) + Len(v)) :
                (u \o v)[k] = IF k <= Len(u) THEN u[k] ELSE v[k - Len(u)]
      BY <2>1, <2>2, ConcatProperties
    <3>2. Len(u) + Len(v) = Len(q) - 1
      BY <2>1, <2>2
    <3> QED BY <2>1, <3>1, <3>2
  <2>4. d = u \o v
    BY DEF DropAt, u, v
  <2> HIDE DEF d
  <2>5. DOMAIN d = 1..(Len(q) - 1)
    BY <2>3, <2>4
  <2>6. ASSUME NEW k \in DOMAIN d
        PROVE  d[k] = IF k < i THEN q[k] ELSE q[k + 1]
    <3>1. CASE k < i
      BY <2>1, <2>3, <2>4, <2>5, <3>1
    <3>2. CASE ~(k < i)
      <4>1. k - (i - 1) \in 1..(Len(q) - i)
        BY <2>5, <3>2
      <4>2. v[k - (i - 1)] = q[(k - (i - 1)) + i]
        BY <2>2, <4>1
      <4>3. (k - (i - 1)) + i = k + 1 /\ ~(k <= i - 1)
        BY <2>5, <3>2
      <4>4. d[k] = v[k - (i - 1)]
        BY <2>3, <2>4, <2>5, <4>3
      <4> QED BY <3>2, <4>2, <4>3, <4>4
    <3> QED BY <3>1, <3>2
  <2> QED BY <2>5, <2>6
<1> HIDE DEF d
<1>2. Distinct(d)
  <2> SUFFICES ASSUME NEW j \in DOMAIN d, NEW k \in DOMAIN d, d[j] = d[k]
               PROVE  j = k
    BY DEF Distinct
  <2>1. /\ (IF j < i THEN j ELSE j + 1) \in DOMAIN q
        /\ (IF k < i THEN k ELSE k + 1) \in DOMAIN q
        /\ q[IF j < i THEN j ELSE j + 1] = q[IF k < i THEN k ELSE k + 1]
    BY <1>1
  <2>2. (IF j < i THEN j ELSE j + 1) = (IF k < i THEN k ELSE k + 1)
    BY <2>1 DEF Distinct
  <2> QED BY <1>1, <2>2
<1>3. ASSUME NEW x \in Ids(d) PROVE x \in Ids(q) /\ x # q[i]
  <2>1. PICK k \in DOMAIN d : x = d[k]
    BY <1>3 DEF Ids
  <2> QED BY <1>1, <2>1 DEF Ids, Distinct
<1>4. ASSUME NEW x \in Ids(q), x # q[i] PROVE x \in Ids(d)
  <2>1. PICK k \in DOMAIN q : x = q[k] /\ k # i
    BY <1>4 DEF Ids
  <2>2. CASE k < i
    <3>1. k \in DOMAIN d /\ d[k] = x
      BY <1>1, <2>1, <2>2
    <3> QED BY <3>1 DEF Ids
  <2>3. CASE k > i
    <3>1. k - 1 \in DOMAIN d /\ d[k - 1] = x
      BY <1>1, <2>1, <2>3
    <3> QED BY <3>1 DEF Ids
  <2> QED BY <1>1, <2>1, <2>2, <2>3
<1> QED BY <1>2, <1>3, <1>4 DEF d

\* removeAll on a queue without repetitions.
LEMMA WithoutFacts ==
    ASSUME NEW q \in Seq(Nat), Distinct(q), NEW id
    PROVE  /\ Distinct(Without(q, id))
           /\ Ids(Without(q, id)) = Ids(q) \ {id}
<1>1. CASE \E i \in DOMAIN q : q[i] = id
  <2>1. PICK i \in DOMAIN q : q[i] = id /\ Without(q, id) = DropAt(q, i)
    BY <1>1 DEF Without
  <2> QED BY <2>1, DropFacts
<1>2. CASE ~\E i \in DOMAIN q : q[i] = id
  BY <1>2 DEF Without, Ids
<1> QED BY <1>1, <1>2

\* Appending an id that is not in the queue.
LEMMA AppendFacts ==
    ASSUME NEW q \in Seq(Nat), Distinct(q), NEW id \in Nat, id \notin Ids(q)
    PROVE  /\ Distinct(Append(q, id))
           /\ Ids(Append(q, id)) = Ids(q) \cup {id}
<1> DEFINE a == Append(q, id)
<1>1. /\ DOMAIN q = 1..Len(q) /\ Len(q) \in Nat
      /\ DOMAIN a = 1..(Len(q) + 1)
      /\ \A k \in DOMAIN a : a[k] = IF k <= Len(q) THEN q[k] ELSE id
  OBVIOUS
<1> HIDE DEF a
<1>2. Distinct(a)
  <2> SUFFICES ASSUME NEW j \in DOMAIN a, NEW k \in DOMAIN a, a[j] = a[k]
               PROVE  j = k
    BY DEF Distinct
  <2> QED BY <1>1 DEF Distinct, Ids
<1>3. ASSUME NEW x \in Ids(a) PROVE x \in Ids(q) \cup {id}
  <2>1. PICK k \in DOMAIN a : x = a[k]
    BY <1>3 DEF Ids
  <2> QED BY <1>1, <2>1 DEF Ids
<1>4. ASSUME NEW x \in Ids(q) \cup {id} PROVE x \in Ids(a)
  <2>1. CASE x = id
    <3>1. Len(q) + 1 \in DOMAIN a /\ a[Len(q) + 1] = id
      BY <1>1
    <3> QED BY <2>1, <3>1 DEF Ids
  <2>2. CASE x \in Ids(q)
    <3>1. PICK k \in DOMAIN q : x = q[k]
      BY <2>2 DEF Ids
    <3>2. k \in DOMAIN a /\ a[k] = x
      BY <1>1, <3>1
    <3> QED BY <3>2 DEF Ids
  <2> QED BY <2>1, <2>2
<1> QED BY <1>2, <1>3, <1>4 DEF a

-----------------------------------------------------------------------------
(* The call stack as a set of frames.                                      *)

Frames(s) == {s[i] : i \in DOMAIN s}

LEMMA PushFrames ==
    ASSUME NEW f \in Frame, NEW s \in Seq(Frame)
    PROVE  Frames(Push(f, s)) = {f} \cup Frames(s)
<1> DEFINE t == Push(f, s)
<1>1. /\ DOMAIN t = 1..(Len(s) + 1) /\ t[1] = f
      /\ \A i \in DOMAIN s : t[i + 1] = s[i]
      /\ \A i \in DOMAIN t : i # 1 => i - 1 \in DOMAIN s /\ t[i] = s[i - 1]
  BY PushFacts
<1>0. DOMAIN s = 1..Len(s) /\ Len(s) \in Nat
  OBVIOUS
<1> HIDE DEF t
<1>2. ASSUME NEW i \in DOMAIN t PROVE t[i] \in {f} \cup Frames(s)
  BY <1>1 DEF Frames
<1>3. 1 \in DOMAIN t /\ \A i \in DOMAIN s : i + 1 \in DOMAIN t
  BY <1>0, <1>1
<1>4. f \in Frames(t)
  BY <1>1, <1>3 DEF Frames
<1>5. ASSUME NEW i \in DOMAIN s PROVE s[i] \in Frames(t)
  BY <1>1, <1>3 DEF Frames
<1> QED BY <1>2, <1>4, <1>5 DEF Frames, t

LEMMA TailFrames ==
    ASSUME NEW s \in Seq(Frame), s # <<>>
    PROVE  Frames(s) = {Head(s)} \cup Frames(Tail(s))
<1>1. ASSUME NEW i \in DOMAIN s PROVE s[i] \in {Head(s)} \cup Frames(Tail(s))
  <2>1. CASE i = 1
    BY <2>1
  <2>2. CASE i # 1
    <3>1. i - 1 \in DOMAIN Tail(s) /\ Tail(s)[i - 1] = s[i]
      BY <2>2, TailFacts
    <3> QED BY <3>1 DEF Frames
  <2> QED BY <2>1, <2>2
<1>2. Head(s) \in Frames(s)
  <2>1. 1 \in DOMAIN s /\ s[1] = Head(s)
    OBVIOUS
  <2> QED BY <2>1 DEF Frames
<1>3. ASSUME NEW i \in DOMAIN Tail(s) PROVE Tail(s)[i] \in Frames(s)
  BY TailFacts DEF Frames
<1> QED BY <1>1, <1>2, <1>3 DEF Frames

-----------------------------------------------------------------------------
(* The invariant of the queue.                                             *)

Queued == {id \in DOMAIN runs : runs[id].status = "queued"}

\* The ids that a suspended handler has yet to put in the queue.
Holds(f) == IF f.kind = "supersede" /\ f.flag THEN {f.run}
            ELSE IF f.kind = "reload" THEN f.ids
            ELSE {}

Held(s) == UNION {Holds(f) : f \in Frames(s)}

\* The handlers that create or enqueue runs on their own account.
Enqueuer == {"scan", "supersede", "auto", "reload"}

\* None of them interrupts a cancelSupersededRuns: no run is created inside the
\* creation of another one.
Alone(s) ==
    \A i, j \in DOMAIN s :
        i < j /\ s[j].kind = "supersede" => s[i].kind \notin Enqueuer

\* A suspended creation has a queued run to enqueue, and does not cancel it.
CreatorOK(f, S) ==
    f.kind = "supersede" /\ f.flag => f.run \in S /\ f.run \notin f.ids

\* Of a queue with the ids Q, the queued runs S and the suspended handlers s.
QState(Q, S, s) ==
    /\ Q \subseteq S
    /\ S \subseteq Q \cup Held(s)
    /\ Q \cap Held(s) = {}
    /\ \A f \in Frames(s) : CreatorOK(f, S)
    /\ Alone(s)

QInv == Distinct(queue) /\ QState(Ids(queue), Queued, stack)

LEMMA HeldPush ==
    ASSUME NEW f \in Frame, NEW s \in Seq(Frame)
    PROVE  Held(Push(f, s)) = Holds(f) \cup Held(s)
<1>1. Frames(Push(f, s)) = {f} \cup Frames(s)
  BY PushFrames
<1> QED BY <1>1 DEF Held

LEMMA HeldTail ==
    ASSUME NEW s \in Seq(Frame), s # <<>>
    PROVE  Held(s) = Holds(Head(s)) \cup Held(Tail(s))
<1>1. Frames(s) = {Head(s)} \cup Frames(Tail(s))
  BY TailFrames
<1> QED BY <1>1 DEF Held

NoCreator(s) == \A f \in Frames(s) : f.kind # "supersede"

LEMMA AlonePush ==
    ASSUME NEW f \in Frame, NEW s \in Seq(Frame), Alone(s),
           f.kind \notin Enqueuer \/ NoCreator(s)
    PROVE  Alone(Push(f, s))
<1> DEFINE t == Push(f, s)
<1>1. /\ DOMAIN t = 1..(Len(s) + 1) /\ t[1] = f
      /\ \A i \in DOMAIN t : i # 1 => i - 1 \in DOMAIN s /\ t[i] = s[i - 1]
  BY PushFacts
<1>2. Len(s) \in Nat
  OBVIOUS
<1> HIDE DEF t
<1> SUFFICES ASSUME NEW i \in DOMAIN t, NEW j \in DOMAIN t, i < j,
                    t[j].kind = "supersede"
             PROVE  t[i].kind \notin Enqueuer
  BY DEF Alone, t
<1>3. j - 1 \in DOMAIN s /\ t[j] = s[j - 1]
  BY <1>1, <1>2
<1>4. ~NoCreator(s)
  BY <1>3 DEF NoCreator, Frames
<1>5. CASE i = 1
  BY <1>1, <1>4, <1>5
<1>6. CASE i # 1
  <2>1. i - 1 \in DOMAIN s /\ t[i] = s[i - 1] /\ i - 1 < j - 1
    BY <1>1, <1>2, <1>6
  <2> QED BY <1>3, <2>1 DEF Alone
<1> QED BY <1>5, <1>6

LEMMA AloneTail ==
    ASSUME NEW s \in Seq(Frame), s # <<>>, Alone(s)
    PROVE  /\ Alone(Tail(s))
           /\ Head(s).kind \in Enqueuer => NoCreator(Tail(s))
<1> DEFINE t == Tail(s)
<1>1. /\ DOMAIN t = 1..(Len(s) - 1) /\ Head(s) = s[1]
      /\ \A i \in DOMAIN t : i + 1 \in DOMAIN s /\ t[i] = s[i + 1]
  BY TailFacts
<1>2. Len(s) \in Nat /\ 1 \in DOMAIN s
  OBVIOUS
<1> HIDE DEF t
<1>3. Alone(t)
  <2> SUFFICES ASSUME NEW i \in DOMAIN t, NEW j \in DOMAIN t, i < j,
                      t[j].kind = "supersede"
               PROVE  t[i].kind \notin Enqueuer
    BY DEF Alone
  <2>1. i + 1 \in DOMAIN s /\ j + 1 \in DOMAIN s /\ i + 1 < j + 1
    BY <1>1, <1>2
  <2> QED BY <1>1, <2>1 DEF Alone
<1>4. ASSUME Head(s).kind \in Enqueuer, NEW f \in Frames(t), f.kind = "supersede"
      PROVE  FALSE
  <2>1. PICK i \in DOMAIN t : f = t[i]
    BY <1>4 DEF Frames
  <2>2. 1 < i + 1 /\ i + 1 \in DOMAIN s
    BY <1>1, <1>2
  <2> QED BY <1>1, <1>2, <1>4, <2>1, <2>2 DEF Alone
<1> QED BY <1>3, <1>4 DEF NoCreator, t

\* A handler that enqueues nothing is called.
LEMMA CallQ ==
    ASSUME NEW Q, NEW S, NEW s \in Seq(Frame), QState(Q, S, s),
           NEW f \in Frame, f.kind \notin {"supersede", "reload"},
           f.kind \notin Enqueuer \/ NoCreator(s)
    PROVE  /\ QState(Q, S, Push(f, s)) /\ Push(f, s) \in Seq(Frame)
           /\ NoCreator(s) => NoCreator(Push(f, s))
<1>1. Held(Push(f, s)) = Held(s)
  BY HeldPush DEF Holds
<1>2. Frames(Push(f, s)) = {f} \cup Frames(s)
  BY PushFrames
<1>3. Alone(Push(f, s)) /\ Push(f, s) \in Seq(Frame)
  BY AlonePush, PushFacts DEF QState
<1> QED BY <1>1, <1>2, <1>3 DEF QState, CreatorOK, NoCreator

LEMMA PumpedQ ==
    ASSUME NEW Q, NEW S, NEW s \in Seq(Frame), QState(Q, S, s)
    PROVE  QState(Q, S, Pumped(s)) /\ Pumped(s) \in Seq(Frame)
<1>1. F("pump") \in Frame /\ F("pump").kind = "pump"
  BY DEF F, Frame, FrameKind
<1> QED BY <1>1, CallQ DEF Pumped, Enqueuer

\* A handler that holds no id returns.
LEMMA ReturnQ ==
    ASSUME NEW Q, NEW S, NEW s \in Seq(Frame), QState(Q, S, s), s # <<>>,
           Holds(Head(s)) = {}
    PROVE  QState(Q, S, Tail(s)) /\ Tail(s) \in Seq(Frame)
<1>1. Held(Tail(s)) = Held(s)
  BY HeldTail
<1>2. Frames(Tail(s)) \subseteq Frames(s)
  BY TailFrames
<1>3. Alone(Tail(s)) /\ Tail(s) \in Seq(Frame)
  BY AloneTail, TailFacts DEF QState
<1> QED BY <1>1, <1>2, <1>3 DEF QState

\* A run that no suspended handler holds leaves the queue.
LEMMA LoseQ ==
    ASSUME NEW Q, NEW S, NEW s, QState(Q, S, s), NEW id, id \notin Held(s)
    PROVE  QState(Q \ {id}, S \ {id}, s)
<1>1. \A f \in Frames(s) : f.kind = "supersede" /\ f.flag => f.run # id
  BY DEF Held, Holds
<1> QED BY <1>1 DEF QState, CreatorOK

\* A run that no suspended handler holds enters the queue.
LEMMA GainQ ==
    ASSUME NEW Q, NEW S, NEW s, QState(Q, S, s), NEW id, id \notin Held(s)
    PROVE  QState(Q \cup {id}, S \cup {id}, s)
BY DEF QState, CreatorOK

\* On an empty stack nothing is held.
LEMMA EmptyQ ==
    /\ Frames(<<>>) = {} /\ Held(<<>>) = {} /\ NoCreator(<<>>) /\ Alone(<<>>)
    /\ <<>> \in Seq(Frame)
BY DEF Frames, Held, NoCreator, Alone

\* Neither under a handler that enqueues runs itself.
LEMMA NoneHeldBelow ==
    ASSUME IInv, QInv, stack # <<>>, Top.kind \in Enqueuer
    PROVE  Held(Tail(stack)) = {} /\ NoCreator(Tail(stack))
<1>1. stack \in Seq(Frame) /\ StartUpOnTop(stack) /\ Alone(stack)
  BY DEF IInv, TypeOK, QInv, QState
<1>2. NoCreator(Tail(stack))
  BY <1>1, AloneTail DEF Top
<1>3. ASSUME NEW f \in Frames(Tail(stack)) PROVE f.kind # "reload"
  <2>1. PICK i \in DOMAIN Tail(stack) : f = Tail(stack)[i]
    BY <1>3 DEF Frames
  <2>2. i + 1 \in DOMAIN stack /\ f = stack[i + 1] /\ i + 1 # 1
    BY <1>1, <2>1, TailFacts
  <2> QED BY <1>1, <2>2 DEF StartUpOnTop
<1> QED BY <1>2, <1>3 DEF Held, Holds, NoCreator
-----------------------------------------------------------------------------
(* The steps keep the invariant of the queue.                              *)

\* What every step starts from.
LEMMA QStart ==
    ASSUME IInv, QInv
    PROVE  /\ queue \in Seq(Nat) /\ stack \in Seq(Frame) /\ Distinct(queue)
           /\ runs \in [DOMAIN runs -> Run] /\ DOMAIN runs \subseteq 1..MaxId
           /\ QState(Ids(queue), Queued, stack)
           /\ stack # <<>> => Top \in Frame /\ Top \in Frames(stack)
BY TailFacts, TailFrames DEF IInv, TypeOK, QInv, Top

\* One record gets a new status.
LEMMA QueuedAfter ==
    ASSUME runs \in [DOMAIN runs -> Run], NEW id \in DOMAIN runs, NEW s,
           runs' = SetStatus(id, s)
    PROVE  /\ s = "queued" => Queued' = Queued \cup {id}
           /\ s # "queued" => Queued' = Queued \ {id}
<1>1. /\ DOMAIN runs' = DOMAIN runs /\ runs'[id].status = s
      /\ \A k \in DOMAIN runs : k # id => runs'[k] = runs[k]
  BY DEF SetStatus, Run
<1> QED BY <1>1 DEF Queued

\* A step that calls or ends handlers only.
LEMMA SameQ ==
    ASSUME IInv, QInv, UNCHANGED <<runs, queue>>,
           QState(Ids(queue), Queued, stack')
    PROVE  QInv'
BY DEF QInv, Queued

LEMMA DrainFrame ==
    Drain \in Frame /\ Drain.kind = "drain"
BY DEF Drain, F, Frame, FrameKind

LEMMA EndsKeepQ ==
    ASSUME IInv, QInv, \/ ScanEnds \/ DrainEnds \/ WaitTimesOut \/ PumpEnds
                       \/ EmitFinished \/ EmitLanded \/ AutoEnds \/ ReloadEnds
    PROVE  QInv'
<1> USE DEF ScanEnds, DrainEnds, WaitTimesOut, PumpEnds, EmitFinished,
            EmitLanded, AutoEnds, ReloadEnds, InFrame
<1>1. stack # <<>> /\ Holds(Top) = {} /\ UNCHANGED <<runs, queue>>
  BY DEF Holds, disk
<1>2. QState(Ids(queue), Queued, Tail(stack)) /\ Tail(stack) \in Seq(Frame)
  BY <1>1, QStart, ReturnQ DEF Top
<1>3. /\ QState(Ids(queue), Queued, Push(Drain, Tail(stack)))
      /\ Push(Drain, Tail(stack)) \in Seq(Frame)
  BY <1>2, DrainFrame, CallQ DEF Enqueuer
<1>4. QState(Ids(queue), Queued, Pumped(Push(Drain, Tail(stack))))
  BY <1>3, PumpedQ
<1>5. QState(Ids(queue), Queued, stack')
  BY <1>2, <1>3, <1>4
<1> QED BY <1>1, <1>5, SameQ

\* The creator of a run returns from cancelSupersededRuns and enqueues it.
LEMMA SupersedeEndsQ ==
    ASSUME IInv, QInv, SupersedeEnds
    PROVE  QInv'
<1>1. /\ stack # <<>> /\ Top.kind = "supersede" /\ Top \in Frame
      /\ Top \in Frames(stack) /\ UNCHANGED runs /\ stack' = Tail(stack)
  BY QStart DEF SupersedeEnds, InFrame, disk
<1>2. CASE ~Top.flag
  <2>1. Holds(Top) = {} /\ UNCHANGED queue
    BY <1>1, <1>2 DEF Holds, SupersedeEnds
  <2> QED BY <1>1, <2>1, QStart, ReturnQ, SameQ DEF Top
<1>3. CASE Top.flag
  <2>1. Held(Tail(stack)) = {}
    BY <1>1, NoneHeldBelow DEF Enqueuer
  <2>2. Held(stack) = {Top.run}
    BY <1>1, <1>3, <2>1, QStart, HeldTail DEF Holds, Top
  <2>3. /\ Top.run \in Nat /\ Top.run \in Queued /\ Top.run \notin Ids(queue)
        /\ Queued \subseteq Ids(queue) \cup {Top.run}
        /\ Ids(queue) \subseteq Queued
    BY <1>1, <1>3, <2>2, QStart DEF QState, CreatorOK, Frame
  <2>4. Distinct(queue') /\ Ids(queue') = Ids(queue) \cup {Top.run}
    BY <1>3, <2>3, QStart, AppendFacts DEF SupersedeEnds
  <2>5. Alone(Tail(stack)) /\ Frames(Tail(stack)) \subseteq Frames(stack)
    BY <1>1, QStart, AloneTail, TailFrames DEF QState
  <2>6. \A f \in Frames(Tail(stack)) : CreatorOK(f, Queued)
    BY <2>5, QStart DEF QState
  <2> HIDE DEF Top
  <2>7. QState(Ids(queue'), Queued, stack')
    BY <1>1, <2>1, <2>3, <2>4, <2>5, <2>6 DEF QState
  <2> QED BY <1>1, <2>4, <2>7 DEF QInv, Queued
<1> QED BY <1>2, <1>3

\* A run is created: it is held by its creator, or awaits approval.
LEMMA CreateQ ==
    ASSUME IInv, QInv, NEW w \in Workflow, NEW c \in Commit,
           NEW rest \in Seq(Frame), CreateRun(w, c, rest),
           QState(Ids(queue), Queued, rest), NoCreator(rest), Held(rest) = {}
    PROVE  QInv'
<1> DEFINE new == NextId
           ok == RepoOf[w] \in auto \/ approved[w] = c
           f == Over(new, Active(w), ok)
<1>1. new \in Nat /\ new \notin DOMAIN runs
  BY QStart, NextIdIsNew
<1>2. /\ f \in Frame /\ f.kind = "supersede" /\ f.run = new
      /\ f.ids = Active(w) /\ f.flag = ok
  <2>1. ok \in BOOLEAN /\ Active(w) \subseteq Nat
    BY QStart, ModeAssumption DEF Active
  <2> HIDE DEF ok, new
  <2> QED BY <1>1, <2>1 DEF Over, F, Frame, FrameKind
<1>3. new \notin Active(w)
  BY <1>1 DEF Active
<1>4. /\ DOMAIN runs' = DOMAIN runs \cup {new}
      /\ runs'[new].status = IF ok THEN "queued" ELSE "awaiting-approval"
      /\ \A k \in DOMAIN runs : runs'[k] = runs[k]
      /\ UNCHANGED queue /\ stack' = Push(f, rest)
  BY <1>1 DEF CreateRun, Put
<1> HIDE DEF f, ok, new
<1>5. Queued' = Queued \cup (IF ok THEN {new} ELSE {})
  BY <1>1, <1>4 DEF Queued
<1>6. /\ Held(Push(f, rest)) = IF ok THEN {new} ELSE {}
      /\ Frames(Push(f, rest)) = {f} \cup Frames(rest)
      /\ Alone(Push(f, rest))
  <2>1. Holds(f) = IF ok THEN {new} ELSE {}
    BY <1>2 DEF Holds
  <2> QED BY <1>2, <2>1, HeldPush, PushFrames, AlonePush DEF QState
<1>7. new \notin Ids(queue)
  BY <1>1, QStart DEF QState, Queued
<1>8. \A g \in {f} \cup Frames(rest) : CreatorOK(g, Queued')
  BY <1>2, <1>3, <1>5 DEF CreatorOK, QState, NoCreator
<1>9. QState(Ids(queue), Queued', Push(f, rest))
  BY <1>5, <1>6, <1>7, <1>8 DEF QState
<1> QED BY <1>4, <1>9, QStart DEF QInv
LEMMA ScanStepQ ==
    ASSUME IInv, QInv, ScanStep
    PROVE  QInv'
<1>1. /\ stack # <<>> /\ Top \in Frame /\ Top.kind = "scan"
      /\ Top.workflows \in SUBSET Workflow /\ Top.workflows # {}
      /\ Top.commit \in Commit
  <2>1. stack # <<>> /\ Top.kind = "scan" /\ Top.workflows # {}
    BY DEF ScanStep, InFrame
  <2>2. Top \in Frame /\ FrameOK(Top)
    BY <2>1, TailFacts DEF IInv, TypeOK, FramesOK, Top
  <2> QED BY <2>1, <2>2 DEF Frame, FrameOK
<1> DEFINE w == FirstPath(Top.workflows)
           next == [Top EXCEPT !.workflows = @ \ {w}, !.flag = TRUE]
           rest == [Top EXCEPT !.workflows = @ \ {w}]
<1>2. /\ rest \in Frame /\ rest.kind = "scan"
      /\ next \in Frame /\ next.kind = "scan"
      /\ [rest EXCEPT !.flag = TRUE] = next
  BY <1>1 DEF Frame
<1>3. w \in Workflow
  BY <1>1, FirstPathIsIn
<1> HIDE DEF rest, next, w
<1>4. /\ Held(Tail(stack)) = {} /\ NoCreator(Tail(stack))
      /\ QState(Ids(queue), Queued, Tail(stack)) /\ Tail(stack) \in Seq(Frame)
  BY <1>1, NoneHeldBelow, QStart, ReturnQ DEF Enqueuer, Holds, Top
<1>5. CASE stack' = Push(rest, Tail(stack)) /\ UNCHANGED <<disk, queue>>
  BY <1>2, <1>4, <1>5, CallQ, SameQ DEF disk
<1>6. CASE CreateRun(w, Top.commit, Push(next, Tail(stack)))
  <2>1. Held(Push(next, Tail(stack))) = {}
    BY <1>2, <1>4, HeldPush DEF Holds
  <2>2. /\ QState(Ids(queue), Queued, Push(next, Tail(stack)))
        /\ Push(next, Tail(stack)) \in Seq(Frame)
        /\ NoCreator(Push(next, Tail(stack)))
    BY <1>2, <1>4, CallQ
  <2> QED BY <1>1, <1>3, <1>6, <2>1, <2>2, CreateQ
<1> QED BY <1>2, <1>5, <1>6 DEF ScanStep, rest, w

\* A call from a clean turn of the event loop.
LEMMA TurnQ ==
    ASSUME IInv, QInv, stack = <<>>
    PROVE  /\ Ids(queue) = Queued /\ QState(Ids(queue), Queued, <<>>)
           /\ \A f \in Frame : f.kind \notin {"supersede", "reload"} =>
                 /\ QState(Ids(queue), Queued, <<f>>) /\ <<f>> \in Seq(Frame)
                 /\ NoCreator(<<f>>) /\ Held(<<f>>) = {}
<1>1. QState(Ids(queue), Queued, <<>>)
  BY QStart
<1>2. \A f \in Frame : Push(f, <<>>) = <<f>>
  BY DEF Push
<1>3. \A f \in Frame : f.kind \notin {"supersede", "reload"} => Held(<<f>>) = {}
  BY <1>2, EmptyQ, HeldPush DEF Holds
<1>4. \A f \in Frame : f.kind \notin {"supersede", "reload"} =>
          QState(Ids(queue), Queued, <<f>>) /\ <<f>> \in Seq(Frame)
          /\ NoCreator(<<f>>)
  BY <1>1, <1>2, EmptyQ, CallQ
<1> QED BY <1>1, <1>3, <1>4, EmptyQ DEF QState

LEMMA RunCommandsQ ==
    ASSUME IInv, QInv, \/ \E c \in Commit : \E w \in At[c] : RunManually(w, c)
                       \/ \E id \in DOMAIN runs : Rerun(id)
    PROVE  QInv'
<1>1. stack = <<>>
  BY DEF RunManually, Rerun, UserTurn
<1>2. PICK w \in Workflow, c \in Commit : CreateRun(w, c, <<Drain>>)
  BY QStart, CommitAssumption DEF RunManually, Rerun, Run
<1>3. /\ QState(Ids(queue), Queued, <<Drain>>) /\ <<Drain>> \in Seq(Frame)
      /\ NoCreator(<<Drain>>) /\ Held(<<Drain>>) = {}
  BY <1>1, TurnQ, DrainFrame
<1> QED BY <1>2, <1>3, CreateQ

LEMMA ArrivalsQ ==
    ASSUME IInv, QInv, (\E c \in Commit : ScanArrives(c)) \/ Poll
    PROVE  QInv'
<1>1. stack = <<>> /\ UNCHANGED <<runs, queue>>
  BY DEF ScanArrives, Poll, EventTurn, disk
<1>2. \A c \in Commit, ws \in SUBSET Workflow :
          Scan(c, ws) \in Frame /\ Scan(c, ws).kind = "scan"
  BY DEF Scan, F, Frame, FrameKind
<1>3. QState(Ids(queue), Queued, stack')
  BY <1>1, <1>2, TurnQ, DrainFrame, CommitAssumption DEF ScanArrives, Poll
<1> QED BY <1>1, <1>3, SameQ

LEMMA WaitFrame ==
    ASSUME NEW r \in Runner
    PROVE  Wait(r) \in Frame /\ Wait(r).kind = "wait"
<1>1. r \in Nat
  BY PoolAssumption DEF Runner
<1> QED BY <1>1 DEF Wait, F, Frame, FrameKind

LEMMA SupersedeQ ==
    ASSUME IInv, QInv, SupersedeStep
    PROVE  QInv'
<1>1. /\ stack # <<>> /\ Top.kind = "supersede" /\ Top \in Frame
      /\ Top \in Frames(stack) /\ Top.ids # {} /\ Top.ids \in SUBSET (1..MaxId)
  <2>1. stack # <<>> /\ Top.kind = "supersede" /\ Top.ids # {}
    BY DEF SupersedeStep, InFrame
  <2>2. FrameOK(Top)
    BY <2>1, TailFacts DEF IInv, TypeOK, FramesOK, Top
  <2> QED BY <2>1, <2>2, QStart DEF FrameOK
<1> DEFINE id == Largest(Top.ids)
           f == [Top EXCEPT !.ids = @ \ {id}]
           rest == Push(f, Tail(stack))
<1>2. id \in Top.ids
  BY <1>1, LargestIsIn, ModeAssumption
<1>3. /\ f \in Frame /\ f.kind = "supersede" /\ f.run = Top.run
      /\ f.flag = Top.flag /\ f.ids \subseteq Top.ids
  BY <1>1 DEF Frame
<1> HIDE DEF id, f, rest
<1>4. CreatorOK(Top, Queued) /\ CreatorOK(f, Queued)
  BY <1>1, <1>3, QStart DEF QState, CreatorOK
<1>5. /\ Held(Tail(stack)) = {} /\ NoCreator(Tail(stack))
      /\ Tail(stack) \in Seq(Frame)
      /\ Held(stack) = Holds(Top) /\ Frames(Tail(stack)) \subseteq Frames(stack)
      /\ Alone(Tail(stack))
  <2>1. Held(Tail(stack)) = {} /\ NoCreator(Tail(stack))
    BY <1>1, NoneHeldBelow DEF Enqueuer
  <2>2. stack \in Seq(Frame) /\ Alone(stack)
    BY QStart DEF QState
  <2> QED BY <1>1, <2>1, <2>2, HeldTail, TailFacts, TailFrames, AloneTail DEF Top
<1>6. /\ rest \in Seq(Frame) /\ Alone(rest)
      /\ Held(rest) = Held(stack) /\ id \notin Held(rest)
      /\ Frames(rest) = {f} \cup Frames(Tail(stack))
  <2>1. Holds(f) = Holds(Top) /\ id \notin Holds(Top)
    BY <1>1, <1>2, <1>3, <1>4 DEF Holds, CreatorOK
  <2>2. /\ Held(rest) = Holds(f) \cup Held(Tail(stack))
        /\ Frames(rest) = {f} \cup Frames(Tail(stack))
        /\ rest \in Seq(Frame)
    BY <1>3, <1>5, HeldPush, PushFrames, PushFacts DEF rest
  <2>3. Alone(rest)
    BY <1>3, <1>5, AlonePush DEF rest
  <2> QED BY <1>5, <2>1, <2>2, <2>3
<1>7. QState(Ids(queue), Queued, rest)
  <2>1. \A g \in Frames(rest) : CreatorOK(g, Queued)
    BY <1>4, <1>5, <1>6, QStart DEF QState
  <2> QED BY <1>6, <2>1, QStart DEF QState
<1>8. CASE (\E r \in RunnerFor(id) : StopRunner(r, rest)) /\ UNCHANGED <<runs, queue>>
  <2>1. PICK r \in Runner : stack' = Push(Wait(r), rest)
    BY <1>8 DEF RunnerFor, StopRunner
  <2>2. QState(Ids(queue), Queued, stack')
    BY <1>6, <1>7, <2>1, WaitFrame, CallQ DEF Enqueuer
  <2> QED BY <1>8, <2>2, SameQ
<1>9. CASE /\ HasStatus(id, {"queued", "awaiting-approval"})
           /\ queue' = Without(queue, id)
           /\ runs' = SetStatus(id, "cancelled")
           /\ stack' = rest
  <2>1. Queued' = Queued \ {id}
    BY <1>9, QStart, QueuedAfter DEF HasStatus
  <2>2. Distinct(queue') /\ Ids(queue') = Ids(queue) \ {id}
    BY <1>9, QStart, WithoutFacts
  <2>3. QState(Ids(queue) \ {id}, Queued \ {id}, rest)
    BY <1>6, <1>7, LoseQ
  <2> QED BY <1>9, <2>1, <2>2, <2>3 DEF QInv
<1>10. CASE stack' = rest /\ UNCHANGED <<runs, queue>>
  BY <1>7, <1>10, SameQ
<1> QED BY <1>8, <1>9, <1>10 DEF SupersedeStep, id, f, rest
\* A runner completes: its run was not in the queue.
LEMMA CompletedQ ==
    ASSUME IInv, QInv, NEW r \in Runner, runner[r].busy,
           NEW s \in Finished, NEW landed \in BOOLEAN, NEW rest \in Seq(Frame),
           Completed(r, s, landed, rest), UNCHANGED queue,
           QState(Ids(queue), Queued, rest)
    PROVE  QInv'
<1> DEFINE id == runner[r].run
           fin == Of("finish", r, id)
           lan == Of("landed", r, id)
           under == IF landed THEN Push(lan, rest) ELSE rest
<1>1. id \in DOMAIN runs /\ id \in Nat /\ runs[id].status = "running" /\ r \in Nat
  BY PoolAssumption DEF IInv, TypeOK, RunnerOwnsRunning, HasStatus, Runner
<1>2. /\ fin \in Frame /\ fin.kind = "finish"
      /\ lan \in Frame /\ lan.kind = "landed"
  BY <1>1 DEF Of, F, Frame, FrameKind
<1>3. runs' = SetStatus(id, s) /\ stack' = Pumped(Push(fin, under))
  BY DEF Completed
<1> HIDE DEF id, fin, lan
<1>4. Queued' = Queued
  <2>1. Queued' = Queued \ {id}
    BY <1>1, <1>3, QStart, QueuedAfter DEF Finished
  <2> QED BY <1>1, <2>1 DEF Queued
<1>5. QState(Ids(queue), Queued, under) /\ under \in Seq(Frame)
  BY <1>2, CallQ DEF Enqueuer
<1> HIDE DEF under
<1>6. /\ QState(Ids(queue), Queued, Push(fin, under))
      /\ Push(fin, under) \in Seq(Frame)
  BY <1>2, <1>5, CallQ DEF Enqueuer
<1>7. QState(Ids(queue), Queued, stack')
  BY <1>3, <1>6, PumpedQ
<1> QED BY <1>4, <1>7, QStart DEF QInv

LEMMA RunnersQ ==
    ASSUME IInv, QInv, (\E r \in Runner : RunnerExits(r)) \/ Launch
    PROVE  QInv'
<1>1. stack # <<>> /\ Top.kind \in {"wait", "launch"} =>
          QState(Ids(queue), Queued, Tail(stack)) /\ Tail(stack) \in Seq(Frame)
  BY QStart, ReturnQ DEF Holds, Top
<1>2. ASSUME NEW r \in Runner, RunnerExits(r) PROVE QInv'
  <2> DEFINE rest == IF InFrame("wait") THEN Tail(stack) ELSE stack
  <2>1. QState(Ids(queue), Queued, rest) /\ rest \in Seq(Frame)
    BY <1>1, QStart DEF InFrame
  <2>2. runner[r].busy
    BY <1>2 DEF RunnerExits, IInv, AliveIsBusy
  <2>3. PICK s \in Finished, landed \in BOOLEAN : Completed(r, s, landed, rest)
    BY <1>2 DEF RunnerExits, Finished
  <2> QED BY <1>2, <2>1, <2>2, <2>3, CompletedQ DEF RunnerExits
<1>3. CASE Launch
  <2>1. stack # <<>> /\ Top.kind = "launch"
    BY <1>3 DEF Launch, InFrame
  <2>2. Top.runner \in Runner /\ runner[Top.runner].busy
    BY <2>1, TailFacts DEF Top, IInv, TypeOK, FramesOK, FrameOK
  <2>3. CASE Completed(Top.runner, "failed", FALSE, Tail(stack))
    BY <1>1, <1>3, <2>1, <2>2, <2>3, CompletedQ DEF Finished, Launch
  <2>4. CASE stack' = Tail(stack) /\ UNCHANGED runs
    BY <1>1, <1>3, <2>1, <2>4, SameQ DEF Launch
  <2> QED BY <1>3, <2>3, <2>4 DEF Launch
<1> QED BY <1>2, <1>3

\* The drain takes an id out of the queue, and settles, returns or starts it.
LEMMA DrainQ ==
    ASSUME IInv, QInv, DrainStep
    PROVE  QInv'
<1>1. PICK i \in DOMAIN queue :
          queue' = DropAt(queue, i) /\ (Refuse(queue[i]) \/ Start(queue[i]))
  BY DEF DrainStep
<1> DEFINE id == queue[i]
<1>2. Distinct(queue') /\ Ids(queue') = Ids(queue) \ {id}
  BY <1>1, QStart, DropFacts
<1>3. id \in Ids(queue) /\ id \in Queued /\ id \notin Held(stack)
  BY QStart DEF Ids, QState
<1>4. id \in DOMAIN runs /\ HasStatus(id, {"queued"}) /\ id \in Nat
  BY <1>3, QStart DEF Queued, HasStatus
<1> HIDE DEF id
<1>5. QState(Ids(queue) \ {id}, Queued \ {id}, stack)
  BY <1>3, QStart, LoseQ
<1>6. CASE Refuse(id)
  <2>1. PICK s \in {"skipped", "failed", "awaiting-approval"} : runs' = SetStatus(id, s)
    BY <1>4, <1>6 DEF Refuse
  <2>2. Queued' = Queued \ {id}
    BY <1>4, <2>1, QStart, QueuedAfter
  <2> QED BY <1>2, <1>5, <1>6, <2>2 DEF Refuse, QInv
<1>7. CASE Start(id)
  <2>1. Queued' = Queued \ {id}
    <3>1. runs' = SetStatus(id, "running")
      BY <1>7 DEF Start
    <3> QED BY <1>4, <3>1, QStart, QueuedAfter
  <2>2. PICK r \in Runner : stack' = Pumped(Push(Of("launch", r, id), stack))
    BY <1>7 DEF Start, Idle
  <2> DEFINE f == Of("launch", r, id)
  <2>3. f \in Frame /\ f.kind = "launch"
    <3>1. r \in Nat
      BY PoolAssumption DEF Runner
    <3> QED BY <1>4, <3>1 DEF Of, F, Frame, FrameKind
  <2> HIDE DEF f
  <2>4. /\ QState(Ids(queue) \ {id}, Queued \ {id}, Push(f, stack))
        /\ Push(f, stack) \in Seq(Frame)
    BY <1>5, <2>3, QStart, CallQ DEF Enqueuer
  <2>5. QState(Ids(queue) \ {id}, Queued \ {id}, stack')
    BY <2>2, <2>4, PumpedQ DEF f
  <2> QED BY <1>2, <2>1, <2>5 DEF QInv
<1> QED BY <1>1, <1>6, <1>7 DEF id

\* The user's commands on one run.
LEMMA RunChangesQ ==
    ASSUME IInv, QInv, NEW id \in DOMAIN runs,
           Approve(id) \/ Reject(id) \/ Skip(id) \/ Stop(id)
    PROVE  QInv'
<1>1. stack = <<>>
  BY DEF Approve, Reject, Skip, Stop, UserTurn
<1>2. /\ Ids(queue) = Queued /\ QState(Ids(queue), Queued, <<>>)
      /\ id \in Nat
  BY <1>1, TurnQ, QStart
<1>3. CASE Approve(id)
  <2>1. Queued' = Queued \cup {id}
    BY <1>3, QStart, QueuedAfter DEF Approve
  <2>2. id \notin Ids(queue)
    BY <1>2, <1>3 DEF Approve, HasStatus, Queued
  <2>3. Distinct(queue') /\ Ids(queue') = Ids(queue) \cup {id}
    BY <1>2, <1>3, <2>2, QStart, AppendFacts DEF Approve
  <2>4. QState(Ids(queue), Queued, <<Drain>>) /\ Held(<<Drain>>) = {}
    BY <1>1, TurnQ, DrainFrame
  <2>5. QState(Ids(queue) \cup {id}, Queued \cup {id}, <<Drain>>)
    BY <2>4, GainQ
  <2> QED BY <1>3, <2>1, <2>3, <2>5 DEF Approve, QInv
<1>4. CASE /\ \E s \in {"rejected", "skipped", "cancelled"} : runs' = SetStatus(id, s)
           /\ stack' = stack
           /\ \/ queue' = Without(queue, id)
              \/ queue' = queue /\ runs[id].status # "queued"
  <2>1. Queued' = Queued \ {id}
    BY <1>4, QStart, QueuedAfter
  <2>2. Distinct(queue') /\ Ids(queue') = Ids(queue) \ {id}
    BY <1>2, <1>4, QStart, WithoutFacts DEF Queued
  <2>3. QState(Ids(queue) \ {id}, Queued \ {id}, <<>>)
    BY <1>2, EmptyQ, LoseQ
  <2> QED BY <1>1, <1>4, <2>1, <2>2, <2>3 DEF QInv
<1>5. ASSUME NEW r \in Runner, StopRunner(r, <<>>), UNCHANGED <<runs, queue>>
      PROVE  QInv'
  <2>1. stack' = <<Wait(r)>>
    BY <1>5 DEF StopRunner, Push
  <2>2. QState(Ids(queue), Queued, stack')
    BY <1>1, <2>1, TurnQ, WaitFrame
  <2> QED BY <1>5, <2>2, SameQ
<1> QED BY <1>3, <1>4, <1>5 DEF Reject, Skip, Stop, HasStatus, RunnerFor
LEMMA ListCommandsQ ==
    ASSUME IInv, QInv, \/ \E p \in Repo : SetAutoApprove(p)
                       \/ \E ws \in SUBSET Workflow : AskClear(ws)
                       \/ \E yes \in BOOLEAN : AnswerClear(yes)
    PROVE  QInv'
<1>1. stack = <<>> /\ UNCHANGED queue
  BY DEF SetAutoApprove, AskClear, AnswerClear, EventTurn, UserTurn, disk
<1>2. CASE \E p \in Repo : SetAutoApprove(p)
  <2>1. PICK p \in Repo : SetAutoApprove(p)
    BY <1>2
  <2> DEFINE listed == {k \in DOMAIN runs :
                            /\ RepoOf[runs[k].workflow] = p
                            /\ runs[k].status = "awaiting-approval"}
  <2>2. Each("auto", listed) \in Frame /\ Each("auto", listed).kind = "auto"
    <3>1. listed \subseteq Nat
      BY QStart
    <3> HIDE DEF listed
    <3> QED BY <3>1 DEF Each, F, Frame, FrameKind
  <2>3. stack' \in {stack, <<Each("auto", listed)>>}
    BY <2>1 DEF SetAutoApprove
  <2> HIDE DEF listed
  <2>4. QState(Ids(queue), Queued, stack')
    BY <1>1, <2>2, <2>3, TurnQ
  <2> QED BY <1>1, <2>1, <2>4, SameQ DEF SetAutoApprove
<1>3. CASE \E ws \in SUBSET Workflow : AskClear(ws)
  <2>1. UNCHANGED <<runs, queue, stack>>
    BY <1>3 DEF AskClear, disk
  <2> QED BY <1>1, <2>1, TurnQ, SameQ
<1>4. CASE \E yes \in BOOLEAN : AnswerClear(yes)
  <2>1. Queued' = Queued
    BY <1>4 DEF AnswerClear, Queued, IInv, DoomedAreSettled
  <2>2. stack' = stack
    BY <1>4 DEF AnswerClear
  <2> QED BY <1>1, <2>1, <2>2 DEF QInv
<1> QED BY <1>2, <1>3, <1>4

\* The loop of automatic approvals enqueues a run that awaited approval.
LEMMA AutoQ ==
    ASSUME IInv, QInv, AutoStep
    PROVE  QInv'
<1>1. /\ stack # <<>> /\ Top \in Frame /\ FrameOK(Top)
      /\ Top.kind = "auto" /\ Top.ids # {}
  BY AutoOnTop DEF AutoStep, InFrame
<1> DEFINE id == Largest(Top.ids)
<1>2. id \in DOMAIN runs /\ id \in Nat /\ runs[id].status = "awaiting-approval"
  <2>1. Top.ids \in SUBSET (1..MaxId)
    BY <1>1, QStart DEF FrameOK
  <2>2. id \in Top.ids
    BY <1>1, <2>1, LargestIsIn, ModeAssumption
  <2> HIDE DEF id
  <2> QED BY <1>1, <2>1, <2>2 DEF FrameOK
<1> DEFINE f == [Top EXCEPT !.ids = @ \ {id}]
           g == [Top EXCEPT !.ids = @ \ {id}, !.flag = TRUE]
<1>3. /\ f \in Frame /\ f.kind = "auto" /\ g \in Frame /\ g.kind = "auto"
      /\ [f EXCEPT !.flag = TRUE] = g
  BY <1>1 DEF Frame
<1> HIDE DEF id, f, g
<1>4. /\ Held(Tail(stack)) = {} /\ NoCreator(Tail(stack))
      /\ QState(Ids(queue), Queued, Tail(stack)) /\ Tail(stack) \in Seq(Frame)
  BY <1>1, NoneHeldBelow, QStart, ReturnQ DEF Enqueuer, Holds, Top
<1>5. CASE stack' = Push(f, Tail(stack)) /\ UNCHANGED <<runs, queue>>
  BY <1>3, <1>4, <1>5, CallQ, SameQ
<1>6. CASE /\ runs' = SetStatus(id, "queued")
           /\ queue' = IF \E i \in DOMAIN queue : queue[i] = id
                       THEN queue ELSE Append(queue, id)
           /\ stack' = Push(g, Tail(stack))
  <2>1. Queued' = Queued \cup {id}
    BY <1>2, <1>6, QStart, QueuedAfter
  <2>2. id \notin Ids(queue)
    BY <1>2, QStart DEF QState, Queued
  <2>3. Distinct(queue') /\ Ids(queue') = Ids(queue) \cup {id}
    <3>1. queue' = Append(queue, id)
      BY <1>6, <2>2 DEF Ids
    <3> QED BY <1>2, <2>2, <3>1, QStart, AppendFacts
  <2>4. QState(Ids(queue) \cup {id}, Queued \cup {id}, Tail(stack))
    BY <1>4, GainQ
  <2>5. QState(Ids(queue) \cup {id}, Queued \cup {id}, stack')
    BY <1>3, <1>4, <1>6, <2>4, CallQ
  <2> QED BY <2>1, <2>3, <2>5 DEF QInv
<1> QED BY <1>3, <1>5, <1>6 DEF AutoStep, id, f

\* The start-up loop puts the runs recorded as queued back in the queue.
LEMMA ReloadQ ==
    ASSUME IInv, QInv, ReloadStep
    PROVE  QInv'
<1>1. /\ stack # <<>> /\ Top \in Frame /\ FrameOK(Top)
      /\ Top.kind = "reload" /\ Top.ids # {}
  BY ReloadOnTop DEF ReloadStep
<1> DEFINE id == Largest(Top.ids)
           f == [Top EXCEPT !.ids = @ \ {id}]
<1>2. id \in Top.ids /\ id \in DOMAIN runs /\ id \in Nat
  <2>1. Top.ids \in SUBSET (1..MaxId)
    BY <1>1, QStart DEF FrameOK
  <2>2. id \in Top.ids
    BY <1>1, <2>1, LargestIsIn, ModeAssumption
  <2> HIDE DEF id
  <2> QED BY <1>1, <2>1, <2>2 DEF FrameOK
<1>3. f \in Frame /\ f.kind = "reload" /\ f.ids = Top.ids \ {id}
  BY <1>1 DEF Frame
<1>4. /\ runs' = IF runs[id].status = "running" THEN SetStatus(id, "failed") ELSE runs
      /\ queue' = IF runs[id].status = "queued" THEN Append(queue, id) ELSE queue
      /\ stack' = Push(f, Tail(stack))
  BY DEF ReloadStep
<1> HIDE DEF id, f
<1>5. Queued' = Queued
  <2>1. CASE runs[id].status = "running"
    <3>1. Queued' = Queued \ {id}
      BY <1>2, <1>4, <2>1, QStart, QueuedAfter
    <3> QED BY <2>1, <3>1 DEF Queued
  <2> QED BY <1>4, <2>1 DEF Queued
<1>6. /\ NoCreator(Tail(stack)) /\ Tail(stack) \in Seq(Frame)
      /\ Held(stack) = Top.ids /\ Held(stack') = Top.ids \ {id}
      /\ Alone(stack') /\ NoCreator(stack')
  <2>1. Held(Tail(stack)) = {} /\ NoCreator(Tail(stack))
    BY <1>1, NoneHeldBelow DEF Enqueuer
  <2>2. Tail(stack) \in Seq(Frame) /\ Alone(Tail(stack))
    BY <1>1, QStart, TailFacts, AloneTail DEF QState
  <2>3. Held(stack) = Top.ids
    BY <1>1, <2>1, QStart, HeldTail DEF Holds, Top
  <2>4. Held(stack') = Top.ids \ {id}
    BY <1>3, <1>4, <2>1, <2>2, HeldPush DEF Holds
  <2>5. Alone(stack')
    BY <1>3, <1>4, <2>1, <2>2, AlonePush
  <2>6. NoCreator(stack')
    BY <1>3, <1>4, <2>1, <2>2, PushFrames DEF NoCreator
  <2> QED BY <2>1, <2>2, <2>3, <2>4, <2>5, <2>6
<1>7. /\ Distinct(queue')
      /\ Ids(queue') = Ids(queue) \cup ({id} \cap Queued)
  <2>1. CASE runs[id].status = "queued"
    <3>1. id \notin Ids(queue) /\ id \in Queued
      BY <1>2, <1>6, <2>1, QStart DEF QState, Queued
    <3> QED BY <1>2, <1>4, <2>1, <3>1, QStart, AppendFacts
  <2>2. CASE runs[id].status # "queued"
    BY <1>4, <2>2, QStart DEF Queued
  <2> QED BY <2>1, <2>2
<1>8. QState(Ids(queue) \cup ({id} \cap Queued), Queued, stack')
  BY <1>2, <1>6, QStart DEF QState, CreatorOK, NoCreator
<1> QED BY <1>5, <1>7, <1>8 DEF QInv

\* At start-up every queued run is about to be found.
LEMMA RestartQ ==
    ASSUME IInv, QInv, Restart
    PROVE  QInv'
<1> DEFINE listed == {k \in DOMAIN runs :
                         /\ RepoOf[runs[k].workflow] \in auto
                         /\ runs[k].status = "awaiting-approval"}
           f == Each("reload", DOMAIN runs)
           g == Each("auto", listed)
<1>1. /\ f \in Frame /\ f.kind = "reload" /\ f.ids = DOMAIN runs
      /\ g \in Frame /\ g.kind = "auto"
  <2>1. listed \subseteq Nat /\ DOMAIN runs \subseteq Nat
    BY QStart
  <2> HIDE DEF listed
  <2> QED BY <2>1 DEF Each, F, Frame, FrameKind
<1>2. stack' = <<f, g, Drain>> /\ queue' = <<>> /\ runs' = runs
  BY DEF Restart, disk
<1> HIDE DEF f, g
<1>3. /\ stack'[1] = f /\ stack'[2] = g /\ stack'[3] = Drain
      /\ DOMAIN stack' = 1..3
  BY <1>2
<1>4. /\ Frames(stack') = {f, g, Drain} /\ NoCreator(stack') /\ Alone(stack')
      /\ Held(stack') = DOMAIN runs
  <2>1. \A i \in 1..3 : i = 1 \/ i = 2 \/ i = 3
    OBVIOUS
  <2>2. Frames(stack') = {f, g, Drain}
    BY <1>3, <2>1 DEF Frames
  <2>3. \A i \in DOMAIN stack' : stack'[i].kind # "supersede"
    BY <1>1, <1>3, <2>1, DrainFrame
  <2> QED BY <1>1, <2>2, <2>3, DrainFrame DEF NoCreator, Alone, Held, Holds
<1>5. Distinct(queue') /\ Ids(queue') = {}
  BY <1>2 DEF Distinct, Ids
<1>6. Queued' = Queued /\ Queued \subseteq DOMAIN runs
  BY <1>2 DEF Queued
<1>7. QState({}, Queued, stack')
  BY <1>4, <1>6 DEF QState, CreatorOK, NoCreator
<1> QED BY <1>5, <1>6, <1>7 DEF QInv

LEMMA NextQ ==
    ASSUME IInv, QInv, [Next]_vars
    PROVE  QInv'
<1>1. CASE Handler
  BY <1>1, EndsKeepQ, SupersedeEndsQ, ScanStepQ, SupersedeQ, AutoQ, ReloadQ,
     DrainQ, RunnersQ DEF Handler
<1>2. CASE Command
  <2>1. ASSUME NEW id \in DOMAIN runs,
               Rerun(id) \/ Approve(id) \/ Reject(id) \/ Stop(id) \/ Skip(id)
        PROVE  QInv'
    BY <2>1, RunCommandsQ, RunChangesQ
  <2>2. ASSUME \E c \in Commit : \E w \in At[c] : RunManually(w, c) PROVE QInv'
    BY <2>2, RunCommandsQ
  <2>3. ASSUME NEW p \in Repo, SetAutoApprove(p) PROVE QInv'
    BY <2>3, ListCommandsQ
  <2>4. ASSUME NEW ws \in SUBSET Workflow, AskClear(ws) PROVE QInv'
    BY <2>4, ListCommandsQ
  <2> QED BY <1>2, <2>1, <2>2, <2>3, <2>4 DEF Command
<1>3. CASE \E yes \in BOOLEAN : AnswerClear(yes)
  BY <1>3, ListCommandsQ
<1>4. CASE (\E c \in Commit : ScanArrives(c)) \/ Poll
  BY <1>4, ArrivalsQ
<1>5. CASE \E r \in Runner : RunnerExits(r)
  BY <1>5, RunnersQ
<1>6. CASE Restart
  BY <1>6, RestartQ
<1>7. CASE UNCHANGED vars
  BY <1>7, QStart, SameQ DEF vars
<1> QED BY <1>1, <1>2, <1>3, <1>4, <1>5, <1>6, <1>7 DEF Next

THEOREM QInvInvariant == Spec => []QInv
<1>1. Init => QInv
  <2> SUFFICES ASSUME Init PROVE QInv
    OBVIOUS
  <2>1. queue = <<>> /\ stack = <<>> /\ Queued = {}
    BY DEF Init, Queued
  <2>2. Distinct(queue) /\ Ids(queue) = {}
    BY <2>1 DEF Distinct, Ids
  <2> QED BY <2>1, <2>2, EmptyQ DEF QInv, QState
<1>2. IInv /\ QInv /\ [Next]_vars => QInv'
  BY NextQ
<1> QED BY <1>1, <1>2, IInvInvariant, PTL DEF Spec

\* A queued run is in the queue exactly once, or a handler on the call stack
\* will put it there, and nothing else is in the queue: whatever handlers nest,
\* wherever the process dies, and whatever the environment refuses.
THEOREM QueueHoldsQueuedOnce == Spec => []QueuedOnce
<1>1. IInv /\ QInv => QueuedOnce
  <2> SUFFICES ASSUME IInv, QInv PROVE QueuedOnce
    OBVIOUS
  <2>1. ASSUME NEW i \in DOMAIN queue PROVE HasStatus(queue[i], {"queued"})
    <3>1. queue[i] \in Queued
      BY QStart DEF QState, Ids
    <3> QED BY <3>1 DEF Queued, HasStatus
  <2>2. ASSUME NEW id \in Held(stack) PROVE BeingQueued(id)
    <3>1. PICK i \in DOMAIN stack : id \in Holds(stack[i])
      BY DEF Held, Frames
    <3> QED BY <3>1 DEF Holds, BeingQueued
  <2>3. ASSUME NEW id \in DOMAIN runs, runs[id].status = "queued"
        PROVE  (\E i \in DOMAIN queue : queue[i] = id) \/ BeingQueued(id)
    <3>1. id \in Ids(queue) \cup Held(stack)
      BY <2>3, QStart DEF QState, Queued
    <3> QED BY <2>2, <3>1 DEF Ids
  <2> QED BY <2>1, <2>3, QStart DEF QueuedOnce, Distinct
<1> QED BY <1>1, IInvInvariant, QInvInvariant, PTL
-----------------------------------------------------------------------------
(* One live run per workflow.  While the process does not die inside a     *)
(* handler, of two unsettled runs of a workflow one is slated for          *)
(* cancellation, being stopped, or a leftover of the process before.       *)

Unsettled == {k \in DOMAIN runs : runs[k].status \in Pending}

Slates(f) == IF f.kind = "supersede" THEN f.ids ELSE {}

Slated(s) == UNION {Slates(f) : f \in Frames(s)}

Stopping ==
    {runner[r].run : r \in {q \in Runner : runner[q].busy /\ runner[q].stopping}}

LeftOver == IF InFrame("reload")
            THEN {k \in DOMAIN runs : runs[k].status = "running"} ELSE {}

Cancelling == Slated(stack) \cup Stopping \cup LeftOver

LiveInv ==
    \A j, k \in Unsettled :
        j # k /\ runs[j].workflow = runs[k].workflow
            => j \in Cancelling \/ k \in Cancelling

LEMMA SlatedPush ==
    ASSUME NEW f \in Frame, NEW s \in Seq(Frame)
    PROVE  /\ Slated(Push(f, s)) = Slates(f) \cup Slated(s)
           /\ Push(f, s) \in Seq(Frame)
<1>1. Frames(Push(f, s)) = {f} \cup Frames(s)
  BY PushFrames
<1>2. Push(f, s) \in Seq(Frame)
  BY PushFacts
<1> QED BY <1>1, <1>2 DEF Slated

LEMMA SlatedTail ==
    ASSUME NEW s \in Seq(Frame), s # <<>>
    PROVE  /\ Slated(s) = Slates(Head(s)) \cup Slated(Tail(s))
           /\ Tail(s) \in Seq(Frame)
<1>1. Frames(s) = {Head(s)} \cup Frames(Tail(s))
  BY TailFrames
<1> QED BY <1>1, TailFacts DEF Slated

LEMMA SlatedPumped ==
    ASSUME NEW s \in Seq(Frame)
    PROVE  Slated(Pumped(s)) = Slated(s) /\ Pumped(s) \in Seq(Frame)
<1>1. F("pump") \in Frame /\ F("pump").kind = "pump"
  BY DEF F, Frame, FrameKind
<1> QED BY <1>1, SlatedPush DEF Pumped, Slates

LEMMA SlatedNone == Slated(<<>>) = {}
BY EmptyQ DEF Slated

\* A step that creates no run keeps the invariant if it forgets no unsettled
\* run that is being cancelled.
LEMMA LiveStep ==
    ASSUME IInv, LiveInv, [Next]_vars, DOMAIN runs' \subseteq DOMAIN runs,
           Cancelling \cap Unsettled' \subseteq Cancelling'
    PROVE  LiveInv'
<1>1. RecordStep /\ NextId \notin DOMAIN runs
  BY NextIsRecordStep, NextIdIsNew DEF IInv, TypeOK
<1>2. ~\E r \in Run : runs' = Put(NextId, r)
  BY <1>1 DEF Put
<1>3. ASSUME NEW k \in Unsettled'
      PROVE  k \in Unsettled /\ runs'[k].workflow = runs[k].workflow
  <2>1. runs \in [DOMAIN runs -> Run]
    BY DEF IInv, TypeOK
  <2>2. CASE UNCHANGED runs
    BY <1>3, <2>2 DEF Unsettled
  <2>3. ASSUME NEW i \in DOMAIN runs, NEW s, runs[i].status \notin Finished,
               runs' = SetStatus(i, s)
        PROVE  k \in Unsettled /\ runs'[k].workflow = runs[k].workflow
    <3>1. /\ DOMAIN runs' = DOMAIN runs
          /\ runs'[k].workflow = runs[k].workflow
          /\ k # i => runs'[k] = runs[k]
      BY <1>3, <2>1, <2>3 DEF SetStatus, Unsettled, Run
    <3>2. runs[i].status \in Pending
      BY <2>1, <2>3 DEF Run
    <3> QED BY <1>3, <3>1, <3>2 DEF Unsettled
  <2>4. CASE runs' = [i \in DOMAIN runs \ doomed |-> runs[i]]
    BY <1>3, <2>4 DEF Unsettled
  <2> QED BY <1>1, <1>2, <2>2, <2>3, <2>4 DEF RecordStep
<1> QED BY <1>3 DEF LiveInv

\* In particular a step outside start-up that cancels no list of ids.
LEMMA LiveCall ==
    ASSUME IInv, LiveInv, [Next]_vars, DOMAIN runs' \subseteq DOMAIN runs,
           ~InFrame("reload"), Slated(stack) \subseteq Slated(stack'),
           \A r \in Runner : runner[r].busy /\ runner[r].stopping =>
               \/ /\ runner'[r].busy /\ runner'[r].stopping
                  /\ runner'[r].run = runner[r].run
               \/ runner[r].run \notin Unsettled'
    PROVE  LiveInv'
<1>1. Cancelling \cap Unsettled' \subseteq Cancelling'
  BY DEF Cancelling, Stopping, LeftOver
<1> QED BY <1>1, LiveStep

LEMMA EndsKeepLive ==
    ASSUME IInv, LiveInv, [Next]_vars,
           \/ ScanEnds \/ DrainEnds \/ WaitTimesOut \/ PumpEnds
           \/ EmitFinished \/ EmitLanded \/ AutoEnds \/ SupersedeEnds
    PROVE  LiveInv'
<1> USE DEF ScanEnds, DrainEnds, WaitTimesOut, PumpEnds, EmitFinished,
            EmitLanded, AutoEnds, SupersedeEnds
<1>1. /\ stack \in Seq(Frame) /\ stack # <<>> /\ ~InFrame("reload")
      /\ Slates(Top) = {}
  BY DEF Slates, InFrame, IInv, TypeOK
<1>2. Slated(stack) = Slated(Tail(stack)) /\ Tail(stack) \in Seq(Frame)
  BY <1>1, SlatedTail DEF Top
<1>3. /\ Slated(Push(Drain, Tail(stack))) = Slated(stack)
      /\ Push(Drain, Tail(stack)) \in Seq(Frame)
  BY <1>2, DrainFrame, SlatedPush DEF Slates
<1>4. Slated(Pumped(Push(Drain, Tail(stack)))) = Slated(stack)
  BY <1>3, SlatedPumped
<1>5. Slated(stack) \subseteq Slated(stack') /\ UNCHANGED <<runs, runner>>
  BY <1>2, <1>3, <1>4 DEF disk
<1> QED BY <1>1, <1>5, LiveCall

\* A step from a clean turn of the event loop: nothing is slated.
LEMMA TurnLive ==
    ASSUME IInv, LiveInv, [Next]_vars, stack = <<>>,
           DOMAIN runs' \subseteq DOMAIN runs,
           \A r \in Runner : runner[r].busy /\ runner[r].stopping =>
               runner'[r].busy /\ runner'[r].stopping
               /\ runner'[r].run = runner[r].run
    PROVE  LiveInv'
BY SlatedNone, LiveCall DEF InFrame

LEMMA CommandsLive ==
    ASSUME IInv, LiveInv, [Next]_vars,
           \/ \E id \in DOMAIN runs : Approve(id) \/ Reject(id) \/ Stop(id) \/ Skip(id)
           \/ \E p : SetAutoApprove(p) \/ AskClear(p)
           \/ \E yes \in BOOLEAN : AnswerClear(yes)
           \/ \E c \in Commit : ScanArrives(c)
           \/ Poll
    PROVE  LiveInv'
<1> USE DEF Approve, Reject, Stop, Skip, SetAutoApprove, AskClear, AnswerClear,
            ScanArrives, Poll, UserTurn, EventTurn, disk
<1>1. stack = <<>> /\ DOMAIN runs' \subseteq DOMAIN runs
  BY DEF SetStatus
<1>2. CASE UNCHANGED runner
  BY <1>1, <1>2, TurnLive
<1>3. ASSUME NEW r \in Runner, StopRunner(r, <<>>) PROVE LiveInv'
  <2>1. \A q \in Runner : runner[q].busy /\ runner[q].stopping =>
            runner'[q].busy /\ runner'[q].stopping /\ runner'[q].run = runner[q].run
    BY <1>3 DEF StopRunner, IInv, TypeOK
  <2> QED BY <1>1, <2>1, TurnLive
<1> QED BY <1>2, <1>3 DEF RunnerFor
\* A run is created: every unsettled run of its workflow is slated.
LEMMA CreateLive ==
    ASSUME IInv, LiveInv, NEW w \in Workflow, NEW c \in Commit,
           NEW rest \in Seq(Frame), CreateRun(w, c, rest),
           ~InFrame("reload"), Slated(stack) \subseteq Slated(rest)
    PROVE  LiveInv'
<1> DEFINE new == NextId
           ok == RepoOf[w] \in auto \/ approved[w] = c
           f == Over(new, Active(w), ok)
<1>1. new \in Nat /\ new \notin DOMAIN runs
  BY NextIdIsNew DEF IInv, TypeOK
<1>2. f \in Frame /\ f.kind = "supersede" /\ f.ids = Active(w)
  <2>1. ok \in BOOLEAN /\ Active(w) \subseteq Nat
    BY ModeAssumption DEF Active, IInv, TypeOK
  <2> HIDE DEF ok, new
  <2> QED BY <1>1, <2>1 DEF Over, F, Frame, FrameKind
<1>3. /\ DOMAIN runs' = DOMAIN runs \cup {new} /\ runs'[new].workflow = w
      /\ \A k \in DOMAIN runs : runs'[k] = runs[k]
      /\ UNCHANGED runner /\ stack' = Push(f, rest)
  BY <1>1 DEF CreateRun, Put
<1> HIDE DEF f, ok, new
<1>4. Slated(stack') = Active(w) \cup Slated(rest)
  BY <1>2, <1>3, SlatedPush DEF Slates
<1>5. Cancelling \subseteq Cancelling' /\ Active(w) \subseteq Cancelling'
  BY <1>3, <1>4 DEF Cancelling, Stopping, LeftOver
<1>6. Unsettled' \subseteq Unsettled \cup {new}
  BY <1>3 DEF Unsettled
<1>7. ASSUME NEW j \in Unsettled', NEW k \in Unsettled', j # k,
             runs'[j].workflow = runs'[k].workflow
      PROVE  j \in Cancelling' \/ k \in Cancelling'
  <2>1. CASE j = new
    <3>1. k \in Active(w)
      BY <1>3, <1>6, <1>7, <2>1 DEF Active, Unsettled
    <3> QED BY <1>5, <3>1
  <2>2. CASE k = new
    <3>1. j \in Active(w)
      BY <1>3, <1>6, <1>7, <2>2 DEF Active, Unsettled
    <3> QED BY <1>5, <3>1
  <2>3. CASE j # new /\ k # new
    <3>1. /\ j \in Unsettled /\ k \in Unsettled
          /\ runs[j].workflow = runs[k].workflow
      BY <1>3, <1>6, <1>7, <2>3 DEF Unsettled
    <3> QED BY <1>5, <1>7, <3>1 DEF LiveInv
  <2> QED BY <2>1, <2>2, <2>3
<1> QED BY <1>7 DEF LiveInv

LEMMA RunCommandsLive ==
    ASSUME IInv, LiveInv, \/ \E c \in Commit : \E w \in At[c] : RunManually(w, c)
                          \/ \E id \in DOMAIN runs : Rerun(id)
    PROVE  LiveInv'
<1>1. stack = <<>>
  BY DEF RunManually, Rerun, UserTurn
<1>2. PICK w \in Workflow, c \in Commit : CreateRun(w, c, <<Drain>>)
  BY CommitAssumption DEF RunManually, Rerun, Run, IInv, TypeOK
<1>3. <<Drain>> \in Seq(Frame)
  BY DrainFrame
<1> QED BY <1>1, <1>2, <1>3, SlatedNone, CreateLive DEF InFrame

LEMMA ScanStepLive ==
    ASSUME IInv, LiveInv, [Next]_vars, ScanStep
    PROVE  LiveInv'
<1>1. /\ stack # <<>> /\ stack \in Seq(Frame) /\ Top \in Frame
      /\ Top.kind = "scan" /\ ~InFrame("reload")
      /\ Top.workflows \in SUBSET Workflow /\ Top.workflows # {}
      /\ Top.commit \in Commit
  <2>1. stack # <<>> /\ Top.kind = "scan" /\ Top.workflows # {} /\ ~InFrame("reload")
    BY DEF ScanStep, InFrame
  <2>2. Top \in Frame /\ FrameOK(Top) /\ stack \in Seq(Frame)
    BY <2>1, TailFacts DEF IInv, TypeOK, FramesOK, Top
  <2> QED BY <2>1, <2>2 DEF Frame, FrameOK
<1> DEFINE w == FirstPath(Top.workflows)
           next == [Top EXCEPT !.workflows = @ \ {w}, !.flag = TRUE]
           rest == [Top EXCEPT !.workflows = @ \ {w}]
<1>2. /\ rest \in Frame /\ rest.kind = "scan"
      /\ next \in Frame /\ next.kind = "scan"
      /\ [rest EXCEPT !.flag = TRUE] = next
  BY <1>1 DEF Frame
<1>3. w \in Workflow
  BY <1>1, FirstPathIsIn
<1> HIDE DEF rest, next, w
<1>4. Slated(stack) = Slated(Tail(stack)) /\ Tail(stack) \in Seq(Frame)
  BY <1>1, SlatedTail DEF Slates, Top
<1>5. /\ Slated(Push(rest, Tail(stack))) = Slated(stack)
      /\ Slated(Push(next, Tail(stack))) = Slated(stack)
      /\ Push(next, Tail(stack)) \in Seq(Frame)
  BY <1>2, <1>4, SlatedPush DEF Slates
<1>6. CASE stack' = Push(rest, Tail(stack)) /\ UNCHANGED <<disk, runner>>
  BY <1>1, <1>5, <1>6, LiveCall DEF disk
<1>7. CASE CreateRun(w, Top.commit, Push(next, Tail(stack)))
  BY <1>1, <1>3, <1>5, <1>7, CreateLive
<1> QED BY <1>2, <1>6, <1>7 DEF ScanStep, rest, w

LEMMA CompletedLive ==
    ASSUME IInv, LiveInv, [Next]_vars, NEW r \in Runner, runner[r].busy,
           NEW s \in Finished, NEW landed \in BOOLEAN, NEW rest \in Seq(Frame),
           Completed(r, s, landed, rest), ~InFrame("reload"),
           Slated(stack) \subseteq Slated(rest)
    PROVE  LiveInv'
<1> DEFINE id == runner[r].run
           fin == Of("finish", r, id)
           lan == Of("landed", r, id)
           under == IF landed THEN Push(lan, rest) ELSE rest
<1>1. id \in DOMAIN runs /\ id \in Nat /\ r \in Nat
  BY PoolAssumption DEF IInv, TypeOK, RunnerOwnsRunning, HasStatus, Runner
<1>2. /\ fin \in Frame /\ fin.kind = "finish"
      /\ lan \in Frame /\ lan.kind = "landed"
  BY <1>1 DEF Of, F, Frame, FrameKind
<1>3. /\ runs' = SetStatus(id, s) /\ stack' = Pumped(Push(fin, under))
      /\ \A q \in Runner : q # r => runner'[q] = runner[q]
  BY DEF Completed, IInv, TypeOK
<1> HIDE DEF id, fin, lan
<1>4. under \in Seq(Frame) /\ Slated(under) = Slated(rest)
  BY <1>2, SlatedPush DEF Slates
<1> HIDE DEF under
<1>5. Push(fin, under) \in Seq(Frame) /\ Slated(Push(fin, under)) = Slated(rest)
  BY <1>2, <1>4, SlatedPush DEF Slates
<1>6. Slated(stack') = Slated(rest)
  BY <1>3, <1>5, SlatedPumped
<1>7. DOMAIN runs' = DOMAIN runs /\ runs'[id].status = s
  BY <1>1, <1>3 DEF SetStatus, IInv, TypeOK, Run
<1>8. id \notin Unsettled'
  BY <1>7 DEF Unsettled, Pending, Finished
<1> QED BY <1>3, <1>6, <1>7, <1>8, LiveCall DEF id

LEMMA RunnersLive ==
    ASSUME IInv, LiveInv, [Next]_vars, (\E r \in Runner : RunnerExits(r)) \/ Launch
    PROVE  LiveInv'
<1>1. stack \in Seq(Frame)
  BY DEF IInv, TypeOK
<1>2. stack # <<>> /\ Top.kind \in {"wait", "launch"} =>
          Slated(stack) = Slated(Tail(stack)) /\ Tail(stack) \in Seq(Frame)
  BY <1>1, SlatedTail DEF Slates, Top
<1>3. ASSUME NEW r \in Runner, RunnerExits(r) PROVE LiveInv'
  <2> DEFINE rest == IF InFrame("wait") THEN Tail(stack) ELSE stack
  <2>1. Slated(stack) = Slated(rest) /\ rest \in Seq(Frame)
    BY <1>1, <1>2 DEF InFrame
  <2>2. runner[r].busy /\ ~InFrame("reload")
    BY <1>3 DEF RunnerExits, IInv, AliveIsBusy, EventTurn, InFrame
  <2>3. PICK s \in Finished, landed \in BOOLEAN : Completed(r, s, landed, rest)
    BY <1>3 DEF RunnerExits, Finished
  <2> QED BY <2>1, <2>2, <2>3, CompletedLive
<1>4. CASE Launch
  <2>1. stack # <<>> /\ Top.kind = "launch" /\ ~InFrame("reload")
    BY <1>4 DEF Launch, InFrame
  <2>2. Top.runner \in Runner /\ runner[Top.runner].busy
    BY <1>1, <2>1, TailFacts DEF Top, IInv, FramesOK, FrameOK
  <2>3. CASE Completed(Top.runner, "failed", FALSE, Tail(stack))
    BY <1>2, <2>1, <2>2, <2>3, CompletedLive DEF Finished
  <2>4. CASE /\ runner' = [runner EXCEPT ![Top.runner].alive = TRUE]
             /\ stack' = Tail(stack) /\ UNCHANGED runs
    <3>1. \A q \in Runner : /\ runner'[q].busy = runner[q].busy
                            /\ runner'[q].stopping = runner[q].stopping
                            /\ runner'[q].run = runner[q].run
      BY <2>2, <2>4 DEF IInv, TypeOK
    <3> QED BY <1>2, <2>1, <2>4, <3>1, LiveCall
  <2> QED BY <1>4, <2>3, <2>4 DEF Launch
<1> QED BY <1>3, <1>4

LEMMA DrainLive ==
    ASSUME IInv, LiveInv, [Next]_vars, DrainStep
    PROVE  LiveInv'
<1>1. PICK id : Refuse(id) \/ Start(id)
  BY DEF DrainStep
<1>2. stack \in Seq(Frame) /\ ~InFrame("reload")
  BY DEF DrainStep, InFrame, IInv, TypeOK
<1>3. CASE Refuse(id)
  BY <1>2, <1>3, LiveCall DEF Refuse, SetStatus
<1>4. CASE Start(id)
  <2>1. PICK r \in Runner :
            /\ ~runner[r].busy
            /\ runner' = [runner EXCEPT ![r] = [NoRun EXCEPT !.busy = TRUE, !.run = id]]
            /\ stack' = Pumped(Push(Of("launch", r, id), stack))
    BY <1>4 DEF Start, Idle
  <2>2. Of("launch", r, id) \in Frame /\ Of("launch", r, id).kind = "launch"
    <3>1. r \in Nat /\ id \in Nat
      BY <1>4, PoolAssumption DEF Runner, Start, HasStatus, IInv, TypeOK
    <3> QED BY <3>1 DEF Of, F, Frame, FrameKind
  <2>3. Slated(stack') = Slated(stack)
    BY <1>2, <2>1, <2>2, SlatedPush, SlatedPumped DEF Slates
  <2>4. \A q \in Runner : runner[q].busy => runner'[q] = runner[q]
    BY <2>1 DEF IInv, TypeOK
  <2>5. DOMAIN runs' = DOMAIN runs
    BY <1>4 DEF Start, SetStatus
  <2> QED BY <1>2, <2>3, <2>4, <2>5, LiveCall
<1> QED BY <1>1, <1>3, <1>4
\* cancelSupersededRuns reaches a run: it stops its runner, or settles it.
LEMMA SupersedeLive ==
    ASSUME IInv, LiveInv, [Next]_vars, SupersedeStep
    PROVE  LiveInv'
<1>1. /\ stack # <<>> /\ stack \in Seq(Frame) /\ Top \in Frame
      /\ Top.kind = "supersede" /\ ~InFrame("reload")
  BY TailFacts DEF SupersedeStep, InFrame, IInv, TypeOK, Top
<1> DEFINE id == Largest(Top.ids)
           f == [Top EXCEPT !.ids = @ \ {id}]
           rest == Push(f, Tail(stack))
<1>2. f \in Frame /\ f.kind = "supersede" /\ f.ids = Top.ids \ {id}
  BY <1>1 DEF Frame
<1> HIDE DEF id, f, rest
<1>3. Slated(stack) \subseteq Slated(rest) \cup {id} /\ rest \in Seq(Frame)
  <2>1. Slated(stack) = Top.ids \cup Slated(Tail(stack)) /\ Tail(stack) \in Seq(Frame)
    BY <1>1, SlatedTail DEF Slates, Top
  <2>2. Slated(rest) = f.ids \cup Slated(Tail(stack)) /\ rest \in Seq(Frame)
    BY <1>2, <2>1, SlatedPush DEF Slates, rest
  <2> QED BY <1>2, <2>1, <2>2
<1>4. CASE \E r \in RunnerFor(id) : StopRunner(r, rest) /\ UNCHANGED runs
  <2>1. PICK r \in Runner : /\ runner[r].busy /\ runner[r].run = id
                            /\ StopRunner(r, rest) /\ UNCHANGED runs
    BY <1>4 DEF RunnerFor
  <2>2. Slated(stack') = Slated(rest)
    BY <1>3, <2>1, WaitFrame, SlatedPush DEF StopRunner, Slates
  <2>3. Stopping \cup {id} \subseteq Stopping'
    <3>1. /\ \A q \in Runner : /\ runner'[q].busy = runner[q].busy
                               /\ runner'[q].run = runner[q].run
                               /\ runner[q].stopping => runner'[q].stopping
          /\ runner'[r].stopping
      BY <2>1 DEF StopRunner, IInv, TypeOK
    <3> QED BY <2>1, <3>1 DEF Stopping
  <2>4. Cancelling \subseteq Cancelling'
    BY <1>1, <1>3, <2>2, <2>3 DEF Cancelling, LeftOver
  <2> QED BY <2>1, <2>4, LiveStep
<1>5. CASE /\ stack' = rest /\ UNCHANGED runner
           /\ DOMAIN runs' = DOMAIN runs /\ id \notin Unsettled'
  <2>1. Cancelling \cap Unsettled' \subseteq Cancelling'
    BY <1>1, <1>3, <1>5 DEF Cancelling, LeftOver, Stopping
  <2> QED BY <1>5, <2>1, LiveStep
<1>6. CASE /\ HasStatus(id, {"queued", "awaiting-approval"})
           /\ runs' = SetStatus(id, "cancelled")
           /\ stack' = rest /\ UNCHANGED runner
  <2>1. DOMAIN runs' = DOMAIN runs /\ id \notin Unsettled'
    BY <1>6 DEF SetStatus, HasStatus, IInv, TypeOK, Run, Unsettled, Pending
  <2> QED BY <1>5, <1>6, <2>1
<1>7. CASE /\ ~HasStatus(id, {"queued", "awaiting-approval"})
           /\ HasStatus(id, {"running"}) => RunnerFor(id) = {}
           /\ stack' = rest /\ UNCHANGED <<runs, runner>>
  <2>1. ~HasStatus(id, {"running"})
    BY <1>1, <1>7, Owned DEF AllOwned, HasStatus
  <2>2. id \notin Unsettled'
    BY <1>7, <2>1 DEF Unsettled, HasStatus, Pending
  <2> QED BY <1>5, <1>7, <2>2
<1> QED BY <1>4, <1>6, <1>7 DEF SupersedeStep, id, f, rest

LEMMA AutoLive ==
    ASSUME IInv, LiveInv, [Next]_vars, AutoStep
    PROVE  LiveInv'
<1>1. /\ stack # <<>> /\ stack \in Seq(Frame) /\ Top \in Frame
      /\ Top.kind = "auto" /\ ~InFrame("reload")
  BY TailFacts DEF AutoStep, InFrame, IInv, TypeOK, Top
<1>2. Slated(stack) = Slated(Tail(stack)) /\ Tail(stack) \in Seq(Frame)
  BY <1>1, SlatedTail DEF Slates, Top
<1>3. PICK f \in Frame : f.kind = "auto" /\ stack' = Push(f, Tail(stack))
  <2> DEFINE rest == [Top EXCEPT !.ids = @ \ {Largest(Top.ids)}]
  <2>1. /\ rest \in Frame /\ rest.kind = "auto"
        /\ [rest EXCEPT !.flag = TRUE] \in Frame
        /\ [rest EXCEPT !.flag = TRUE].kind = "auto"
    BY <1>1 DEF Frame
  <2>2. stack' \in {Push(rest, Tail(stack)), Push([rest EXCEPT !.flag = TRUE], Tail(stack))}
    BY DEF AutoStep
  <2> QED BY <2>1, <2>2
<1>4. Slated(stack') = Slated(stack)
  BY <1>2, <1>3, SlatedPush DEF Slates
<1>5. DOMAIN runs' = DOMAIN runs /\ UNCHANGED runner
  BY DEF AutoStep, SetStatus
<1> QED BY <1>1, <1>4, <1>5, LiveCall

\* The start-up loop settles what the process before left as running.
LEMMA ReloadLive ==
    ASSUME IInv, LiveInv, [Next]_vars, ReloadStep \/ ReloadEnds
    PROVE  LiveInv'
<1>1. /\ stack # <<>> /\ stack \in Seq(Frame) /\ Top \in Frame
      /\ Top.kind = "reload" /\ InFrame("reload")
      /\ \A r \in Runner : ~runner[r].busy
  <2>1. InFrame("reload") /\ stack # <<>> /\ Top.kind = "reload"
    BY DEF ReloadStep, ReloadEnds, InFrame
  <2>2. Top \in Frame /\ FrameOK(Top)
    BY <2>1, ReloadOnTop
  <2> QED BY <2>1, <2>2 DEF FrameOK, IInv, TypeOK
<1>2. /\ Stopping = {} /\ Slated(stack) = Slated(Tail(stack))
      /\ Tail(stack) \in Seq(Frame)
  BY <1>1, SlatedTail DEF Stopping, Slates, Top
<1>3. \A k \in LeftOver : k \in Top.ids
  BY <1>1 DEF LeftOver, IInv, RunnerOwnsRunning, RunnerFor
<1>4. CASE ReloadEnds
  <2>1. LeftOver = {} /\ stack' = Tail(stack) /\ UNCHANGED runs
    BY <1>3, <1>4 DEF ReloadEnds, disk
  <2> QED BY <1>2, <2>1, LiveStep DEF Cancelling
<1>5. CASE ReloadStep
  <2> DEFINE id == Largest(Top.ids)
             f == [Top EXCEPT !.ids = @ \ {id}]
  <2>1. f \in Frame /\ f.kind = "reload"
    BY <1>1 DEF Frame
  <2>2. /\ runs' = IF runs[id].status = "running" THEN SetStatus(id, "failed") ELSE runs
        /\ stack' = Push(f, Tail(stack))
    BY <1>5 DEF ReloadStep
  <2> HIDE DEF f, id
  <2>3. Slated(stack') = Slated(stack)
    BY <1>2, <2>1, <2>2, SlatedPush DEF Slates
  <2>4. InFrame("reload")'
    <3>1. stack' # <<>> /\ Head(stack') = f
      BY <1>2, <2>1, <2>2, PushFacts
    <3> QED BY <2>1, <3>1 DEF InFrame, Top
  <2>5. DOMAIN runs' = DOMAIN runs
    BY <2>2 DEF SetStatus
  <2>6. LeftOver \cap Unsettled' \subseteq LeftOver'
    <3> SUFFICES ASSUME NEW k \in LeftOver, k \in Unsettled' PROVE k \in LeftOver'
      OBVIOUS
    <3>1. k \in DOMAIN runs /\ runs[k].status = "running"
      BY <1>1 DEF LeftOver
    <3>2. runs'[k] = runs[k] \/ runs'[k].status = "failed"
      BY <2>2, <3>1 DEF SetStatus, IInv, TypeOK, Run
    <3> QED BY <2>4, <2>5, <3>1, <3>2 DEF Unsettled, Pending, LeftOver
  <2>7. Cancelling \cap Unsettled' \subseteq Cancelling'
    BY <1>2, <2>3, <2>6 DEF Cancelling
  <2> QED BY <2>5, <2>7, LiveStep
<1> QED BY <1>4, <1>5

\* A process that stops between two handlers leaves the runs it was stopping
\* recorded as running.
LEMMA RestartLive ==
    ASSUME IInv, LiveInv, [Next]_vars, Restart, CrashAnywhere = FALSE
    PROVE  LiveInv'
<1>1. stack = <<>> /\ UNCHANGED runs
  BY DEF Restart, EventTurn, disk
<1>2. InFrame("reload")'
  <2>1. stack' # <<>> /\ Head(stack') = Each("reload", DOMAIN runs)
    BY DEF Restart
  <2> QED BY <2>1 DEF InFrame, Top, Each, F
<1>3. Cancelling = Stopping
  BY <1>1, SlatedNone DEF Cancelling, LeftOver, InFrame
<1>4. Stopping \subseteq LeftOver'
  BY <1>1, <1>2 DEF Stopping, LeftOver, IInv, RunnerOwnsRunning, HasStatus
<1> QED BY <1>1, <1>3, <1>4, LiveStep DEF Cancelling

LEMMA NextLive ==
    ASSUME IInv, LiveInv, [Next]_vars, CrashAnywhere = FALSE
    PROVE  LiveInv'
<1>1. CASE Handler
  BY <1>1, EndsKeepLive, ScanStepLive, SupersedeLive, AutoLive, ReloadLive,
     DrainLive, RunnersLive DEF Handler
<1>2. CASE Command
  <2>1. ASSUME NEW id \in DOMAIN runs,
               Rerun(id) \/ Approve(id) \/ Reject(id) \/ Stop(id) \/ Skip(id)
        PROVE  LiveInv'
    BY <2>1, RunCommandsLive, CommandsLive
  <2>2. ASSUME \E c \in Commit : \E w \in At[c] : RunManually(w, c) PROVE LiveInv'
    BY <2>2, RunCommandsLive
  <2>3. ASSUME NEW p, SetAutoApprove(p) \/ AskClear(p) PROVE LiveInv'
    BY <2>3, CommandsLive
  <2> QED BY <1>2, <2>1, <2>2, <2>3 DEF Command
<1>3. CASE \/ \E yes \in BOOLEAN : AnswerClear(yes)
           \/ \E c \in Commit : ScanArrives(c)
           \/ Poll
  BY <1>3, CommandsLive
<1>4. CASE \E r \in Runner : RunnerExits(r)
  BY <1>4, RunnersLive
<1>5. CASE Restart
  BY <1>5, RestartLive
<1>6. CASE UNCHANGED vars
  BY <1>6 DEF vars, LiveInv, Unsettled, Cancelling, Stopping, LeftOver, InFrame, Top
<1> QED BY <1>1, <1>2, <1>3, <1>4, <1>5, <1>6 DEF Next

\* Of two unsettled runs of one workflow, one is being cancelled, for as long as
\* the process does not die inside a handler.  (A process that dies inside
\* cancelSupersededRuns leaves both until the next run of the workflow.)
THEOREM OneLiveRun ==
    ASSUME CrashAnywhere = FALSE
    PROVE  Spec => []OneLivePerWorkflow
<1>1. Init => LiveInv
  BY DEF Init, LiveInv, Unsettled
<1>2. IInv /\ LiveInv /\ [Next]_vars => LiveInv'
  BY NextLive
<1>3. LiveInv => OneLivePerWorkflow
  <2>1. ASSUME NEW k \in Cancelling PROVE BeingCancelled(k)
    <3>1. CASE k \in Slated(stack)
      <4>1. PICK i \in DOMAIN stack : k \in Slates(stack[i])
        BY <3>1 DEF Slated, Frames
      <4> QED BY <4>1 DEF Slates, BeingCancelled
    <3>2. CASE k \in Stopping \cup LeftOver
      BY <3>2 DEF Stopping, LeftOver, BeingCancelled, RunnerFor
    <3> QED BY <3>1, <3>2 DEF Cancelling
  <2> QED BY <2>1 DEF LiveInv, Unsettled, OneLivePerWorkflow
<1> QED BY <1>1, <1>2, <1>3, IInvInvariant, PTL DEF Spec
-----------------------------------------------------------------------------
(* Pins.  While no pull request is open no handler pumps the event loop,   *)
(* so that `finished' is emitted before anything can start on its runner.  *)

Silent(s) == \A f \in Frames(s) : f.kind \notin {"finish", "pump"}

\* The innermost handler is about to emit `finished' for an idle runner.
AboutToEmit ==
    /\ stack # <<>> /\ Silent(Tail(stack))
    /\ Top.kind = "finish" /\ Top.runner \in Runner
    /\ ~runner[Top.runner].busy /\ runner[Top.runner].run = Top.run
    /\ HasStatus(Top.run, Finished)

PinInv ==
    /\ \A r \in Runner : runner[r].busy => runner[r].run \in pins
    /\ Silent(stack) \/ AboutToEmit

LEMMA SilentPush ==
    ASSUME NEW s \in Seq(Frame), Silent(s), NEW f \in Frame,
           f.kind \notin {"finish", "pump"}
    PROVE  Silent(Push(f, s)) /\ Push(f, s) \in Seq(Frame)
<1>1. Frames(Push(f, s)) = {f} \cup Frames(s)
  BY PushFrames
<1>2. Push(f, s) \in Seq(Frame)
  BY PushFacts
<1> QED BY <1>1, <1>2 DEF Silent

LEMMA SilentTail ==
    ASSUME NEW s \in Seq(Frame), Silent(s), s # <<>>
    PROVE  Silent(Tail(s)) /\ Tail(s) \in Seq(Frame)
<1>1. Frames(Tail(s)) \subseteq Frames(s)
  BY TailFrames
<1> QED BY <1>1, TailFacts DEF Silent

\* A step that leaves the handlers silent and starts nothing.
LEMMA SilentStep ==
    ASSUME PinInv, Silent(stack'), UNCHANGED pins,
           \A r \in Runner : runner'[r].busy =>
               runner[r].busy /\ runner'[r].run = runner[r].run
    PROVE  PinInv'
BY DEF PinInv

\* What the other handlers start from.
LEMMA SilentNow ==
    ASSUME IInv, PinInv, ~InFrame("finish")
    PROVE  /\ Silent(stack) /\ stack \in Seq(Frame)
           /\ stack # <<>> => Silent(Tail(stack)) /\ Tail(stack) \in Seq(Frame)
<1>1. Silent(stack) /\ stack \in Seq(Frame)
  BY DEF PinInv, AboutToEmit, InFrame, IInv, TypeOK
<1> QED BY <1>1, SilentTail

\* A run's runner is told nothing while the signal is emitted.
LEMMA EmitPin ==
    ASSUME IInv, PinInv, EmitFinished, PullPageOpen = FALSE
    PROVE  PinInv'
<1>1. AboutToEmit
  BY DEF PinInv, Silent, EmitFinished, InFrame, Frames, Top, IInv, TypeOK
<1>2. /\ pins' = pins \ {Top.run} /\ UNCHANGED <<runs, runner>>
      /\ stack' = Push(Drain, Tail(stack))
  BY <1>1 DEF EmitFinished, AboutToEmit, Pumped, disk
<1>3. Silent(stack')
  <2>1. Tail(stack) \in Seq(Frame)
    BY <1>1, TailFacts DEF AboutToEmit, IInv, TypeOK
  <2> QED BY <1>1, <1>2, <2>1, DrainFrame, SilentPush DEF AboutToEmit
<1>4. \A r \in Runner : runner[r].busy => runner[r].run # Top.run
  BY <1>1 DEF AboutToEmit, IInv, RunnerOwnsRunning, HasStatus, Finished
<1> QED BY <1>2, <1>3, <1>4 DEF PinInv

\* A runner completes and is about to say so.
LEMMA CompletedPin ==
    ASSUME IInv, PinInv, NEW r \in Runner, runner[r].busy,
           NEW s \in Finished, NEW landed \in BOOLEAN, NEW rest \in Seq(Frame),
           Completed(r, s, landed, rest), Silent(rest), UNCHANGED pins,
           PullPageOpen = FALSE
    PROVE  PinInv'
<1> DEFINE id == runner[r].run
           fin == Of("finish", r, id)
           lan == Of("landed", r, id)
           under == IF landed THEN Push(lan, rest) ELSE rest
<1>1. id \in DOMAIN runs /\ id \in Nat /\ r \in Nat
  BY PoolAssumption DEF IInv, TypeOK, RunnerOwnsRunning, HasStatus, Runner
<1>2. /\ fin \in Frame /\ fin.kind = "finish" /\ fin.runner = r /\ fin.run = id
      /\ lan \in Frame /\ lan.kind = "landed"
  BY <1>1 DEF Of, F, Frame, FrameKind
<1>3. /\ runs' = SetStatus(id, s) /\ stack' = Push(fin, under)
      /\ ~runner'[r].busy /\ runner'[r].run = id
      /\ \A q \in Runner : q # r => runner'[q] = runner[q]
  BY DEF Completed, Pumped, NoRun, IInv, TypeOK
<1> HIDE DEF id, fin, lan
<1>4. under \in Seq(Frame) /\ Silent(under)
  BY <1>2, SilentPush
<1> HIDE DEF under
<1>5. stack' # <<>> /\ Head(stack') = fin /\ Tail(stack') = under
  BY <1>2, <1>3, <1>4, PushFacts DEF Push
<1>6. id \in DOMAIN runs' /\ runs'[id].status \in Finished
  BY <1>1, <1>3 DEF SetStatus, IInv, TypeOK, Run
<1>7. AboutToEmit'
  BY <1>2, <1>3, <1>4, <1>5, <1>6 DEF AboutToEmit, Top, HasStatus
<1> QED BY <1>3, <1>7 DEF PinInv

LEMMA RunnersPin ==
    ASSUME IInv, PinInv, (\E r \in Runner : RunnerExits(r)) \/ Launch,
           PullPageOpen = FALSE
    PROVE  PinInv'
<1>1. ~InFrame("finish")
  BY DEF RunnerExits, Launch, EventTurn, InFrame
<1>2. ASSUME NEW r \in Runner, RunnerExits(r) PROVE PinInv'
  <2> DEFINE rest == IF InFrame("wait") THEN Tail(stack) ELSE stack
  <2>1. Silent(rest) /\ rest \in Seq(Frame)
    BY <1>1, SilentNow DEF InFrame
  <2>2. runner[r].busy
    BY <1>2 DEF RunnerExits, IInv, AliveIsBusy
  <2>3. PICK s \in Finished, landed \in BOOLEAN : Completed(r, s, landed, rest)
    BY <1>2 DEF RunnerExits, Finished
  <2> QED BY <1>2, <2>1, <2>2, <2>3, CompletedPin DEF RunnerExits
<1>3. CASE Launch
  <2>1. stack # <<>> /\ Top.kind = "launch"
    BY <1>3 DEF Launch, InFrame
  <2>2. Top.runner \in Runner /\ runner[Top.runner].busy
    BY <2>1, TailFacts DEF Top, IInv, TypeOK, FramesOK, FrameOK
  <2>3. Silent(Tail(stack)) /\ Tail(stack) \in Seq(Frame)
    BY <1>1, <2>1, SilentNow
  <2>4. CASE Completed(Top.runner, "failed", FALSE, Tail(stack))
    BY <1>3, <2>2, <2>3, <2>4, CompletedPin DEF Finished, Launch
  <2>5. CASE /\ runner' = [runner EXCEPT ![Top.runner].alive = TRUE]
             /\ stack' = Tail(stack)
    <3>1. \A q \in Runner : /\ runner'[q].busy = runner[q].busy
                            /\ runner'[q].run = runner[q].run
      BY <2>2, <2>5 DEF IInv, TypeOK
    <3> QED BY <1>3, <2>3, <2>5, <3>1, SilentStep DEF Launch
  <2> QED BY <1>3, <2>4, <2>5 DEF Launch
<1> QED BY <1>2, <1>3
LEMMA StartPin ==
    ASSUME IInv, PinInv, DrainStep, PullPageOpen = FALSE
    PROVE  PinInv'
<1>1. Silent(stack) /\ stack \in Seq(Frame)
  BY SilentNow DEF DrainStep, InFrame
<1>2. PICK id : Refuse(id) \/ Start(id)
  BY DEF DrainStep
<1>3. CASE Refuse(id)
  BY <1>1, <1>3, SilentStep DEF Refuse
<1>4. CASE Start(id)
  <2>1. PICK r \in Runner :
            /\ ~runner[r].busy
            /\ runner' = [runner EXCEPT ![r] = [NoRun EXCEPT !.busy = TRUE, !.run = id]]
            /\ stack' = Push(Of("launch", r, id), stack)
    BY <1>4 DEF Start, Idle, Pumped
  <2>2. Of("launch", r, id) \in Frame /\ Of("launch", r, id).kind = "launch"
    <3>1. r \in Nat /\ id \in Nat
      BY <1>4, PoolAssumption DEF Runner, Start, HasStatus, IInv, TypeOK
    <3> QED BY <3>1 DEF Of, F, Frame, FrameKind
  <2>3. Silent(stack')
    BY <1>1, <2>1, <2>2, SilentPush
  <2>4. runner'[r].run = id /\ \A q \in Runner : q # r => runner'[q] = runner[q]
    BY <2>1 DEF NoRun, IInv, TypeOK
  <2>5. pins' = pins \cup {id}
    BY <1>4 DEF Start
  <2> QED BY <2>3, <2>4, <2>5 DEF PinInv
<1> QED BY <1>2, <1>3, <1>4

\* The ends of the handlers that emit nothing.
LEMMA EndsPin ==
    ASSUME IInv, PinInv,
           \/ ScanEnds \/ DrainEnds \/ WaitTimesOut \/ PumpEnds \/ EmitLanded
           \/ AutoEnds \/ SupersedeEnds \/ ReloadEnds
    PROVE  PinInv'
<1> USE DEF ScanEnds, DrainEnds, WaitTimesOut, PumpEnds, EmitLanded, AutoEnds,
            SupersedeEnds, ReloadEnds
<1>1. stack # <<>> /\ ~InFrame("finish") /\ UNCHANGED <<runner, pins>>
  BY DEF InFrame
<1>2. Silent(Tail(stack)) /\ Tail(stack) \in Seq(Frame)
  BY <1>1, SilentNow
<1>3. Silent(Push(Drain, Tail(stack)))
  BY <1>2, DrainFrame, SilentPush
<1>4. Silent(stack')
  BY <1>2, <1>3
<1> QED BY <1>1, <1>4, SilentStep

\* The handlers that go on with a shorter list, and the calls they make.
LEMMA ListsPin ==
    ASSUME IInv, PinInv, SupersedeStep \/ AutoStep \/ ReloadStep
    PROVE  PinInv'
<1>1. /\ stack # <<>> /\ ~InFrame("finish") /\ UNCHANGED pins
      /\ Top.kind \in {"supersede", "auto", "reload"}
  BY DEF SupersedeStep, AutoStep, ReloadStep, InFrame
<1>2. Silent(Tail(stack)) /\ Tail(stack) \in Seq(Frame) /\ Top \in Frame
  BY <1>1, SilentNow, TailFacts DEF IInv, TypeOK, Top
<1> DEFINE f == [Top EXCEPT !.ids = @ \ {Largest(Top.ids)}]
           g == [f EXCEPT !.flag = TRUE]
<1>3. /\ f \in Frame /\ f.kind \notin {"finish", "pump"}
      /\ g \in Frame /\ g.kind \notin {"finish", "pump"}
  BY <1>1, <1>2 DEF Frame
<1>4. /\ Silent(Push(f, Tail(stack))) /\ Push(f, Tail(stack)) \in Seq(Frame)
      /\ Silent(Push(g, Tail(stack)))
  <2> HIDE DEF f, g
  <2> QED BY <1>2, <1>3, SilentPush
<1>5. CASE UNCHANGED runner /\ stack' \in {Push(f, Tail(stack)), Push(g, Tail(stack))}
  BY <1>1, <1>4, <1>5, SilentStep
<1>6. ASSUME NEW r \in Runner, StopRunner(r, Push(f, Tail(stack))) PROVE PinInv'
  <2>1. Silent(stack')
    BY <1>4, <1>6, WaitFrame, SilentPush DEF StopRunner
  <2>2. \A q \in Runner : /\ runner'[q].busy = runner[q].busy
                          /\ runner'[q].run = runner[q].run
    BY <1>6 DEF StopRunner, IInv, TypeOK
  <2> QED BY <1>1, <2>1, <2>2, SilentStep
<1>7. CASE SupersedeStep
  BY <1>5, <1>6, <1>7 DEF SupersedeStep, RunnerFor
<1>8. CASE AutoStep \/ ReloadStep
  BY <1>5, <1>8 DEF AutoStep, ReloadStep
<1> QED BY <1>7, <1>8

LEMMA CreatePin ==
    ASSUME IInv, PinInv, NEW w \in Workflow, NEW c \in Commit,
           NEW rest \in Seq(Frame), CreateRun(w, c, rest), Silent(rest)
    PROVE  PinInv'
<1> DEFINE ok == RepoOf[w] \in auto \/ approved[w] = c
           f == Over(NextId, Active(w), ok)
<1>1. f \in Frame /\ f.kind = "supersede"
  <2>1. ok \in BOOLEAN /\ Active(w) \subseteq Nat /\ NextId \in Nat
    BY NextIdIsNew, ModeAssumption DEF Active, IInv, TypeOK
  <2> HIDE DEF ok
  <2> QED BY <2>1 DEF Over, F, Frame, FrameKind
<1>2. stack' = Push(f, rest) /\ UNCHANGED <<runner, pins>>
  BY DEF CreateRun
<1> HIDE DEF f
<1>3. Silent(stack')
  BY <1>1, <1>2, SilentPush
<1> QED BY <1>2, <1>3, SilentStep

LEMMA ScanPin ==
    ASSUME IInv, PinInv, ScanStep
    PROVE  PinInv'
<1>1. /\ stack # <<>> /\ ~InFrame("finish") /\ Top.kind = "scan"
      /\ Top.workflows # {}
  BY DEF ScanStep, InFrame
<1>2. /\ Silent(Tail(stack)) /\ Tail(stack) \in Seq(Frame)
      /\ Top \in Frame /\ FrameOK(Top)
  BY <1>1, SilentNow, TailFacts DEF IInv, TypeOK, FramesOK, Top
<1>3. Top.workflows \in SUBSET Workflow /\ Top.commit \in Commit
  BY <1>1, <1>2 DEF Frame, FrameOK
<1> DEFINE w == FirstPath(Top.workflows)
           rest == [Top EXCEPT !.workflows = @ \ {w}]
           next == [rest EXCEPT !.flag = TRUE]
<1>4. /\ rest \in Frame /\ rest.kind = "scan"
      /\ next \in Frame /\ next.kind = "scan"
  BY <1>1, <1>2 DEF Frame
<1>5. w \in Workflow
  BY <1>1, <1>3, FirstPathIsIn
<1> HIDE DEF rest, next, w
<1>6. /\ Silent(Push(rest, Tail(stack)))
      /\ Silent(Push(next, Tail(stack))) /\ Push(next, Tail(stack)) \in Seq(Frame)
  BY <1>2, <1>4, SilentPush
<1>7. CASE stack' = Push(rest, Tail(stack)) /\ UNCHANGED <<runner, pins>>
  BY <1>6, <1>7, SilentStep
<1>8. CASE CreateRun(w, Top.commit, Push(next, Tail(stack)))
  BY <1>3, <1>5, <1>6, <1>8, CreatePin
<1> QED BY <1>7, <1>8 DEF ScanStep, rest, next, w

\* A step from a clean turn of the event loop.
LEMMA TurnPin ==
    ASSUME IInv, PinInv, stack = <<>>,
           \/ Poll
           \/ \E c \in Commit : ScanArrives(c)
           \/ \E yes \in BOOLEAN : AnswerClear(yes)
           \/ \E p : AskClear(p) \/ SetAutoApprove(p)
           \/ \E id \in DOMAIN runs : Approve(id) \/ Reject(id) \/ Skip(id) \/ Stop(id)
    PROVE  PinInv'
<1> USE DEF Poll, ScanArrives, AnswerClear, AskClear, SetAutoApprove, Approve,
            Reject, Skip, Stop
<1>1. \A f \in Frame : f.kind \notin {"finish", "pump"} => Silent(<<f>>)
  <2>1. \A f \in Frame : Push(f, <<>>) = <<f>>
    BY DEF Push
  <2>2. Silent(<<>>)
    BY EmptyQ DEF Silent
  <2> QED BY <2>1, <2>2, EmptyQ, SilentPush
<1>2. UNCHANGED pins
  OBVIOUS
<1>3. ASSUME NEW r \in Runner, StopRunner(r, <<>>) PROVE PinInv'
  <2>1. stack' = <<Wait(r)>>
    BY <1>3 DEF StopRunner, Push
  <2>2. Silent(stack')
    BY <1>1, <2>1, WaitFrame
  <2>3. \A q \in Runner : /\ runner'[q].busy = runner[q].busy
                          /\ runner'[q].run = runner[q].run
    BY <1>3 DEF StopRunner, IInv, TypeOK
  <2> QED BY <1>2, <2>2, <2>3, SilentStep
<1>4. CASE UNCHANGED runner /\ Silent(stack')
  BY <1>2, <1>4, SilentStep
<1>5. Silent(stack) /\ Silent(<<Drain>>)
  BY <1>1, EmptyQ, DrainFrame DEF Silent
<1>6. ASSUME NEW c \in Commit, ScanArrives(c) PROVE Silent(stack')
  <2>1. Scan(c, At[c]) \in Frame /\ Scan(c, At[c]).kind = "scan"
    BY CommitAssumption DEF Scan, F, Frame, FrameKind
  <2> QED BY <1>1, <1>6, <2>1
<1>7. ASSUME NEW p, SetAutoApprove(p) PROVE Silent(stack')
  <2> DEFINE A == {k \in DOMAIN runs : /\ RepoOf[runs[k].workflow] = p
                                       /\ runs[k].status = "awaiting-approval"}
  <2>1. Each("auto", A) \in Frame /\ Each("auto", A).kind = "auto"
    <3>1. A \subseteq Nat
      BY DEF IInv, TypeOK
    <3> HIDE DEF A
    <3> QED BY <3>1 DEF Each, F, Frame, FrameKind
  <2>2. stack' \in {stack, <<Each("auto", A)>>}
    BY <1>7
  <2> HIDE DEF A
  <2> QED BY <1>1, <1>5, <2>1, <2>2
<1> QED BY <1>3, <1>4, <1>5, <1>6, <1>7 DEF RunnerFor

LEMMA RestartPin ==
    ASSUME IInv, PinInv, Restart
    PROVE  PinInv'
<1> DEFINE f == Each("reload", DOMAIN runs)
           g == Each("auto", {k \in DOMAIN runs :
                    /\ RepoOf[runs[k].workflow] \in auto
                    /\ runs[k].status = "awaiting-approval"})
<1>1. f.kind = "reload" /\ g.kind = "auto"
  BY DEF Each, F
<1>2. stack' = <<f, g, Drain>>
  BY DEF Restart
<1> HIDE DEF f, g
<1>3. /\ stack'[1] = f /\ stack'[2] = g /\ stack'[3] = Drain
      /\ DOMAIN stack' = 1..3 /\ \A i \in 1..3 : i = 1 \/ i = 2 \/ i = 3
  BY <1>2
<1>4. Frames(stack') = {f, g, Drain}
  BY <1>3 DEF Frames
<1>5. Silent(stack')
  BY <1>1, <1>4, DrainFrame DEF Silent
<1>6. \A r \in Runner : ~runner'[r].busy
  BY DEF Restart, NoRun
<1> QED BY <1>5, <1>6 DEF PinInv

LEMMA NextPin ==
    ASSUME IInv, PinInv, [Next]_vars, PullPageOpen = FALSE
    PROVE  PinInv'
<1>1. CASE Handler
  BY <1>1, EndsPin, ScanPin, ListsPin, StartPin, RunnersPin, EmitPin DEF Handler
<1>2. CASE Command
  <2>1. ASSUME NEW w \in Workflow, NEW c \in Commit, CreateRun(w, c, <<Drain>>)
        PROVE  PinInv'
    <3>1. <<Drain>> = Push(Drain, <<>>) /\ Silent(<<>>)
      BY EmptyQ DEF Push, Silent
    <3>2. Silent(<<Drain>>) /\ <<Drain>> \in Seq(Frame)
      BY <3>1, EmptyQ, DrainFrame, SilentPush
    <3> QED BY <2>1, <3>2, CreatePin
  <2>2. ASSUME NEW id \in DOMAIN runs, Rerun(id) PROVE PinInv'
    BY <2>1, <2>2 DEF Rerun, IInv, TypeOK, Run
  <2>3. ASSUME NEW c \in Commit, NEW w \in At[c], RunManually(w, c) PROVE PinInv'
    BY <2>1, <2>3, CommitAssumption DEF RunManually
  <2>4. ASSUME NEW id \in DOMAIN runs,
               Approve(id) \/ Reject(id) \/ Stop(id) \/ Skip(id)
        PROVE  PinInv'
    BY <2>4, TurnPin DEF Approve, Reject, Stop, Skip, UserTurn
  <2>5. ASSUME NEW p, SetAutoApprove(p) \/ AskClear(p) PROVE PinInv'
    BY <2>5, TurnPin DEF SetAutoApprove, AskClear, UserTurn
  <2> QED BY <1>2, <2>2, <2>3, <2>4, <2>5 DEF Command
<1>3. CASE \/ \E yes \in BOOLEAN : AnswerClear(yes)
           \/ \E c \in Commit : ScanArrives(c)
           \/ Poll
  BY <1>3, TurnPin DEF AnswerClear, ScanArrives, Poll, EventTurn
<1>4. CASE \E r \in Runner : RunnerExits(r)
  BY <1>4, RunnersPin
<1>5. CASE Restart
  BY <1>5, RestartPin
<1>6. CASE UNCHANGED vars
  BY <1>6 DEF vars, PinInv, AboutToEmit, Top, HasStatus
<1> QED BY <1>1, <1>2, <1>3, <1>4, <1>5, <1>6 DEF Next

THEOREM PinInvariant ==
    ASSUME PullPageOpen = FALSE
    PROVE  Spec => []PinInv
<1>1. Init => PinInv
  BY EmptyQ DEF Init, PinInv, NoRun, Silent
<1>2. IInv /\ PinInv /\ [Next]_vars => PinInv'
  BY NextPin
<1> QED BY <1>1, <1>2, IInvInvariant, PTL DEF Spec

\* An executing run keeps its mirror pinned, while no pull request page is open:
\* with one open, ActionPin.cfg shows how the pin is lost.
THEOREM PinIsHeld ==
    ASSUME PullPageOpen = FALSE
    PROVE  Spec => []PinHeldWhileRunning
<1>1. IInv /\ PinInv => PinHeldWhileRunning
  BY DEF PinInv, IInv, AliveIsBusy, PinHeldWhileRunning
<1> QED BY <1>1, IInvInvariant, PinInvariant, PTL

-----------------------------------------------------------------------------
(* The order in which a push's files are scheduled.                        *)

Scans(s) == {f \in Frames(s) : f.kind = "scan"}

\* A scan interrupts no other handler, and no run is created between the claim
\* of a runner and the launch of its process.
Layered(s) ==
    /\ \A i \in DOMAIN s : s[i].kind = "scan" => i = Len(s)
    /\ \A i, j \in DOMAIN s :
          s[i].kind = "launch" /\ s[j].kind = "supersede" => i < j

NoLaunch(s) == \A f \in Frames(s) : f.kind # "launch"

\* Of the handlers s after a step that lists no new files.
Calm(s) == Layered(s) /\ Scans(s) \subseteq Scans(stack)

LEMMA CalmPush ==
    ASSUME NEW s \in Seq(Frame), Calm(s), NEW f \in Frame, f.kind # "scan",
           f.kind = "supersede" => NoLaunch(s)
    PROVE  Calm(Push(f, s)) /\ Push(f, s) \in Seq(Frame)
<1> DEFINE t == Push(f, s)
<1>1. Frames(t) = {f} \cup Frames(s)
  BY PushFrames
<1>2. /\ t \in Seq(Frame) /\ DOMAIN t = 1..(Len(s) + 1) /\ t[1] = f
      /\ \A i \in DOMAIN t : i # 1 => i - 1 \in DOMAIN s /\ t[i] = s[i - 1]
  BY PushFacts
<1> HIDE DEF t
<1>3. Len(t) = Len(s) + 1
  BY <1>2
<1>4. \A i \in DOMAIN t : t[i].kind = "scan" => i = Len(t)
  BY <1>2, <1>3 DEF Layered, Calm
<1>5. ASSUME NEW i \in DOMAIN t, NEW j \in DOMAIN t, t[i].kind = "launch",
             t[j].kind = "supersede"
      PROVE  i < j
  <2>1. CASE j = 1
    <3>1. i # 1 /\ NoLaunch(s)
      BY <1>2, <1>5, <2>1
    <3>2. i - 1 \in DOMAIN s /\ s[i - 1].kind = "launch"
      BY <1>2, <1>5, <3>1
    <3> QED BY <3>1, <3>2 DEF NoLaunch, Frames
  <2>2. CASE i = 1 /\ j # 1
    BY <1>2, <2>2
  <2>3. CASE i # 1 /\ j # 1
    <3>1. i - 1 \in DOMAIN s /\ j - 1 \in DOMAIN s /\ i - 1 < j - 1
      BY <1>2, <1>5, <2>3 DEF Calm, Layered
    <3> QED BY <1>2, <3>1
  <2> QED BY <2>1, <2>2, <2>3
<1>6. Layered(t)
  BY <1>4, <1>5 DEF Layered
<1> QED BY <1>1, <1>2, <1>6 DEF Calm, Scans, t

LEMMA CalmTail ==
    ASSUME NEW s \in Seq(Frame), Calm(s), s # <<>>
    PROVE  Calm(Tail(s)) /\ Tail(s) \in Seq(Frame)
<1> DEFINE t == Tail(s)
<1>1. Frames(t) \subseteq Frames(s)
  BY TailFrames
<1>2. /\ t \in Seq(Frame) /\ DOMAIN t = 1..(Len(s) - 1) /\ Len(t) = Len(s) - 1
      /\ \A i \in DOMAIN t : i + 1 \in DOMAIN s /\ t[i] = s[i + 1]
  BY TailFacts
<1> HIDE DEF t
<1>3. \A i \in DOMAIN t : t[i].kind = "scan" => i = Len(t)
  BY <1>2 DEF Layered, Calm
<1>4. ASSUME NEW i \in DOMAIN t, NEW j \in DOMAIN t, t[i].kind = "launch",
             t[j].kind = "supersede"
      PROVE  i < j
  <2>1. i + 1 \in DOMAIN s /\ j + 1 \in DOMAIN s /\ i + 1 < j + 1
    BY <1>2, <1>4 DEF Calm, Layered
  <2> QED BY <1>2, <2>1
<1>5. Layered(t)
  BY <1>3, <1>4 DEF Layered
<1> QED BY <1>1, <1>2, <1>5 DEF Calm, Scans, t

LEMMA CalmPumped ==
    ASSUME NEW s \in Seq(Frame), Calm(s)
    PROVE  Calm(Pumped(s)) /\ Pumped(s) \in Seq(Frame)
<1>1. F("pump") \in Frame /\ F("pump").kind = "pump"
  BY DEF F, Frame, FrameKind
<1> QED BY <1>1, CalmPush DEF Pumped

LEMMA CalmEmpty == Calm(<<>>) /\ <<>> \in Seq(Frame)
BY EmptyQ DEF Calm, Scans, Layered, Frames

\* Under a creation no runner is being launched.
LEMMA NoLaunchBelow ==
    ASSUME IInv, Layered(stack), stack # <<>>, Top.kind = "supersede"
    PROVE  NoLaunch(Tail(stack))
<1>1. /\ stack \in Seq(Frame) /\ Top = stack[1] /\ 1 \in DOMAIN stack
      /\ \A i \in DOMAIN Tail(stack) :
            i + 1 \in DOMAIN stack /\ Tail(stack)[i] = stack[i + 1]
  BY TailFacts DEF IInv, TypeOK, Top
<1>2. \A i \in DOMAIN Tail(stack) : Tail(stack)[i].kind # "launch"
  <2> SUFFICES ASSUME NEW i \in DOMAIN Tail(stack), Tail(stack)[i].kind = "launch"
               PROVE  FALSE
    OBVIOUS
  <2>1. i + 1 \in DOMAIN stack /\ i + 1 < 1
    BY <1>1 DEF Layered
  <2>2. i \in Nat /\ i >= 1
    BY <1>1, TailFacts
  <2> QED BY <2>1, <2>2
<1> QED BY <1>2 DEF NoLaunch, Frames

\* What every step starts from.
LEMMA CalmNow ==
    ASSUME IInv, Layered(stack)
    PROVE  /\ Calm(stack) /\ stack \in Seq(Frame)
           /\ stack # <<>> => Calm(Tail(stack)) /\ Tail(stack) \in Seq(Frame)
<1>1. Calm(stack) /\ stack \in Seq(Frame)
  BY DEF Calm, IInv, TypeOK
<1> QED BY <1>1, CalmTail

LEMMA CreateCalm ==
    ASSUME IInv, NEW w \in Workflow, NEW c \in Commit, NEW rest \in Seq(Frame),
           CreateRun(w, c, rest)
    PROVE  \E f \in Frame : f.kind = "supersede" /\ stack' = Push(f, rest)
<1> DEFINE ok == RepoOf[w] \in auto \/ approved[w] = c
           f == Over(NextId, Active(w), ok)
<1>1. f \in Frame /\ f.kind = "supersede"
  <2>1. ok \in BOOLEAN /\ Active(w) \subseteq Nat /\ NextId \in Nat
    BY NextIdIsNew, ModeAssumption DEF Active, IInv, TypeOK
  <2> HIDE DEF ok
  <2> QED BY <2>1 DEF Over, F, Frame, FrameKind
<1>2. stack' = Push(f, rest)
  BY DEF CreateRun
<1> HIDE DEF f
<1> QED BY <1>1, <1>2

LEMMA EndsCalm ==
    ASSUME IInv, Layered(stack),
           \/ ScanEnds \/ DrainEnds \/ WaitTimesOut \/ PumpEnds \/ EmitLanded
           \/ AutoEnds \/ SupersedeEnds \/ ReloadEnds \/ EmitFinished
    PROVE  Calm(stack')
<1> USE DEF ScanEnds, DrainEnds, WaitTimesOut, PumpEnds, EmitLanded, AutoEnds,
            SupersedeEnds, ReloadEnds, EmitFinished
<1>1. Calm(Tail(stack)) /\ Tail(stack) \in Seq(Frame)
  BY CalmNow DEF InFrame
<1>2. Calm(Push(Drain, Tail(stack))) /\ Push(Drain, Tail(stack)) \in Seq(Frame)
  BY <1>1, DrainFrame, CalmPush
<1>3. Calm(Pumped(Push(Drain, Tail(stack))))
  BY <1>2, CalmPumped
<1> QED BY <1>1, <1>2, <1>3

LEMMA ListsCalm ==
    ASSUME IInv, Layered(stack), SupersedeStep \/ AutoStep \/ ReloadStep
    PROVE  Calm(stack')
<1>1. stack # <<>> /\ Top.kind \in {"supersede", "auto", "reload"}
  BY DEF SupersedeStep, AutoStep, ReloadStep, InFrame
<1>2. Calm(Tail(stack)) /\ Tail(stack) \in Seq(Frame) /\ Top \in Frame
  BY <1>1, CalmNow, TailFacts DEF IInv, TypeOK, Top
<1> DEFINE f == [Top EXCEPT !.ids = @ \ {Largest(Top.ids)}]
           g == [f EXCEPT !.flag = TRUE]
<1>3. /\ f \in Frame /\ f.kind # "scan" /\ g \in Frame /\ g.kind # "scan"
      /\ {f.kind, g.kind} \subseteq {Top.kind}
  BY <1>1, <1>2 DEF Frame
<1>below. Top.kind = "supersede" => NoLaunch(Tail(stack))
  BY <1>1, NoLaunchBelow
<1>4. /\ Calm(Push(f, Tail(stack))) /\ Push(f, Tail(stack)) \in Seq(Frame)
      /\ Calm(Push(g, Tail(stack)))
  <2> HIDE DEF f, g
  <2> QED BY <1>2, <1>3, <1>below, CalmPush
<1>5. CASE stack' \in {Push(f, Tail(stack)), Push(g, Tail(stack))}
  BY <1>4, <1>5
<1>6. ASSUME NEW r \in Runner, StopRunner(r, Push(f, Tail(stack))) PROVE Calm(stack')
  BY <1>4, <1>6, WaitFrame, CalmPush DEF StopRunner
<1>7. CASE SupersedeStep
  BY <1>5, <1>6, <1>7 DEF SupersedeStep, RunnerFor
<1>8. CASE AutoStep \/ ReloadStep
  BY <1>5, <1>8 DEF AutoStep, ReloadStep
<1> QED BY <1>7, <1>8

LEMMA CompletedCalm ==
    ASSUME IInv, NEW r \in Runner, NEW s, NEW landed, NEW rest \in Seq(Frame),
           Completed(r, s, landed, rest), Calm(rest)
    PROVE  Calm(stack')
<1> DEFINE id == runner[r].run
           fin == Of("finish", r, id)
           lan == Of("landed", r, id)
           under == IF landed THEN Push(lan, rest) ELSE rest
<1>1. id \in Nat
  BY DEF IInv, TypeOK
<1>2. /\ fin \in Frame /\ fin.kind = "finish"
      /\ lan \in Frame /\ lan.kind = "landed"
  <2>1. r \in Nat
    BY PoolAssumption DEF Runner
  <2> HIDE DEF id
  <2> QED BY <1>1, <2>1 DEF Of, F, Frame, FrameKind
<1>3. stack' = Pumped(Push(fin, under))
  BY DEF Completed
<1> HIDE DEF id, fin, lan
<1>4. Calm(under) /\ under \in Seq(Frame)
  BY <1>2, CalmPush
<1> HIDE DEF under
<1>5. Calm(Push(fin, under)) /\ Push(fin, under) \in Seq(Frame)
  BY <1>2, <1>4, CalmPush
<1> QED BY <1>3, <1>5, CalmPumped

LEMMA RunnersCalm ==
    ASSUME IInv, Layered(stack), (\E r \in Runner : RunnerExits(r)) \/ Launch \/ DrainStep
    PROVE  Calm(stack')
<1>1. ASSUME NEW r \in Runner, RunnerExits(r) PROVE Calm(stack')
  <2> DEFINE rest == IF InFrame("wait") THEN Tail(stack) ELSE stack
  <2>1. Calm(rest) /\ rest \in Seq(Frame)
    BY CalmNow DEF InFrame
  <2>2. \E s, landed : Completed(r, s, landed, rest)
    BY <1>1 DEF RunnerExits
  <2> HIDE DEF rest
  <2> QED BY <2>1, <2>2, CompletedCalm
<1>2. CASE Launch
  <2>1. stack # <<>> /\ Top.kind = "launch"
    BY <1>2 DEF Launch, InFrame
  <2>2. Top.runner \in Runner
    BY <2>1, TailFacts DEF Top, IInv, TypeOK, FramesOK, FrameOK
  <2>3. CASE Completed(Top.runner, "failed", FALSE, Tail(stack))
    BY <2>1, <2>2, <2>3, CalmNow, CompletedCalm
  <2>4. CASE stack' = Tail(stack)
    BY <2>1, <2>4, CalmNow
  <2> QED BY <1>2, <2>3, <2>4 DEF Launch
<1>3. CASE DrainStep
  <2>1. PICK i \in DOMAIN queue : Refuse(queue[i]) \/ Start(queue[i])
    BY <1>3 DEF DrainStep
  <2>2. queue[i] \in Nat
    BY DEF IInv, TypeOK
  <2>3. CASE Refuse(queue[i])
    BY <2>3, CalmNow DEF Refuse
  <2>4. CASE Start(queue[i])
    <3>1. PICK r \in Runner : stack' = Pumped(Push(Of("launch", r, queue[i]), stack))
      BY <2>4 DEF Start, Idle
    <3> DEFINE f == Of("launch", r, queue[i])
    <3>2. f \in Frame /\ f.kind = "launch"
      <4>1. r \in Nat
        BY PoolAssumption DEF Runner
      <4> QED BY <2>2, <4>1 DEF Of, F, Frame, FrameKind
    <3> HIDE DEF f
    <3>3. Calm(Push(f, stack)) /\ Push(f, stack) \in Seq(Frame)
      BY <3>2, CalmNow, CalmPush
    <3> QED BY <3>1, <3>3, CalmPumped DEF f
  <2> QED BY <2>1, <2>3, <2>4
<1> QED BY <1>1, <1>2, <1>3

LEMMA OneFrameCalm ==
    ASSUME NEW f \in Frame, f.kind # "scan"
    PROVE  Calm(<<f>>) /\ <<f>> \in Seq(Frame)
<1>1. Push(f, <<>>) = <<f>> /\ NoLaunch(<<>>)
  BY EmptyQ DEF Push, NoLaunch
<1> QED BY <1>1, CalmEmpty, CalmPush

\* A step from a clean turn of the event loop.
LEMMA TurnCalm ==
    ASSUME IInv, stack = <<>>,
           \/ Poll
           \/ \E yes \in BOOLEAN : AnswerClear(yes)
           \/ \E p : AskClear(p) \/ SetAutoApprove(p)
           \/ \E id \in DOMAIN runs : Approve(id) \/ Reject(id) \/ Skip(id) \/ Stop(id)
    PROVE  Calm(stack')
<1> USE DEF Poll, AnswerClear, AskClear, SetAutoApprove, Approve, Reject, Skip, Stop
<1>1. CASE stack' = stack \/ stack' = <<Drain>>
  BY <1>1, CalmEmpty, OneFrameCalm, DrainFrame
<1>2. ASSUME NEW r \in Runner, StopRunner(r, <<>>) PROVE Calm(stack')
  <2>1. stack' = <<Wait(r)>>
    BY <1>2 DEF StopRunner, Push
  <2> QED BY <2>1, OneFrameCalm, WaitFrame
<1>3. ASSUME NEW p, SetAutoApprove(p) PROVE Calm(stack')
  <2> DEFINE A == {k \in DOMAIN runs : /\ RepoOf[runs[k].workflow] = p
                                       /\ runs[k].status = "awaiting-approval"}
  <2>1. Each("auto", A) \in Frame /\ Each("auto", A).kind = "auto"
    <3>1. A \subseteq Nat
      BY DEF IInv, TypeOK
    <3> HIDE DEF A
    <3> QED BY <3>1 DEF Each, F, Frame, FrameKind
  <2>2. stack' = stack \/ stack' = <<Each("auto", A)>>
    BY <1>3
  <2> HIDE DEF A
  <2> QED BY <1>1, <2>1, <2>2, OneFrameCalm
<1> QED BY <1>1, <1>2, <1>3 DEF RunnerFor

LEMMA RestartCalm ==
    ASSUME Restart
    PROVE  Scans(stack') = {} /\ Calm(stack')
<1> DEFINE f == Each("reload", DOMAIN runs)
           g == Each("auto", {k \in DOMAIN runs :
                    /\ RepoOf[runs[k].workflow] \in auto
                    /\ runs[k].status = "awaiting-approval"})
<1>1. f.kind = "reload" /\ g.kind = "auto"
  BY DEF Each, F
<1>2. stack' = <<f, g, Drain>>
  BY DEF Restart
<1> HIDE DEF f, g
<1>3. /\ stack'[1] = f /\ stack'[2] = g /\ stack'[3] = Drain
      /\ DOMAIN stack' = 1..3 /\ \A i \in 1..3 : i = 1 \/ i = 2 \/ i = 3
  BY <1>2
<1>4. \A i \in DOMAIN stack' : stack'[i].kind \notin {"scan", "supersede"}
  BY <1>1, <1>3, DrainFrame
<1> QED BY <1>4 DEF Calm, Scans, Frames, Layered

\* A run made by hand: the handlers of its creation.
LEMMA ByHandCalm ==
    ASSUME IInv, NEW w \in Workflow, NEW c \in Commit, CreateRun(w, c, <<Drain>>)
    PROVE  Calm(stack')
<1>1. Calm(<<Drain>>) /\ <<Drain>> \in Seq(Frame)
  BY OneFrameCalm, DrainFrame
<1>2. NoLaunch(<<Drain>>)
  BY DrainFrame DEF NoLaunch, Frames
<1>3. PICK f \in Frame : f.kind = "supersede" /\ stack' = Push(f, <<Drain>>)
  BY <1>1, CreateCalm
<1> QED BY <1>1, <1>2, <1>3, CalmPush

LEMMA CommandCalm ==
    ASSUME IInv, Command
    PROVE  Calm(stack') /\ stack = <<>>
<1>1. ASSUME NEW id \in DOMAIN runs, Rerun(id) PROVE Calm(stack') /\ stack = <<>>
  BY <1>1, ByHandCalm DEF Rerun, UserTurn, IInv, TypeOK, Run
<1>2. ASSUME NEW c \in Commit, NEW w \in At[c], RunManually(w, c)
      PROVE  Calm(stack') /\ stack = <<>>
  BY <1>2, ByHandCalm, CommitAssumption DEF RunManually, UserTurn
<1>3. ASSUME NEW id \in DOMAIN runs, Approve(id) \/ Reject(id) \/ Stop(id) \/ Skip(id)
      PROVE  Calm(stack') /\ stack = <<>>
  BY <1>3, TurnCalm DEF Approve, Reject, Stop, Skip, UserTurn
<1>4. ASSUME NEW p, SetAutoApprove(p) \/ AskClear(p) PROVE Calm(stack') /\ stack = <<>>
  BY <1>4, TurnCalm DEF SetAutoApprove, AskClear, UserTurn
<1> QED BY <1>1, <1>2, <1>3, <1>4 DEF Command

\* Files are listed by the arrival of a scan, and taken off its list by its steps.
LEMMA NextCalm ==
    ASSUME IInv, Layered(stack), [Next]_vars
    PROVE  ScanStep \/ (\E c \in Commit : ScanArrives(c)) \/ Calm(stack')
<1>1. CASE Handler
  BY <1>1, EndsCalm, ListsCalm, RunnersCalm DEF Handler
<1>2. CASE (\E yes \in BOOLEAN : AnswerClear(yes)) \/ Poll
  BY <1>2, TurnCalm DEF AnswerClear, Poll, EventTurn
<1>3. CASE UNCHANGED vars
  BY <1>3, CalmNow DEF vars
<1> QED BY <1>1, <1>2, <1>3, CommandCalm, RunnersCalm, RestartCalm DEF Next

LEMMA ArrivalFacts ==
    ASSUME NEW c \in Commit, ScanArrives(c)
    PROVE  Layered(stack') /\ Scans(stack') = {Scan(c, At[c])} /\ UNCHANGED runs
           /\ stack = <<>>
<1> DEFINE f == Scan(c, At[c])
<1>1. stack' = <<f>> /\ f.kind = "scan" /\ UNCHANGED runs /\ stack = <<>>
  BY DEF ScanArrives, EventTurn, disk, Scan, F
<1> HIDE DEF f
<1>2. DOMAIN stack' = {1} /\ stack'[1] = f /\ Len(stack') = 1
  BY <1>1
<1> QED BY <1>1, <1>2 DEF Scans, Frames, Layered, f

\* A step of a scan takes the first file off its list, and may create a run of it.
LEMMA ScanStepFacts ==
    ASSUME IInv, Layered(stack), ScanStep
    PROVE  /\ Scans(stack) = {Top} /\ Tail(stack) = <<>> /\ Layered(stack')
           /\ Top.workflows \in SUBSET Workflow /\ Top.workflows # {}
           /\ Top.commit \in Commit
           /\ \A f \in Scans(stack') :
                 /\ f.commit = Top.commit
                 /\ f.workflows = Top.workflows \ {FirstPath(Top.workflows)}
           /\ \/ UNCHANGED runs
              \/ \E s : runs' = Put(NextId, [workflow |-> FirstPath(Top.workflows),
                                             commit |-> Top.commit, status |-> s])
<1>1. /\ stack \in Seq(Frame) /\ stack # <<>> /\ Top.kind = "scan" /\ Top.workflows # {}
      /\ Top \in Frame /\ FrameOK(Top) /\ Top = stack[1]
  BY TailFacts DEF ScanStep, InFrame, IInv, TypeOK, FramesOK, Top
<1>2. Top.workflows \in SUBSET Workflow /\ Top.commit \in Commit
  BY <1>1 DEF Frame, FrameOK
<1>3. Tail(stack) = <<>>
  <2>1. 1 \in DOMAIN stack
    BY <1>1
  <2>2. Len(stack) = 1
    BY <1>1, <2>1 DEF Layered
  <2>3. Tail(stack) \in Seq(Frame) /\ Len(Tail(stack)) = 0
    BY <1>1, <2>2
  <2> QED BY <2>3, EmptySeq
<1>4. Scans(stack) = {Top}
  <2>1. Frames(stack) = {Top} \cup Frames(Tail(stack))
    BY <1>1, TailFrames DEF Top
  <2> QED BY <1>1, <1>3, <2>1, EmptyQ DEF Scans
<1> DEFINE w == FirstPath(Top.workflows)
           rest == [Top EXCEPT !.workflows = @ \ {w}]
           next == [rest EXCEPT !.flag = TRUE]
           fits(f) == f.commit = Top.commit /\ f.workflows = Top.workflows \ {w}
<1>5. rest \in Frame /\ next \in Frame /\ fits(rest) /\ fits(next)
  BY <1>1 DEF Frame
<1>6. w \in Workflow
  BY <1>1, <1>2, FirstPathIsIn
<1> HIDE DEF rest, next
<1>7. ASSUME NEW f \in {rest, next}
      PROVE  /\ Push(f, <<>>) \in Seq(Frame) /\ Layered(Push(f, <<>>))
             /\ Frames(Push(f, <<>>)) = {f}
  <2>1. f \in Frame
    BY <1>5
  <2>2. Push(f, <<>>) \in Seq(Frame) /\ Frames(Push(f, <<>>)) = {f}
    BY <2>1, EmptyQ, PushFacts, PushFrames
  <2>3. Push(f, <<>>) = <<f>>
    BY DEF Push
  <2>4. Layered(<<f>>)
    BY DEF Layered
  <2> QED BY <2>2, <2>3, <2>4
<1>8. CASE stack' = Push(rest, Tail(stack)) /\ UNCHANGED runs
  BY <1>1, <1>2, <1>3, <1>4, <1>5, <1>7, <1>8 DEF Scans
<1>9. CASE CreateRun(w, Top.commit, Push(next, Tail(stack)))
  <2> DEFINE u == Push(next, <<>>)
  <2>1. u \in Seq(Frame) /\ Layered(u) /\ Frames(u) = {next}
    BY <1>7
  <2> HIDE DEF u
  <2>2. PICK f \in Frame : f.kind = "supersede" /\ stack' = Push(f, u)
    BY <1>2, <1>3, <1>6, <1>9, <2>1, CreateCalm DEF u
  <2>3. Frames(stack') = {f, next}
    BY <2>1, <2>2, PushFrames
  <2>4. /\ stack' \in Seq(Frame) /\ DOMAIN stack' = 1..(Len(u) + 1) /\ stack'[1] = f
        /\ \A i \in DOMAIN stack' : i # 1 => i - 1 \in DOMAIN u /\ stack'[i] = u[i - 1]
    BY <2>1, <2>2, PushFacts
  <2>5. Len(stack') = Len(u) + 1
    BY <2>1, <2>4
  <2>scan. next.kind = "scan"
    BY <1>1, <1>4, <1>5 DEF next, rest, Frame
  <2>quiet. \A i \in DOMAIN stack' : stack'[i].kind # "launch"
    BY <2>2, <2>3, <2>scan DEF Frames
  <2>6. Layered(stack')
    BY <2>1, <2>2, <2>4, <2>5, <2>quiet DEF Layered
  <2>7. \E s : runs' = Put(NextId, [workflow |-> w, commit |-> Top.commit, status |-> s])
    BY <1>9 DEF CreateRun
  <2> QED BY <1>1, <1>2, <1>3, <1>4, <1>5, <2>2, <2>3, <2>6, <2>7 DEF Scans
<1> QED BY <1>8, <1>9 DEF ScanStep, disk, rest, next

LEMMA LayeredKept ==
    ASSUME IInv, Layered(stack), [Next]_vars
    PROVE  Layered(stack')
BY NextCalm, ScanStepFacts, ArrivalFacts DEF Calm

\* The first of some files precedes the others.
LEMMA FirstPrecedes ==
    ASSUME NEW ws \in SUBSET Workflow, NEW v \in ws, v # FirstPath(ws),
           NEW x \in ws, \A u \in ws : PathRank[x] <= PathRank[u]
    PROVE  PathRank[FirstPath(ws)] < PathRank[v]
<1>1. \A u \in ws : PathRank[FirstPath(ws)] <= PathRank[u]
  BY DEF FirstPath
<1>2. FirstPath(ws) \in ws
  BY FirstPathIsIn
<1>3. PathRank[v] \in Nat /\ PathRank[FirstPath(ws)] \in Nat
      /\ PathRank[v] # PathRank[FirstPath(ws)]
  BY <1>2, WorkflowAssumption
<1> QED BY <1>1, <1>3

LEMMA FirstExists ==
    ASSUME NEW ws \in SUBSET Workflow, ws # {}
    PROVE  \E x \in ws : \A u \in ws : PathRank[x] <= PathRank[u]
<1> DEFINE T == {PathRank[w] : w \in ws}
<1>1. T \in SUBSET Nat /\ T # {}
  BY WorkflowAssumption
<1>2. PICK m \in T : \A k \in T : m <= k
  BY <1>1, LeastIsIn
<1> QED BY <1>2

\* A step that starts no queued run.
StartsNone == \A id \in DOMAIN runs : ~Starts(id)

LEMMA StatusStartsNone ==
    ASSUME IInv, NEW k, NEW s, s # "running", runs' = SetStatus(k, s)
    PROVE  StartsNone
BY DEF StartsNone, Starts, HasStatus, SetStatus, IInv, TypeOK, Run

LEMMA SameStartsNone ==
    ASSUME UNCHANGED runs
    PROVE  StartsNone
BY DEF StartsNone, Starts, HasStatus

LEMMA CreateStartsNone ==
    ASSUME IInv, NEW w, NEW c, NEW rest, CreateRun(w, c, rest)
    PROVE  StartsNone
<1>1. NextId \notin DOMAIN runs
  BY NextIdIsNew DEF IInv, TypeOK
<1>2. \A id \in DOMAIN runs : runs'[id] = runs[id]
  BY <1>1 DEF CreateRun, Put
<1> QED BY <1>2 DEF StartsNone, Starts, HasStatus

\* Only a drain starts a run.
LEMMA WhoStarts ==
    ASSUME IInv, [Next]_vars, NEW id \in DOMAIN runs, Starts(id)
    PROVE  InFrame("drain") /\ NeedsState(id) = "Ready"
<1> SUFFICES ASSUME ~(InFrame("drain") /\ NeedsState(id) = "Ready") PROVE StartsNone
  BY DEF StartsNone
<1>1. CASE DrainStep
  <2>1. PICK i \in DOMAIN queue : Refuse(queue[i]) \/ Start(queue[i])
    BY <1>1 DEF DrainStep
  <2>2. CASE Refuse(queue[i])
    BY <2>2, SameStartsNone, StatusStartsNone DEF Refuse
  <2>3. CASE Start(queue[i])
    <3>1. runs' = SetStatus(queue[i], "running") /\ NeedsState(queue[i]) = "Ready"
      BY <2>3 DEF Start
    <3>2. id = queue[i]
      BY <3>1 DEF Starts, HasStatus, SetStatus, IInv, TypeOK, Run
    <3> QED BY <1>1, <3>1, <3>2 DEF DrainStep
  <2> QED BY <2>1, <2>2, <2>3
<1>2. ASSUME NEW r, NEW s, s # "running", NEW landed, NEW rest,
             Completed(r, s, landed, rest)
      PROVE  StartsNone
  BY <1>2, StatusStartsNone DEF Completed
<1>3. CASE ScanStep \/ SupersedeStep \/ AutoStep \/ ReloadStep \/ Launch
  BY <1>2, <1>3, SameStartsNone, CreateStartsNone, StatusStartsNone
     DEF ScanStep, SupersedeStep, AutoStep, ReloadStep, Launch, disk
<1>4. CASE \E r \in Runner : RunnerExits(r)
  BY <1>2, <1>4 DEF RunnerExits
<1>5. CASE Command
  BY <1>5, SameStartsNone, CreateStartsNone, StatusStartsNone
     DEF Command, Rerun, Approve, Reject, Stop, Skip, RunManually, SetAutoApprove,
         AskClear, disk
<1>6. ASSUME NEW yes \in BOOLEAN, AnswerClear(yes) PROVE StartsNone
  BY <1>6, SameStartsNone DEF AnswerClear, StartsNone, Starts, HasStatus
<1>7. CASE UNCHANGED runs
  BY <1>7, SameStartsNone
<1> QED BY <1>1, <1>3, <1>4, <1>5, <1>6, <1>7
        DEF Next, Handler, ScanEnds, SupersedeEnds, AutoEnds, ReloadEnds, DrainEnds,
            EmitFinished, EmitLanded, WaitTimesOut, PumpEnds, ScanArrives, Poll,
            Restart, vars, disk

\* A run that starts has every gate open, and no file it needs is still to be
\* scheduled at its commit.
StartsAfterNeeds ==
    \A id \in DOMAIN runs : Starts(id) =>
        /\ Gates(id) \subseteq {"success"}
        /\ Needs[runs[id].workflow] \cap Unscheduled(runs[id].commit) = {}

\* The first half holds whatever the names of the files are: ActionNeeds::resolve
\* is asked about the run in the same handler that starts it.
LEMMA StartsWhenReady ==
    ASSUME IInv, [Next]_vars,
           InFrame("drain") => \A id \in DOMAIN runs :
               Needs[runs[id].workflow] \cap Unscheduled(runs[id].commit) = {}
    PROVE  StartsAfterNeeds
<1> SUFFICES ASSUME NEW id \in DOMAIN runs, Starts(id)
             PROVE  /\ Gates(id) \subseteq {"success"}
                    /\ Needs[runs[id].workflow] \cap Unscheduled(runs[id].commit) = {}
  BY DEF StartsAfterNeeds
<1>1. InFrame("drain") /\ NeedsState(id) = "Ready"
  BY WhoStarts
<1> QED BY <1>1 DEF NeedsState

LEMMA UnscheduledFacts ==
    ASSUME NEW c, NEW v \in Unscheduled(c)
    PROVE  \E f \in Scans(stack) : f.commit = c /\ v \in f.workflows
BY DEF Unscheduled, Scans, Frames

\* No new run, and every run that is left is of the same file and commit.
KeepsRuns ==
    /\ DOMAIN runs' \subseteq DOMAIN runs
    /\ \A k \in DOMAIN runs' : /\ runs'[k].workflow = runs[k].workflow
                               /\ runs'[k].commit = runs[k].commit

LEMMA StatusKeepsRuns ==
    ASSUME IInv, NEW k, NEW s, runs' = SetStatus(k, s)
    PROVE  KeepsRuns
BY DEF KeepsRuns, SetStatus, IInv, TypeOK, Run

\* Inside a handler, only a scan creates runs.
LEMMA WhoCreates ==
    ASSUME IInv, [Next]_vars, stack # <<>>, ~ScanStep
    PROVE  KeepsRuns
<1>1. ASSUME NEW r, NEW s, NEW landed, NEW rest, Completed(r, s, landed, rest)
      PROVE  KeepsRuns
  BY <1>1, StatusKeepsRuns DEF Completed
<1>2. CASE UNCHANGED runs
  BY <1>2 DEF KeepsRuns
<1>3. CASE DrainStep
  BY <1>2, <1>3, StatusKeepsRuns DEF DrainStep, Refuse, Start
<1>4. CASE SupersedeStep \/ AutoStep \/ ReloadStep \/ Launch
  BY <1>1, <1>2, <1>4, StatusKeepsRuns
     DEF SupersedeStep, AutoStep, ReloadStep, Launch, disk
<1>5. CASE \E r \in Runner : RunnerExits(r)
  BY <1>1, <1>5 DEF RunnerExits
<1> QED BY <1>2, <1>3, <1>4, <1>5
        DEF Next, Handler, ScanEnds, SupersedeEnds, AutoEnds, ReloadEnds, DrainEnds,
            EmitFinished, EmitLanded, WaitTimesOut, PumpEnds, ScanArrives, Poll,
            Restart, Command, Rerun, Approve, Reject, Stop, Skip, RunManually,
            SetAutoApprove, AskClear, AnswerClear, EventTurn, UserTurn, vars, disk

\* A file is scheduled after every file it needs.
NeedsSortFirst ==
    \A w \in Workflow : \A v \in Needs[w] : PathRank[v] < PathRank[w]

\* No run of the pushed commit exists when a push is handled.
FirstPush == \A c \in Commit : ScanArrives(c) =>
                \A k \in DOMAIN runs : runs[k].commit # c

\* The files a scan has yet to schedule come after those with a run of its commit.
PushInv ==
    /\ Layered(stack)
    /\ \A f \in Scans(stack) : \A k \in DOMAIN runs :
          runs[k].commit = f.commit =>
              \A v \in f.workflows : PathRank[runs[k].workflow] < PathRank[v]

LEMMA NextPushes ==
    ASSUME IInv, PushInv, [Next]_vars, FirstPush
    PROVE  PushInv'
<1>1. Layered(stack')
  BY LayeredKept DEF PushInv
<1>2. CASE ScanStep
  <2> DEFINE ws == Top.workflows
             first == FirstPath(Top.workflows)
  <2>1. /\ ws \in SUBSET Workflow /\ ws # {}
        /\ \A f \in Scans(stack') : f.commit = Top.commit /\ f.workflows = ws \ {first}
        /\ \A k \in DOMAIN runs : runs[k].commit = Top.commit =>
              \A v \in ws : PathRank[runs[k].workflow] < PathRank[v]
    BY <1>2, ScanStepFacts DEF PushInv
  <2>2. \A v \in ws \ {first} : PathRank[first] < PathRank[v]
    <3>1. PICK x \in ws : \A u \in ws : PathRank[x] <= PathRank[u]
      BY <2>1, FirstExists
    <3> QED BY <2>1, <3>1, FirstPrecedes
  <2>3. CASE UNCHANGED runs
    BY <1>1, <2>1, <2>3 DEF PushInv
  <2>4. ASSUME NEW s, runs' = Put(NextId, [workflow |-> first,
                                           commit |-> Top.commit, status |-> s])
        PROVE  PushInv'
    <3>1. \A k \in DOMAIN runs' :
             \/ k \in DOMAIN runs /\ runs'[k] = runs[k]
             \/ runs'[k].workflow = first
      BY <2>4 DEF Put
    <3> HIDE DEF ws, first
    <3> QED BY <1>1, <2>1, <2>2, <3>1 DEF PushInv
  <2> QED BY <1>2, <2>3, <2>4, ScanStepFacts DEF PushInv
<1>3. ASSUME NEW c \in Commit, ScanArrives(c) PROVE PushInv'
  <2>1. \A k \in DOMAIN runs : runs[k].commit # c
    BY <1>3 DEF FirstPush
  <2>2. Scan(c, At[c]).commit = c
    BY DEF Scan, F
  <2>3. Scans(stack') = {Scan(c, At[c])} /\ UNCHANGED runs
    BY <1>3, ArrivalFacts
  <2> QED BY <1>1, <2>1, <2>2, <2>3 DEF PushInv
<1>4. CASE Calm(stack') /\ ~ScanStep
  <2>1. Scans(stack') \subseteq Scans(stack)
    BY <1>4 DEF Calm
  <2>2. CASE Scans(stack) = {}
    BY <1>1, <2>1, <2>2 DEF PushInv
  <2>3. CASE Scans(stack) # {}
    <3>1. stack # <<>>
      BY <2>3, EmptyQ DEF Scans
    <3>2. KeepsRuns
      BY <1>4, <3>1, WhoCreates
    <3> QED BY <1>1, <2>1, <3>2 DEF PushInv, KeepsRuns
  <2> QED BY <2>2, <2>3
<1> QED BY <1>2, <1>3, <1>4, NextCalm DEF PushInv

\* A run starts only after every workflow it needs at its commit succeeded, and
\* none of them is about to be scheduled by the scan of a push - as long as each
\* file sorts after those it needs, as in .forkmesh, and every push brings a commit
\* without runs.  ActionNeedsOrder.cfg shows a run that starts too early when a
\* needed file sorts last.
THEOREM NeedsOnFirstPush ==
    ASSUME NeedsSortFirst
    PROVE  Spec /\ [][FirstPush]_vars => NeedsBeforeStart
<1>1. ASSUME IInv, PushInv, [Next]_vars PROVE StartsAfterNeeds
  <2>1. ASSUME NEW id \in DOMAIN runs,
               NEW v \in Needs[runs[id].workflow], v \in Unscheduled(runs[id].commit)
        PROVE  FALSE
    <3>1. runs[id].workflow \in Workflow
      BY <1>1 DEF IInv, TypeOK, Run
    <3>2. v \in Workflow /\ PathRank[v] < PathRank[runs[id].workflow]
      BY <3>1, <2>1, WorkflowAssumption DEF NeedsSortFirst
    <3>3. PathRank[runs[id].workflow] < PathRank[v]
      BY <1>1, <2>1, UnscheduledFacts DEF PushInv
    <3>4. PathRank[v] \in Nat /\ PathRank[runs[id].workflow] \in Nat
      BY <3>1, <3>2, WorkflowAssumption
    <3> QED BY <3>2, <3>3, <3>4
  <2> QED BY <1>1, <2>1, StartsWhenReady
<1>2. IInv /\ PushInv /\ [Next]_vars => [StartsAfterNeeds]_vars
  BY <1>1
<1>3. Init => PushInv
  BY EmptyQ DEF Init, PushInv, Layered, Scans
<1>4. IInv /\ PushInv /\ [Next]_vars /\ [FirstPush]_vars => PushInv'
  <2>1. CASE UNCHANGED vars
    BY <2>1 DEF vars, PushInv
  <2>2. CASE FirstPush
    BY <2>2, NextPushes
  <2> QED BY <2>1, <2>2
<1> QED BY <1>2, <1>3, <1>4, IInvInvariant, PTL
        DEF Spec, NeedsBeforeStart, StartsAfterNeeds

-----------------------------------------------------------------------------
(* The life of a runner: what module RunLife says one may do with a run.   *)

\* The status of each run, as the store has it.
Record == [k \in 1..MaxId |-> IF k \in DOMAIN runs THEN runs[k].status ELSE "none"]

LifeState(r) == IF ~runner[r].busy THEN "idle"
                ELSE IF runner[r].alive THEN "alive" ELSE "claimed"

Life(r) == INSTANCE RunLife WITH
    RunId <- 1..MaxId, NoRunId <- 0, record <- Record, current <- runner[r].run,
    state <- LifeState(r), told <- runner[r].stopping

LEMMA SetsRecord ==
    ASSUME IInv, NEW k \in DOMAIN runs, NEW s, runs' = SetStatus(k, s)
    PROVE  Record' = [Record EXCEPT ![k] = s]
BY DEF Record, SetStatus, IInv, TypeOK, Run

LEMMA StartIsClaim ==
    ASSUME IInv, NEW r \in Runner, NEW id, HasStatus(id, {"queued"}), ~runner[r].busy,
           runs' = SetStatus(id, "running"),
           runner' = [runner EXCEPT ![r] = [NoRun EXCEPT !.busy = TRUE, !.run = id]]
    PROVE  Life(r)!Next
<1>1. id \in DOMAIN runs /\ id \in 1..MaxId /\ Record[id] = "queued"
  BY DEF HasStatus, IInv, TypeOK, Record
<1>2. Record' = [Record EXCEPT ![id] = "running"]
  BY <1>1, SetsRecord
<1>3. /\ runner'[r].run = id /\ runner'[r].stopping = FALSE
      /\ runner'[r].busy /\ ~runner'[r].alive
  BY DEF IInv, TypeOK, NoRun
<1>5. LifeState(r) = "idle" /\ LifeState(r)' = "claimed"
  BY <1>3 DEF LifeState
<1>4. Life(r)!Claim(id)
  BY <1>1, <1>2, <1>3, <1>5 DEF Life!Claim
<1> QED BY <1>1, <1>4 DEF Life!Next

\* The first process of r is launched, or r gives up at once.
LEMMA LaunchIsLaunch ==
    ASSUME IInv, Launch, NEW r \in Runner, r = Top.runner, ~runner[r].stopping
    PROVE  Life(r)!Next
<1>1. stack # <<>> /\ Top.kind = "launch"
  BY DEF Launch, InFrame
<1>2. /\ runner[r].busy /\ ~runner[r].alive
      /\ HasStatus(runner[r].run, {"running"})
  BY <1>1, TailFacts DEF Top, IInv, TypeOK, FramesOK, FrameOK, RunnerOwnsRunning
<1>3. LifeState(r) = "claimed"
  BY <1>2 DEF LifeState
<1>4. CASE runner' = [runner EXCEPT ![r].alive = TRUE] /\ UNCHANGED runs
  <2>1. /\ runner'[r].alive /\ runner'[r].busy = runner[r].busy
        /\ runner'[r].run = runner[r].run /\ runner'[r].stopping = runner[r].stopping
    BY <1>4 DEF IInv, TypeOK
  <2>2. LifeState(r)' = "alive"
    BY <1>2, <2>1 DEF LifeState
  <2>3. Record' = Record
    BY <1>4 DEF Record
  <2>4. Life(r)!Launch
    BY <1>3, <2>1, <2>2, <2>3 DEF Life!Launch
  <2> QED BY <2>4 DEF Life!Next
<1>5. CASE /\ runs' = SetStatus(runner[r].run, "failed")
           /\ runner' = [runner EXCEPT ![r] = [NoRun EXCEPT !.run = runner[r].run]]
  <2>1. /\ ~runner'[r].busy /\ runner'[r].run = runner[r].run
        /\ runner'[r].stopping = FALSE
    BY <1>5 DEF IInv, TypeOK, NoRun
  <2>2. LifeState(r)' = "idle"
    BY <2>1 DEF LifeState
  <2>3. Record' = [Record EXCEPT ![runner[r].run] = "failed"]
    BY <1>2, <1>5, SetsRecord DEF HasStatus
  <2>4. runner[r].stopping = FALSE
    BY DEF IInv, TypeOK
  <2>5. Life(r)!Settle("failed")
    BY <2>1, <2>2, <2>3 DEF Life!Settle
  <2>6. Life(r)!Launch
    BY <1>3, <2>1, <2>4, <2>5 DEF Life!Launch
  <2> QED BY <2>6 DEF Life!Next
<1> QED BY <1>4, <1>5 DEF Launch, Completed

\* A live runner is told to stop.
LEMMA StopIsTell ==
    ASSUME IInv, NEW r \in Runner, NEW rest, StopRunner(r, rest), UNCHANGED runs,
           runner[r].busy, runner[r].alive
    PROVE  Life(r)!Next
<1>1. /\ runner'[r].stopping = TRUE /\ runner'[r].busy = runner[r].busy
      /\ runner'[r].run = runner[r].run /\ runner'[r].alive = runner[r].alive
  BY DEF StopRunner, IInv, TypeOK
<1>2. LifeState(r) = "alive" /\ LifeState(r)' = "alive"
  BY <1>1 DEF LifeState
<1>3. Record' = Record
  BY DEF Record
<1>4. Life(r)!Tell
  BY <1>1, <1>2, <1>3 DEF Life!Tell
<1> QED BY <1>4 DEF Life!Next

\* The process of r ends, and r settles its run.
LEMMA ExitIsExit ==
    ASSUME IInv, NEW r \in Runner, RunnerExits(r)
    PROVE  Life(r)!Next
<1>1. runner[r].busy /\ runner[r].alive /\ HasStatus(runner[r].run, {"running"})
  BY DEF RunnerExits, IInv, AliveIsBusy, RunnerOwnsRunning
<1>2. PICK s \in Life(r)!Settled, landed \in BOOLEAN :
          /\ \E rest : Completed(r, s, landed, rest)
          /\ s = "cancelled" <=> runner[r].stopping
  BY DEF RunnerExits, Life!Settled
<1>3. /\ ~runner'[r].busy /\ runner'[r].run = runner[r].run
      /\ runner'[r].stopping = FALSE
  BY <1>2 DEF Completed, IInv, TypeOK, NoRun
<1>4. LifeState(r) = "alive" /\ LifeState(r)' = "idle"
  BY <1>1, <1>3 DEF LifeState
<1>5. Record' = [Record EXCEPT ![runner[r].run] = s]
  BY <1>1, <1>2, SetsRecord DEF HasStatus, Completed
<1>6. Life(r)!Settle(s)
  BY <1>3, <1>4, <1>5 DEF Life!Settle
<1>7. Life(r)!Exit
  BY <1>2, <1>3, <1>4, <1>6 DEF Life!Exit
<1> QED BY <1>7 DEF Life!Next

\* The runners between their claim and their launch.
Claimed(f) == IF f.kind = "launch" THEN {f.runner} ELSE {}
Launching(s) == UNION {Claimed(f) : f \in Frames(s)}

\* A runner that was claimed is being launched by a suspended handler, and only
\* one that executes its run was told to stop.
LaunchInv ==
    /\ Layered(stack)
    /\ \A r \in Runner : runner[r].stopping => runner[r].alive
    /\ \A r \in Runner : runner[r].busy /\ ~runner[r].alive => r \in Launching(stack)

LEMMA LaunchingPush ==
    ASSUME NEW s \in Seq(Frame), NEW f \in Frame
    PROVE  /\ Launching(Push(f, s)) = Claimed(f) \cup Launching(s)
           /\ Push(f, s) \in Seq(Frame)
<1>1. Frames(Push(f, s)) = {f} \cup Frames(s) /\ Push(f, s) \in Seq(Frame)
  BY PushFrames, PushFacts
<1> QED BY <1>1 DEF Launching

LEMMA LaunchingPumped ==
    ASSUME NEW s \in Seq(Frame)
    PROVE  Launching(Pumped(s)) = Launching(s)
<1>1. F("pump") \in Frame /\ F("pump").kind = "pump"
  BY DEF F, Frame, FrameKind
<1> QED BY <1>1, LaunchingPush DEF Pumped, Claimed

LEMMA LaunchingTail ==
    ASSUME IInv, stack # <<>>
    PROVE  /\ Launching(stack) = Claimed(Top) \cup Launching(Tail(stack))
           /\ Tail(stack) \in Seq(Frame) /\ Top \in Frame
<1>1. stack \in Seq(Frame)
  BY DEF IInv, TypeOK
<1>2. Frames(stack) = {Top} \cup Frames(Tail(stack))
  BY <1>1, TailFrames DEF Top
<1>3. Tail(stack) \in Seq(Frame) /\ Top \in Frame
  BY <1>1, TailFacts DEF Top
<1> QED BY <1>2, <1>3 DEF Launching

LEMMA NoneLaunching ==
    ASSUME NEW s, NoLaunch(s)
    PROVE  Launching(s) = {}
BY DEF NoLaunch, Launching, Claimed

\* A runner that can be stopped executes its run: no handler that stops runs
\* interrupts a launch.
LEMMA StoppedIsAlive ==
    ASSUME IInv, LaunchInv, stack = <<>> \/ InFrame("supersede"),
           NEW r \in Runner, runner[r].busy
    PROVE  runner[r].alive
<1>1. CASE stack = <<>>
  BY <1>1, EmptyQ DEF LaunchInv, Launching
<1>2. CASE InFrame("supersede")
  <2>1. Launching(stack) = {}
    BY <1>2, NoLaunchBelow, NoneLaunching, LaunchingTail
       DEF InFrame, LaunchInv, Claimed
  <2> QED BY <2>1 DEF LaunchInv
<1> QED BY <1>1, <1>2

\* A step that claims no runner, and keeps the launches under way.
LEMMA LaunchStep ==
    ASSUME IInv, LaunchInv, [Next]_vars,
           \A r \in Runner : runner'[r].stopping => runner'[r].alive,
           \A r \in Runner : runner'[r].busy /\ ~runner'[r].alive =>
               runner[r].busy /\ ~runner[r].alive /\ r \in Launching(stack')
    PROVE  LaunchInv'
<1>1. Layered(stack')
  BY LayeredKept DEF LaunchInv
<1> QED BY <1>1 DEF LaunchInv

LEMMA SameRunners ==
    ASSUME IInv, LaunchInv, [Next]_vars, UNCHANGED runner,
           Launching(stack) \subseteq Launching(stack')
    PROVE  LaunchInv'
BY LaunchStep DEF LaunchInv

\* The ends of the handlers that launch nothing.
LEMMA EndsLaunch ==
    ASSUME IInv, LaunchInv, [Next]_vars,
           \/ ScanEnds \/ DrainEnds \/ WaitTimesOut \/ PumpEnds \/ EmitLanded
           \/ AutoEnds \/ SupersedeEnds \/ ReloadEnds \/ EmitFinished
    PROVE  LaunchInv'
<1> USE DEF ScanEnds, DrainEnds, WaitTimesOut, PumpEnds, EmitLanded, AutoEnds,
            SupersedeEnds, ReloadEnds, EmitFinished
<1>1. stack # <<>> /\ Top.kind # "launch" /\ UNCHANGED runner
  BY DEF InFrame
<1>2. Launching(stack) = Launching(Tail(stack)) /\ Tail(stack) \in Seq(Frame)
  BY <1>1, LaunchingTail DEF Claimed
<1>3. /\ Launching(Push(Drain, Tail(stack))) = Launching(Tail(stack))
      /\ Push(Drain, Tail(stack)) \in Seq(Frame)
  BY <1>2, DrainFrame, LaunchingPush DEF Claimed
<1>4. Launching(Pumped(Push(Drain, Tail(stack)))) = Launching(Tail(stack))
  BY <1>3, LaunchingPumped
<1>5. stack' \in {Tail(stack), Push(Drain, Tail(stack)),
                  Pumped(Push(Drain, Tail(stack)))}
  BY DEF EmitFinished
<1> QED BY <1>1, <1>2, <1>3, <1>4, <1>5, SameRunners

\* A handler that no launch is suspended under.
LEMMA QuietLaunch ==
    ASSUME IInv, LaunchInv, [Next]_vars, Launching(stack) = {},
           \A r \in Runner : /\ runner'[r].busy = runner[r].busy
                             /\ runner'[r].alive = runner[r].alive
                             /\ runner'[r].stopping => runner[r].busy
    PROVE  LaunchInv'
<1>1. \A r \in Runner : runner[r].busy => runner[r].alive
  BY DEF LaunchInv
<1> QED BY <1>1, LaunchStep

LEMMA ListsLaunch ==
    ASSUME IInv, LaunchInv, [Next]_vars, SupersedeStep \/ AutoStep \/ ReloadStep
    PROVE  LaunchInv'
<1>1. stack # <<>> /\ Top.kind \in {"supersede", "auto", "reload"}
  BY DEF SupersedeStep, AutoStep, ReloadStep, InFrame
<1>2. /\ Launching(stack) = Launching(Tail(stack))
      /\ Tail(stack) \in Seq(Frame) /\ Top \in Frame
  BY <1>1, LaunchingTail DEF Claimed
<1>3. CASE SupersedeStep
  <2>1. Launching(stack) = {}
    BY <1>1, <1>2, <1>3, NoLaunchBelow, NoneLaunching DEF LaunchInv, SupersedeStep, InFrame
  <2>2. CASE UNCHANGED runner
    BY <2>1, <2>2, EmptyQ, SameRunners
  <2>3. ASSUME NEW r \in Runner, runner[r].busy, NEW rest, StopRunner(r, rest)
        PROVE  LaunchInv'
    <3>1. \A q \in Runner : /\ runner'[q].busy = runner[q].busy
                            /\ runner'[q].alive = runner[q].alive
                            /\ runner'[q].stopping => runner[q].busy
      BY <2>3 DEF StopRunner, IInv, TypeOK, LaunchInv, AliveIsBusy
    <3> QED BY <2>1, <3>1, QuietLaunch
  <2> QED BY <1>3, <2>2, <2>3 DEF SupersedeStep, RunnerFor
<1>4. CASE AutoStep \/ ReloadStep
  <2> DEFINE f == [Top EXCEPT !.ids = @ \ {Largest(Top.ids)}]
             g == [f EXCEPT !.flag = TRUE]
  <2>1. f \in Frame /\ g \in Frame
    BY <1>2 DEF Frame
  <2>2. stack' \in {Push(f, Tail(stack)), Push(g, Tail(stack))} /\ UNCHANGED runner
    BY <1>4 DEF AutoStep, ReloadStep
  <2> HIDE DEF f, g
  <2>3. Launching(Tail(stack)) \subseteq Launching(stack')
    BY <1>2, <2>1, <2>2, LaunchingPush
  <2> QED BY <1>2, <2>2, <2>3, SameRunners
<1> QED BY <1>3, <1>4

\* A runner settles its run over handlers that launch the other claimed ones.
LEMMA CompletedLaunch ==
    ASSUME IInv, LaunchInv, [Next]_vars, NEW r \in Runner, NEW s, NEW landed,
           NEW rest \in Seq(Frame), Completed(r, s, landed, rest),
           Launching(stack) \subseteq {r} \cup Launching(rest)
    PROVE  LaunchInv'
<1> DEFINE id == runner[r].run
           fin == Of("finish", r, id)
           lan == Of("landed", r, id)
           under == IF landed THEN Push(lan, rest) ELSE rest
<1>1. id \in Nat /\ r \in Nat
  BY PoolAssumption DEF IInv, TypeOK, Runner
<1>2. fin \in Frame /\ fin.kind = "finish" /\ lan \in Frame /\ lan.kind = "landed"
  BY <1>1 DEF Of, F, Frame, FrameKind
<1>3. /\ stack' = Pumped(Push(fin, under))
      /\ ~runner'[r].busy /\ ~runner'[r].stopping
      /\ \A q \in Runner : q # r => runner'[q] = runner[q]
  BY DEF Completed, NoRun, IInv, TypeOK
<1> HIDE DEF id, fin, lan
<1>4. under \in Seq(Frame) /\ Launching(under) = Launching(rest)
  BY <1>2, LaunchingPush DEF Claimed
<1> HIDE DEF under
<1>5. Launching(stack') = Launching(rest)
  BY <1>2, <1>3, <1>4, LaunchingPush, LaunchingPumped DEF Claimed
<1>6. ASSUME NEW q \in Runner, runner'[q].busy, ~runner'[q].alive
      PROVE  runner[q].busy /\ ~runner[q].alive /\ q \in Launching(stack')
  BY <1>3, <1>5, <1>6 DEF LaunchInv
<1>7. ASSUME NEW q \in Runner, runner'[q].stopping PROVE runner'[q].alive
  BY <1>3, <1>7 DEF LaunchInv
<1> QED BY <1>6, <1>7, LaunchStep

LEMMA RunnersLaunch ==
    ASSUME IInv, LaunchInv, [Next]_vars, (\E r \in Runner : RunnerExits(r)) \/ Launch
    PROVE  LaunchInv'
<1>1. ASSUME NEW r \in Runner, RunnerExits(r) PROVE LaunchInv'
  <2> DEFINE rest == IF InFrame("wait") THEN Tail(stack) ELSE stack
  <2>1. rest \in Seq(Frame) /\ Launching(stack) = Launching(rest)
    BY LaunchingTail DEF InFrame, Claimed, IInv, TypeOK
  <2>2. \E s, landed : Completed(r, s, landed, rest)
    BY <1>1 DEF RunnerExits
  <2> HIDE DEF rest
  <2> QED BY <2>1, <2>2, CompletedLaunch
<1>2. CASE Launch
  <2>1. stack # <<>> /\ Top.kind = "launch"
    BY <1>2 DEF Launch, InFrame
  <2>2. Top.runner \in Runner /\ ~runner[Top.runner].alive
    BY <2>1, TailFacts DEF Top, IInv, TypeOK, FramesOK, FrameOK
  <2>3. /\ Launching(stack) = {Top.runner} \cup Launching(Tail(stack))
        /\ Tail(stack) \in Seq(Frame)
    BY <2>1, LaunchingTail DEF Claimed
  <2>4. CASE Completed(Top.runner, "failed", FALSE, Tail(stack))
    BY <2>2, <2>3, <2>4, CompletedLaunch
  <2>5. CASE /\ runner' = [runner EXCEPT ![Top.runner].alive = TRUE]
             /\ stack' = Tail(stack)
    <3>1. ASSUME NEW q \in Runner
          PROVE  /\ q # Top.runner => runner'[q] = runner[q]
                 /\ runner'[Top.runner].alive
      BY <2>2, <2>5 DEF IInv, TypeOK
    <3>2. \A q \in Runner : runner'[q].stopping => runner'[q].alive
      BY <3>1 DEF LaunchInv
    <3>3. \A q \in Runner : runner'[q].busy /\ ~runner'[q].alive =>
              runner[q].busy /\ ~runner[q].alive /\ q \in Launching(stack')
      BY <2>3, <2>5, <3>1 DEF LaunchInv
    <3> QED BY <3>2, <3>3, LaunchStep
  <2> QED BY <1>2, <2>4, <2>5 DEF Launch
<1> QED BY <1>1, <1>2

\* A run is started: its runner is claimed, and the handler that launches it called.
LEMMA DrainLaunch ==
    ASSUME IInv, LaunchInv, [Next]_vars, DrainStep
    PROVE  LaunchInv'
<1>1. PICK id : Refuse(id) \/ Start(id)
  BY DEF DrainStep
<1>2. CASE Refuse(id)
  BY <1>2, SameRunners DEF Refuse
<1>3. CASE Start(id)
  <2>1. PICK r \in Runner :
            /\ runner' = [runner EXCEPT ![r] = [NoRun EXCEPT !.busy = TRUE, !.run = id]]
            /\ stack' = Pumped(Push(Of("launch", r, id), stack))
    BY <1>3 DEF Start, Idle
  <2> DEFINE f == Of("launch", r, id)
  <2>2. f \in Frame /\ Claimed(f) = {r}
    <3>1. r \in Nat /\ id \in Nat
      BY <1>3, PoolAssumption DEF Runner, Start, HasStatus, IInv, TypeOK
    <3> QED BY <3>1 DEF Of, F, Frame, FrameKind, Claimed
  <2>3. stack \in Seq(Frame)
    BY DEF IInv, TypeOK
  <2> HIDE DEF f
  <2>4. Launching(stack') = {r} \cup Launching(stack)
    BY <2>1, <2>2, <2>3, LaunchingPush, LaunchingPumped DEF f
  <2>5. ~runner'[r].stopping /\ \A q \in Runner : q # r => runner'[q] = runner[q]
    BY <2>1 DEF NoRun, IInv, TypeOK
  <2>6. Layered(stack')
    BY LayeredKept DEF LaunchInv
  <2> QED BY <2>4, <2>5, <2>6 DEF LaunchInv
<1> QED BY <1>1, <1>2, <1>3

\* A scan runs over no other handler.
LEMMA ScanLaunch ==
    ASSUME IInv, LaunchInv, [Next]_vars, ScanStep
    PROVE  LaunchInv'
<1>1. stack # <<>> /\ Top.kind = "scan" /\ Tail(stack) = <<>>
  BY ScanStepFacts DEF LaunchInv, ScanStep, InFrame
<1>2. Launching(stack) = {}
  BY <1>1, LaunchingTail, EmptyQ DEF Claimed, Launching
<1>3. UNCHANGED runner
  BY DEF ScanStep, CreateRun
<1> QED BY <1>2, <1>3, SameRunners

\* A step from a clean turn of the event loop.
LEMMA TurnLaunch ==
    ASSUME IInv, LaunchInv, [Next]_vars, stack = <<>>,
           ~Restart, ~\E r \in Runner : RunnerExits(r)
    PROVE  LaunchInv'
<1>1. Launching(stack) = {}
  BY EmptyQ DEF Launching
<1>2. CASE UNCHANGED runner
  BY <1>1, <1>2, SameRunners
<1>3. ASSUME NEW r \in Runner, runner[r].busy, NEW rest, StopRunner(r, rest)
      PROVE  LaunchInv'
  <2>1. \A q \in Runner : /\ runner'[q].busy = runner[q].busy
                          /\ runner'[q].alive = runner[q].alive
                          /\ runner'[q].stopping => runner[q].busy
    BY <1>3 DEF StopRunner, IInv, TypeOK, LaunchInv, AliveIsBusy
  <2> QED BY <1>1, <2>1, QuietLaunch
<1>4. CASE Command
  BY <1>2, <1>3, <1>4 DEF Command, Rerun, Approve, Reject, Stop, Skip, RunManually,
     SetAutoApprove, AskClear, CreateRun, RunnerFor
<1>5. ~Handler
  BY DEF Handler, InFrame, ScanStep, ScanEnds, SupersedeStep, SupersedeEnds,
     AutoStep, AutoEnds, ReloadStep, ReloadEnds, DrainStep, DrainEnds, Launch,
     EmitFinished, EmitLanded, WaitTimesOut, PumpEnds
<1> QED BY <1>2, <1>4, <1>5 DEF Next, AnswerClear, ScanArrives, Poll, vars

LEMMA NextLaunch ==
    ASSUME IInv, LaunchInv, [Next]_vars
    PROVE  LaunchInv'
<1>1. CASE Handler
  BY <1>1, EndsLaunch, ListsLaunch, RunnersLaunch, DrainLaunch, ScanLaunch DEF Handler
<1>2. CASE \E r \in Runner : RunnerExits(r)
  BY <1>2, RunnersLaunch
<1>3. CASE Restart
  <2>1. \A r \in Runner : ~runner'[r].busy /\ ~runner'[r].stopping
    BY <1>3 DEF Restart, NoRun
  <2> QED BY <2>1, LaunchStep
<1>4. CASE UNCHANGED vars
  BY <1>4, SameRunners DEF vars
<1>5. CASE stack = <<>> /\ ~Restart /\ ~\E r \in Runner : RunnerExits(r)
  BY <1>5, TurnLaunch
<1>6. Command => stack = <<>>
  BY CommandCalm DEF LaunchInv
<1> QED BY <1>1, <1>2, <1>3, <1>4, <1>5, <1>6
        DEF Next, AnswerClear, ScanArrives, Poll, EventTurn

\* What one step may do with the runner r: a step of RunLife, or nothing while the
\* record of the run it is busy with goes on saying running - unless the process
\* ends and all is lost.
LivesOn(r) ==
    \/ Life(r)!Next
    \/ UNCHANGED runner[r] /\ (runner[r].busy => HasStatus(runner[r].run, {"running"})')
    \/ Restart

LEMMA RunnersLiveOn ==
    ASSUME IInv, IInv', LaunchInv, [Next]_vars, NEW r \in Runner
    PROVE  LivesOn(r)
<1>1. UNCHANGED runner[r] => LivesOn(r)
  BY DEF LivesOn, IInv, RunnerOwnsRunning
<1>2. ASSUME NEW q \in Runner, RunnerExits(q) PROVE LivesOn(r)
  <2>1. CASE q = r
    BY <1>2, <2>1, ExitIsExit DEF LivesOn
  <2>2. CASE q # r
    <3>1. UNCHANGED runner[r]
      BY <1>2, <2>2 DEF RunnerExits, Completed, IInv, TypeOK
    <3> QED BY <1>1, <3>1
  <2> QED BY <2>1, <2>2
<1>3. ASSUME NEW q \in Runner, NEW rest, StopRunner(q, rest), runner[q].busy,
             stack = <<>> \/ InFrame("supersede"), UNCHANGED runs
      PROVE  LivesOn(r)
  <2>1. CASE q = r
    BY <1>3, <2>1, StoppedIsAlive, StopIsTell DEF LivesOn
  <2>2. CASE q # r
    <3>1. UNCHANGED runner[r]
      BY <1>3, <2>2 DEF StopRunner, IInv, TypeOK
    <3> QED BY <1>1, <3>1
  <2> QED BY <2>1, <2>2
<1>4. CASE Launch
  <2>1. stack # <<>> /\ Top.kind = "launch"
    BY <1>4 DEF Launch, InFrame
  <2>2. Top.runner \in Runner /\ ~runner[Top.runner].alive
    BY <2>1, TailFacts DEF Top, IInv, TypeOK, FramesOK, FrameOK
  <2>3. CASE r = Top.runner
    BY <1>4, <2>2, <2>3, LaunchIsLaunch DEF LivesOn, LaunchInv
  <2>4. CASE r # Top.runner
    <3>1. UNCHANGED runner[r]
      BY <1>4, <2>2, <2>4 DEF Launch, Completed, IInv, TypeOK
    <3> QED BY <1>1, <3>1
  <2> QED BY <2>3, <2>4
<1>5. CASE DrainStep
  <2>1. PICK id : Refuse(id) \/ Start(id)
    BY <1>5 DEF DrainStep
  <2>2. CASE Refuse(id)
    BY <1>1, <2>2 DEF Refuse
  <2>3. CASE Start(id)
    <3>1. PICK q \in Runner : /\ ~runner[q].busy
                              /\ runner' = [runner EXCEPT ![q] =
                                     [NoRun EXCEPT !.busy = TRUE, !.run = id]]
      BY <2>3 DEF Start, Idle
    <3>2. CASE q = r
      BY <2>3, <3>1, <3>2, StartIsClaim DEF Start, LivesOn
    <3>3. CASE q # r
      <4>1. UNCHANGED runner[r]
        BY <3>1, <3>3 DEF IInv, TypeOK
      <4> QED BY <1>1, <4>1
    <3> QED BY <3>2, <3>3
  <2> QED BY <2>1, <2>2, <2>3
<1>6. CASE SupersedeStep
  BY <1>1, <1>3, <1>6 DEF SupersedeStep, RunnerFor
<1>7. ASSUME NEW id, Stop(id) PROVE LivesOn(r)
  BY <1>1, <1>3, <1>7 DEF Stop, RunnerFor, UserTurn
<1>8. CASE UNCHANGED runner
  BY <1>1, <1>8
<1>9. CASE Restart
  BY <1>9 DEF LivesOn
<1> QED BY <1>2, <1>4, <1>5, <1>6, <1>7, <1>8, <1>9
        DEF Next, Handler, Command, ScanStep, ScanEnds, SupersedeEnds, AutoStep,
            AutoEnds, ReloadStep, ReloadEnds, DrainEnds, EmitFinished, EmitLanded,
            WaitTimesOut, PumpEnds, Rerun, Approve, Reject, Skip, RunManually,
            SetAutoApprove, AskClear, AnswerClear, ScanArrives, Poll, CreateRun, vars

\* The scheduler keeps to the life of a run that ActionRunner implements: each
\* runner of the pool is claimed by a queued run, launched, told to stop only while
\* it executes (ActionRunner::stop then has a process to end), and settles its run
\* once, as cancelled exactly when it was told to; whatever handlers interrupt each
\* other, nobody else writes the record meanwhile.
THEOREM RunnersKeepLife == Spec => [][\A r \in Runner : LivesOn(r)]_vars
<1>1. Init => LaunchInv
  BY EmptyQ DEF Init, LaunchInv, Layered, NoRun
<1>2. IInv /\ LaunchInv /\ [Next]_vars => LaunchInv'
  BY NextLaunch
<1>3. IInv /\ IInv' /\ LaunchInv /\ [Next]_vars => \A r \in Runner : LivesOn(r)
  BY RunnersLiveOn
<1> QED BY <1>1, <1>2, <1>3, IInvInvariant, PTL DEF Spec

=============================================================================
