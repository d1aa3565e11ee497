----------------------- MODULE ActionSchedulerProofs -----------------------
(***************************************************************************)
(* Proofs about module ActionScheduler, for every set of repositories,     *)
(* workflows and commits, every pool size and every bound.  IInv is        *)
(* inductive; type correctness, the ownership of running runs, the safety  *)
(* of "Clear runs" and the permanence of outcomes follow from it.          *)
(***************************************************************************)
EXTENDS ActionScheduler, TLAPS, WellFoundedInduction

-----------------------------------------------------------------------------
(* Largest and NextId. *)

\* A nonempty set of numbers has a least element.
LEMMA LeastIsIn ==
    ASSUME NEW T \in SUBSET Nat, T # {}
    PROVE  \E m \in T : \A k \in T : m <= k
<1> DEFINE Less == OpToRel(<, Nat)
<1>1. \A x, y \in Nat : x < y => <<x, y>> \in Less
  BY DEF OpToRel
<1>2. IsWellFoundedOn(Less, Nat)
  BY NatLessThanWellFounded
<1> HIDE DEF Less
<1>3. PICK m \in T : \A y \in T : ~ (<<y, m>> \in Less)
  BY <1>2, WFMin
<1>4. \A k \in T : m <= k
  <2> SUFFICES ASSUME NEW k \in T, k < m PROVE FALSE
    OBVIOUS
  <2> QED BY <1>1, <1>3
<1> QED BY <1>4

\* A nonempty bounded set of ids has a largest element: were its least upper
\* bound not in the set, the number before it would be an upper bound too.
LEMMA LargestIsIn ==
    ASSUME NEW b \in Nat, NEW S \in SUBSET (1..b), S # {}
    PROVE  Largest(S) \in S /\ \A k \in S : k <= Largest(S)
<1> DEFINE T == {u \in Nat : \A k \in S : k <= u}
<1>1. T \in SUBSET Nat /\ b \in T
  OBVIOUS
<1>2. PICK m \in T : \A u \in T : m <= u
  BY <1>1, LeastIsIn
<1>3. m \in S
  <2> SUFFICES ASSUME m \notin S PROVE FALSE
    OBVIOUS
  <2>1. PICK k \in S : k <= m
    OBVIOUS
  <2>2. m - 1 \in T /\ m - 1 < m
    BY <2>1
  <2> QED BY <2>2, <1>2
<1>4. \E n \in S : \A k \in S : k <= n
  BY <1>3
<1> QED BY <1>4 DEF Largest

\* A nonempty set of workflow files has a first one.
LEMMA FirstPathIsIn ==
    ASSUME NEW ws \in SUBSET Workflow, ws # {}
    PROVE  FirstPath(ws) \in ws
<1> DEFINE T == {PathRank[w] : w \in ws}
<1>1. T \in SUBSET Nat /\ T # {}
  BY WorkflowAssumption
<1>2. PICK m \in T : \A k \in T : m <= k
  BY <1>1, LeastIsIn
<1>3. \E w \in ws : \A v \in ws : PathRank[w] <= PathRank[v]
  BY <1>2
<1> QED BY <1>3 DEF FirstPath

\* A new id is positive and belongs to no record.
LEMMA NextIdIsNew ==
    ASSUME DOMAIN runs \subseteq 1..MaxId
    PROVE  NextId \in Nat \ {0} /\ NextId \notin DOMAIN runs
<1>1. CASE DOMAIN runs = {}
  BY <1>1 DEF NextId, Largest
<1>2. CASE DOMAIN runs # {}
  <2>1. /\ Largest(DOMAIN runs) \in DOMAIN runs
        /\ \A k \in DOMAIN runs : k <= Largest(DOMAIN runs)
    BY <1>2, LargestIsIn, ModeAssumption
  <2> QED BY <2>1, ModeAssumption DEF NextId
<1> QED BY <1>1, <1>2
-----------------------------------------------------------------------------
(* The call stack. *)

\* A frame that is no start-up loop.
Plain(f) == f.kind \notin {"auto", "reload"}

\* A stack without start-up loops.
Quiet(s) == \A i \in DOMAIN s : Plain(s[i])

\* What pushing a frame does to a stack.
LEMMA PushFacts ==
    ASSUME NEW f \in Frame, NEW s \in Seq(Frame)
    PROVE  /\ Push(f, s) \in Seq(Frame)
           /\ DOMAIN Push(f, s) = 1..(Len(s) + 1)
           /\ Push(f, s)[1] = f
           /\ \A i \in DOMAIN s : Push(f, s)[i + 1] = s[i]
           /\ \A i \in DOMAIN Push(f, s) :
                 i # 1 => i - 1 \in DOMAIN s /\ Push(f, s)[i] = s[i - 1]
           /\ Push(f, s) # <<>>
           /\ Head(Push(f, s)) = f
BY DEF Push

\* What popping a frame does to a stack.
LEMMA TailFacts ==
    ASSUME NEW s \in Seq(Frame), s # <<>>
    PROVE  /\ Head(s) = s[1]
           /\ Head(s) \in Frame
           /\ Tail(s) \in Seq(Frame)
           /\ DOMAIN Tail(s) = 1..(Len(s) - 1)
           /\ \A i \in DOMAIN Tail(s) : i + 1 \in DOMAIN s /\ Tail(s)[i] = s[i + 1]
OBVIOUS

\* A stack whose top is no start-up loop has none at all.
LEMMA QuietStack ==
    ASSUME stack \in Seq(Frame), StartUpOnTop(stack),
           ~InFrame("auto"), ~InFrame("reload")
    PROVE  Quiet(stack)
<1> SUFFICES ASSUME NEW i \in DOMAIN stack, ~Plain(stack[i]) PROVE FALSE
  BY DEF Quiet
<1>1. stack # <<>> /\ Top = stack[1] /\ Plain(stack[1])
  BY DEF InFrame, Top, Plain
<1> QED BY <1>1 DEF StartUpOnTop, Plain

\* A plain frame may be pushed on a quiet stack, if it launches no runner that
\* is being launched already.
LEMMA PushShape ==
    ASSUME NEW f \in Frame, NEW s \in Seq(Frame), Quiet(s), LaunchedOnce(s),
           f.kind = "launch" => \A i \in DOMAIN s :
               s[i].kind = "launch" => s[i].runner # f.runner
    PROVE  /\ LaunchedOnce(Push(f, s))
           /\ StartUpOnTop(Push(f, s))
           /\ Plain(f) => Quiet(Push(f, s))
<1> DEFINE t == Push(f, s)
<1>1. /\ DOMAIN t = 1..(Len(s) + 1)
      /\ t[1] = f
      /\ \A i \in DOMAIN t : i # 1 => i - 1 \in DOMAIN s /\ t[i] = s[i - 1]
  BY PushFacts
<1> HIDE DEF t
<1>2. LaunchedOnce(t)
  <2> SUFFICES ASSUME NEW i \in DOMAIN t, NEW j \in DOMAIN t,
                      t[i].kind = "launch", t[j].kind = "launch",
                      t[i].runner = t[j].runner
               PROVE  i = j
    BY DEF LaunchedOnce
  <2>1. CASE i = 1 \/ j = 1
    BY <1>1, <2>1
  <2>2. CASE i # 1 /\ j # 1
    <3>1. i - 1 = j - 1
      BY <1>1, <2>2 DEF LaunchedOnce
    <3> QED BY <1>1, <3>1
  <2> QED BY <2>1, <2>2
<1>3. StartUpOnTop(t)
  BY <1>1 DEF StartUpOnTop, Quiet, Plain
<1>4. Plain(f) => Quiet(t)
  BY <1>1 DEF Quiet
<1> QED BY <1>2, <1>3, <1>4 DEF t

\* Popping a frame keeps the shape of the stack.
LEMMA TailShape ==
    ASSUME NEW s \in Seq(Frame), s # <<>>
    PROVE  /\ LaunchedOnce(s) => LaunchedOnce(Tail(s))
           /\ StartUpOnTop(s) => StartUpOnTop(Tail(s))
           /\ Quiet(s) => Quiet(Tail(s))
<1> DEFINE t == Tail(s)
<1>1. /\ DOMAIN t = 1..(Len(s) - 1)
      /\ DOMAIN s = 1..Len(s)
      /\ \A i \in DOMAIN t : i + 1 \in DOMAIN s /\ t[i] = s[i + 1]
  BY TailFacts
<1> HIDE DEF t
<1>2. LaunchedOnce(s) => LaunchedOnce(t)
  BY <1>1 DEF LaunchedOnce
<1>3. StartUpOnTop(s) => StartUpOnTop(t)
  <2> SUFFICES ASSUME StartUpOnTop(s), NEW i \in DOMAIN t
               PROVE  /\ t[i].kind = "reload" => i = 1
                      /\ t[i].kind = "auto" =>
                            \A j \in 1..(i - 1) : t[j].kind = "reload"
    BY DEF StartUpOnTop
  <2>1. t[i].kind # "reload"
    BY <1>1 DEF StartUpOnTop
  <2>2. ASSUME t[i].kind = "auto", NEW j \in 1..(i - 1)
        PROVE  t[j].kind = "reload"
    BY <1>1, <2>2 DEF StartUpOnTop
  <2> QED BY <2>1, <2>2
<1>4. Quiet(s) => Quiet(t)
  BY <1>1 DEF Quiet
<1> QED BY <1>2, <1>3, <1>4 DEF t

-----------------------------------------------------------------------------
(* The call stack after a step.  FrameOKNext is FrameOK in the next state, *)
(* of a frame that the step leaves suspended or pushes.                    *)

FrameOKNext(f) ==
    /\ f.ids \subseteq DOMAIN runs'
    /\ f.kind = "scan" => f.commit \in Commit
    /\ f.kind = "launch" =>
          f.runner \in Runner /\ runner'[f.runner].busy /\ ~runner'[f.runner].alive
    /\ f.kind = "reload" => \A r \in Runner : ~runner'[r].busy
    /\ f.kind = "auto" =>
          /\ doomed' = {}
          /\ \A id \in f.ids : runs'[id].status = "awaiting-approval"

GoodNext(s) ==
    /\ s \in Seq(Frame)
    /\ \A i \in DOMAIN s : FrameOKNext(s[i])
    /\ LaunchedOnce(s)
    /\ StartUpOnTop(s)

\* The handlers that a step leaves suspended can still rely on what they did,
\* if the step deletes no record and disturbs no runner being launched.
LEMMA CarryNext ==
    ASSUME IInv, Quiet(stack), DOMAIN runs \subseteq DOMAIN runs',
           \A r \in Runner : runner[r].busy /\ ~runner[r].alive =>
               runner'[r].busy /\ ~runner'[r].alive
    PROVE  GoodNext(stack)
<1> SUFFICES ASSUME NEW i \in DOMAIN stack PROVE FrameOKNext(stack[i])
  BY DEF GoodNext, IInv, TypeOK
<1>1. FrameOK(stack[i]) /\ Plain(stack[i])
  BY DEF IInv, FramesOK, Quiet
<1> QED BY <1>1 DEF FrameOK, FrameOKNext, Plain

\* A handler returns.
LEMMA PopNext ==
    ASSUME NEW s, GoodNext(s), s # <<>>
    PROVE  GoodNext(Tail(s)) /\ (Quiet(s) => Quiet(Tail(s)))
<1>1. s \in Seq(Frame)
  BY DEF GoodNext
<1>2. \A i \in DOMAIN Tail(s) : FrameOKNext(Tail(s)[i])
  BY <1>1, TailFacts DEF GoodNext
<1> QED BY <1>1, <1>2, TailFacts, TailShape DEF GoodNext

\* A handler is called.
LEMMA CallNext ==
    ASSUME NEW s, NEW f \in Frame, GoodNext(s), Quiet(s), FrameOKNext(f),
           Plain(f), f.kind # "launch"
    PROVE  GoodNext(Push(f, s)) /\ Quiet(Push(f, s))
<1>1. s \in Seq(Frame)
  BY DEF GoodNext
<1>2. ASSUME NEW i \in DOMAIN Push(f, s) PROVE FrameOKNext(Push(f, s)[i])
  <2>1. CASE i = 1
    BY <1>1, <2>1, PushFacts
  <2>2. CASE i # 1
    BY <1>1, <2>2, PushFacts DEF GoodNext
  <2> QED BY <2>1, <2>2
<1> QED BY <1>1, <1>2, PushFacts, PushShape DEF GoodNext

\* A status change may be followed by a pumped event loop.
LEMMA PumpedNext ==
    ASSUME NEW s, GoodNext(s), Quiet(s)
    PROVE  GoodNext(Pumped(s)) /\ Quiet(Pumped(s))
<1>1. /\ F("pump") \in Frame
      /\ FrameOKNext(F("pump")) /\ Plain(F("pump")) /\ F("pump").kind = "pump"
  BY DEF F, Frame, FrameKind, FrameOKNext, Plain
<1> QED BY <1>1, CallNext DEF Pumped

\* The frames that carry no list of ids.
SimpleFrame(f) ==
    /\ f \in Frame /\ Plain(f) /\ f.kind # "launch" /\ f.ids = {}
    /\ f.kind = "scan" => f.commit \in Commit

LEMMA SimpleFrames ==
    /\ SimpleFrame(Drain)
    /\ \A r \in Runner : SimpleFrame(Wait(r))
    /\ \A c \in Commit, ws \in SUBSET Workflow : SimpleFrame(Scan(c, ws))
    /\ \A k \in {"finish", "landed"}, r \in Runner, id \in Nat :
          SimpleFrame(Of(k, r, id))
<1>0. Runner \subseteq Nat
  BY PoolAssumption DEF Runner
<1> USE <1>0 DEF SimpleFrame, F, Frame, FrameKind, Plain
<1>1. SimpleFrame(Drain)
  BY DEF Drain
<1>2. \A r \in Runner : SimpleFrame(Wait(r))
  BY DEF Wait
<1>3. \A c \in Commit, ws \in SUBSET Workflow : SimpleFrame(Scan(c, ws))
  BY DEF Scan
<1>4. \A k \in {"finish", "landed"}, r \in Runner, id \in Nat :
          SimpleFrame(Of(k, r, id))
  BY DEF Of
<1> QED BY <1>1, <1>2, <1>3, <1>4

\* They may be called from any quiet stack.
LEMMA SimpleCallNext ==
    ASSUME NEW s, NEW f, SimpleFrame(f), GoodNext(s), Quiet(s)
    PROVE  GoodNext(Push(f, s)) /\ Quiet(Push(f, s))
<1>1. FrameOKNext(f)
  BY DEF SimpleFrame, FrameOKNext, Plain
<1> QED BY <1>1, CallNext DEF SimpleFrame

-----------------------------------------------------------------------------
(* Steps that move between handlers only.                                  *)

AllOwned == \A id \in DOMAIN runs :
                runs[id].status = "running" => RunnerFor(id) # {}

LEMMA Owned ==
    ASSUME IInv, ~InFrame("reload")
    PROVE  AllOwned
BY DEF IInv, RunnerOwnsRunning, AllOwned

\* Such a step keeps the invariant if the handlers it leaves are fit to go on.
LEMMA CallStep ==
    ASSUME IInv, AllOwned, UNCHANGED <<runs, approved, runner, doomed>>,
           auto' \subseteq Repo, queue' \in Seq(Nat), pins' \subseteq Nat,
           GoodNext(stack')
    PROVE  IInv'
<1>1. TypeOK'
  BY DEF IInv, TypeOK, GoodNext
<1>2. RunnerOwnsRunning'
  BY DEF IInv, RunnerOwnsRunning, AllOwned, HasStatus, RunnerFor
<1>3. AliveIsBusy' /\ DoomedAreSettled'
  BY DEF IInv, AliveIsBusy, DoomedAreSettled
<1>4. FramesOK(stack)' /\ LaunchedOnce(stack)' /\ StartUpOnTop(stack)'
  BY DEF GoodNext, FramesOK, FrameOK, FrameOKNext, LaunchedOnce, StartUpOnTop
<1> QED BY <1>1, <1>2, <1>3, <1>4 DEF IInv

\* What such a step may leave suspended when no start-up loop runs.
LEMMA QuietStep ==
    ASSUME IInv, ~InFrame("auto"), ~InFrame("reload"),
           UNCHANGED <<runs, runner, doomed>>
    PROVE  /\ AllOwned
           /\ Quiet(stack) /\ GoodNext(stack)
           /\ stack # <<>> => Quiet(Tail(stack)) /\ GoodNext(Tail(stack))
<1>1. Quiet(stack)
  BY QuietStack DEF IInv, TypeOK
<1>2. GoodNext(stack)
  BY <1>1, CarryNext
<1> QED BY <1>1, <1>2, Owned, PopNext

\* The ends of the handlers, and the signals that change nothing here.
LEMMA EndsKeep ==
    ASSUME IInv, \/ ScanEnds \/ DrainEnds \/ WaitTimesOut \/ PumpEnds
                 \/ EmitFinished \/ EmitLanded \/ SupersedeEnds
    PROVE  IInv'
<1>1. ~InFrame("auto") /\ ~InFrame("reload") /\ stack # <<>>
  BY DEF ScanEnds, DrainEnds, WaitTimesOut, PumpEnds, EmitFinished,
         EmitLanded, SupersedeEnds, InFrame
<1>2. UNCHANGED <<runs, approved, auto, runner, doomed>>
  BY DEF ScanEnds, DrainEnds, WaitTimesOut, PumpEnds, EmitFinished,
         EmitLanded, SupersedeEnds, disk
<1>3. AllOwned /\ Quiet(Tail(stack)) /\ GoodNext(Tail(stack))
  BY <1>1, <1>2, QuietStep
<1>4. /\ GoodNext(Push(Drain, Tail(stack)))
      /\ GoodNext(Pumped(Push(Drain, Tail(stack))))
  BY <1>3, SimpleFrames, SimpleCallNext, PumpedNext
<1>5. GoodNext(stack')
  BY <1>3, <1>4 DEF ScanEnds, DrainEnds, WaitTimesOut, PumpEnds, EmitFinished,
                    EmitLanded, SupersedeEnds
<1>6. queue' \in Seq(Nat)
  <2>1. CASE SupersedeEnds
    <3>1. Top.run \in Nat
      BY <1>1, TailFacts DEF IInv, TypeOK, Top, Frame
    <3> QED BY <2>1, <3>1 DEF SupersedeEnds, IInv, TypeOK
  <2>2. CASE UNCHANGED queue
    BY <2>2 DEF IInv, TypeOK
  <2> QED BY <2>1, <2>2 DEF ScanEnds, DrainEnds, WaitTimesOut, PumpEnds,
                            EmitFinished, EmitLanded
<1>7. pins' \subseteq Nat /\ auto' \subseteq Repo
  BY <1>2 DEF ScanEnds, DrainEnds, WaitTimesOut, PumpEnds, EmitFinished,
              EmitLanded, SupersedeEnds, IInv, TypeOK
<1> QED BY <1>2, <1>3, <1>5, <1>6, <1>7, CallStep

\* A scan that delivers its files, and the poll.
LEMMA ArrivalsKeep ==
    ASSUME IInv, (\E c \in Commit : ScanArrives(c)) \/ Poll
    PROVE  IInv'
<1>1. ~InFrame("auto") /\ ~InFrame("reload") /\ stack = <<>>
  BY DEF ScanArrives, Poll, EventTurn, InFrame
<1>2. UNCHANGED <<runs, approved, auto, queue, runner, pins, doomed>>
  BY DEF ScanArrives, Poll, disk
<1>3. AllOwned /\ Quiet(<<>>) /\ GoodNext(<<>>)
  BY <1>1, <1>2, QuietStep
<1>4. GoodNext(stack')
  <2>1. Push(Drain, <<>>) = <<Drain>>
        /\ \A c \in Commit : Push(Scan(c, At[c]), <<>>) = <<Scan(c, At[c])>>
    BY DEF Push
  <2>2. CASE Poll
    BY <2>1, <2>2, <1>3, SimpleFrames, SimpleCallNext DEF Poll
  <2>3. ASSUME NEW c \in Commit, ScanArrives(c) PROVE GoodNext(stack')
    BY <2>1, <2>3, <1>3, SimpleFrames, SimpleCallNext, CommitAssumption
       DEF ScanArrives
  <2> QED BY <2>2, <2>3
<1> QED BY <1>2, <1>3, <1>4, CallStep DEF IInv, TypeOK

-----------------------------------------------------------------------------
(* Creating runs.                                                          *)

\* A new record disturbs no runner and no other record.
LEMMA CreateKeeps ==
    ASSUME IInv, ~InFrame("auto"), ~InFrame("reload"),
           NEW w \in Workflow, NEW c \in Commit, NEW rest,
           CreateRun(w, c, rest),
           GoodNext(stack) => GoodNext(rest) /\ Quiet(rest)
    PROVE  IInv'
<1> DEFINE new == NextId
<1>1. /\ new \in 1..MaxId /\ new \notin DOMAIN runs
      /\ DOMAIN runs' = DOMAIN runs \cup {new}
      /\ \A id \in DOMAIN runs : runs'[id] = runs[id]
      /\ runs'[new] \in Run /\ runs'[new].workflow = w
      /\ runs'[new].status \in {"queued", "awaiting-approval"}
      /\ approved' \in [Workflow -> Commit \cup {None}]
      /\ UNCHANGED <<auto, queue, runner, pins, doomed>>
  BY NextIdIsNew, ModeAssumption
     DEF CreateRun, Put, Run, Pending, IInv, TypeOK
<1>2. GoodNext(rest) /\ Quiet(rest)
  <2>1. Quiet(stack)
    BY QuietStack DEF IInv, TypeOK
  <2> QED BY <2>1, <1>1, CarryNext
<1>3. GoodNext(stack')
  <2> DEFINE ok == RepoOf[w] \in auto \/ approved[w] = c
             f == Over(new, Active(w), ok)
  <2>1. f \in Frame /\ Plain(f) /\ f.kind = "supersede" /\ f.ids = Active(w)
    <3>1. ok \in BOOLEAN /\ new \in Nat /\ Active(w) \subseteq Nat
      BY <1>1 DEF Active, IInv, TypeOK
    <3> HIDE DEF ok, new
    <3> QED BY <3>1 DEF Over, F, Frame, FrameKind, Plain
  <2>2. FrameOKNext(f)
    BY <1>1, <2>1 DEF FrameOKNext, Plain, Active
  <2>3. stack' = Push(f, rest)
    BY DEF CreateRun
  <2> HIDE DEF f
  <2> QED BY <1>2, <2>1, <2>2, <2>3, CallNext
<1> HIDE DEF new
<1>4. TypeOK'
  <2>1. runs' \in [DOMAIN runs' -> Run]
    <3>1. runs' = [k \in DOMAIN runs' |-> runs'[k]]
      BY DEF CreateRun, Put
    <3> QED BY <1>1, <3>1 DEF IInv, TypeOK
  <2> QED BY <1>1, <1>3, <2>1 DEF IInv, TypeOK, GoodNext
<1>5. RunnerOwnsRunning'
  BY <1>1, Owned DEF IInv, RunnerOwnsRunning, AllOwned, HasStatus, RunnerFor
<1>6. AliveIsBusy' /\ DoomedAreSettled'
  BY <1>1 DEF IInv, TypeOK, AliveIsBusy, DoomedAreSettled
<1>7. FramesOK(stack)' /\ LaunchedOnce(stack)' /\ StartUpOnTop(stack)'
  BY <1>3 DEF GoodNext, FramesOK, FrameOK, FrameOKNext, LaunchedOnce, StartUpOnTop
<1> QED BY <1>4, <1>5, <1>6, <1>7 DEF IInv

LEMMA ScanKeeps ==
    ASSUME IInv, ScanStep
    PROVE  IInv'
<1>1. /\ ~InFrame("auto") /\ ~InFrame("reload") /\ stack # <<>>
      /\ Top \in Frame /\ Plain(Top) /\ Top.kind = "scan" /\ FrameOK(Top)
  BY TailFacts DEF ScanStep, InFrame, IInv, TypeOK, FramesOK, Top, Plain
<1> DEFINE w == FirstPath(Top.workflows)
           rest == [Top EXCEPT !.workflows = @ \ {w}]
           next == [rest EXCEPT !.flag = TRUE]
<1>2. /\ rest \in Frame /\ Plain(rest) /\ rest.kind = "scan" /\ rest.ids = Top.ids
      /\ next \in Frame /\ Plain(next) /\ next.kind = "scan" /\ next.ids = Top.ids
  BY <1>1 DEF Frame, Plain
<1>3. CASE UNCHANGED <<disk, queue, runner, pins, doomed>>
           /\ stack' = Push(rest, Tail(stack))
  <2>1. AllOwned /\ Quiet(Tail(stack)) /\ GoodNext(Tail(stack))
    BY <1>1, <1>3, QuietStep DEF disk
  <2>2. FrameOKNext(rest)
    BY <1>1, <1>2, <1>3 DEF FrameOK, FrameOKNext, Plain, disk
  <2>3. GoodNext(stack')
    BY <1>2, <1>3, <2>1, <2>2, CallNext
  <2> QED BY <1>3, <2>1, <2>3, CallStep DEF disk, IInv, TypeOK
<1>4. CASE CreateRun(w, Top.commit, Push(next, Tail(stack)))
  <2>1. w \in Workflow /\ Top.commit \in Commit
    <3>1. Top.workflows \in SUBSET Workflow /\ Top.workflows # {}
      BY <1>1 DEF Frame, ScanStep
    <3> QED BY <1>1, <3>1, FirstPathIsIn DEF FrameOK
  <2>2. ASSUME GoodNext(stack)
        PROVE  GoodNext(Push(next, Tail(stack))) /\ Quiet(Push(next, Tail(stack)))
    <3>1. Quiet(Tail(stack)) /\ GoodNext(Tail(stack))
      BY <1>1, <2>2, PopNext, QuietStack DEF IInv, TypeOK
    <3>2. FrameOKNext(next)
      BY <1>1, <1>2, <1>4 DEF FrameOK, FrameOKNext, Plain, CreateRun, Put
    <3> QED BY <1>2, <3>1, <3>2, CallNext
  <2> QED BY <1>1, <1>4, <2>1, <2>2, CreateKeeps
<1> QED BY <1>3, <1>4 DEF ScanStep

LEMMA RunCommandsKeep ==
    ASSUME IInv, \/ \E c \in Commit : \E w \in At[c] : RunManually(w, c)
                 \/ \E id \in DOMAIN runs : Rerun(id)
    PROVE  IInv'
<1>1. stack = <<>> /\ ~InFrame("auto") /\ ~InFrame("reload") /\ Quiet(stack)
  BY DEF RunManually, Rerun, UserTurn, InFrame, Quiet
<1>2. PICK w \in Workflow, c \in Commit : CreateRun(w, c, <<Drain>>)
  <2>1. ASSUME NEW c \in Commit, NEW w \in At[c], RunManually(w, c)
        PROVE  \E v \in Workflow, d \in Commit : CreateRun(v, d, <<Drain>>)
    BY <2>1, CommitAssumption DEF RunManually
  <2>2. ASSUME NEW id \in DOMAIN runs, Rerun(id)
        PROVE  \E v \in Workflow, d \in Commit : CreateRun(v, d, <<Drain>>)
    <3>1. runs[id].workflow \in Workflow /\ runs[id].commit \in Commit
      BY DEF IInv, TypeOK, Run
    <3> QED BY <2>2, <3>1 DEF Rerun
  <2> QED BY <2>1, <2>2
<1>3. Push(Drain, stack) = <<Drain>>
  BY <1>1 DEF Push
<1>4. ASSUME GoodNext(stack) PROVE GoodNext(<<Drain>>) /\ Quiet(<<Drain>>)
  BY <1>1, <1>3, <1>4, SimpleFrames, SimpleCallNext
<1> QED BY <1>1, <1>2, <1>4, CreateKeeps

-----------------------------------------------------------------------------
(* Changing the status of one record.                                      *)

\* A record that no runner owns may take any status but "running".
LEMMA SettleKeeps ==
    ASSUME IInv, AllOwned,
           NEW id \in DOMAIN runs, NEW s \in (Pending \cup Finished) \ {"running"},
           runs[id].status # "running", s = "queued" => id \notin doomed,
           runs' = SetStatus(id, s), UNCHANGED <<auto, runner, pins, doomed>>,
           approved' \in [Workflow -> Commit \cup {None}],
           queue' \in Seq(Nat), GoodNext(stack')
    PROVE  IInv'
<1>1. /\ DOMAIN runs' = DOMAIN runs /\ runs' \in [DOMAIN runs -> Run]
      /\ runs'[id].status = s
      /\ \A k \in DOMAIN runs : k # id => runs'[k] = runs[k]
  BY DEF SetStatus, IInv, TypeOK, Run
<1>2. TypeOK'
  BY <1>1 DEF IInv, TypeOK, GoodNext
<1>3. RunnerOwnsRunning'
  BY <1>1 DEF IInv, RunnerOwnsRunning, AllOwned, HasStatus, RunnerFor
<1>4. AliveIsBusy' /\ DoomedAreSettled'
  BY <1>1 DEF IInv, TypeOK, AliveIsBusy, DoomedAreSettled
<1>5. FramesOK(stack)' /\ LaunchedOnce(stack)' /\ StartUpOnTop(stack)'
  BY DEF GoodNext, FramesOK, FrameOK, FrameOKNext, LaunchedOnce, StartUpOnTop
<1> QED BY <1>2, <1>3, <1>4, <1>5 DEF IInv

\* Dropping an id leaves a sequence of ids.
LEMMA WithoutIsSeq ==
    ASSUME NEW q \in Seq(Nat), NEW id
    PROVE  Without(q, id) \in Seq(Nat)
<1>1. ASSUME NEW i \in DOMAIN q PROVE DropAt(q, i) \in Seq(Nat)
  BY DEF DropAt
<1>2. CASE \E i \in DOMAIN q : q[i] = id
  BY <1>1, <1>2 DEF Without
<1>3. CASE ~\E i \in DOMAIN q : q[i] = id
  BY <1>3 DEF Without
<1> QED BY <1>2, <1>3

LEMMA ApproveKeeps ==
    ASSUME IInv, NEW id \in DOMAIN runs, Approve(id)
    PROVE  IInv'
<1>1. /\ stack = <<>> /\ doomed = {} /\ Quiet(stack)
      /\ ~InFrame("auto") /\ ~InFrame("reload") /\ AllOwned
  BY Owned DEF Approve, UserTurn, InFrame, Quiet
<1>2. DOMAIN runs' = DOMAIN runs /\ runner' = runner
  BY DEF Approve, SetStatus
<1>3. GoodNext(stack')
  <2>1. stack' = Push(Drain, stack)
    BY <1>1 DEF Approve, Push
  <2> QED BY <1>1, <1>2, <2>1, CarryNext, SimpleFrames, SimpleCallNext
<1>4. /\ runs[id].status = "awaiting-approval" /\ runs' = SetStatus(id, "queued")
      /\ queue' \in Seq(Nat)
      /\ approved' \in [Workflow -> Commit \cup {None}]
  BY DEF Approve, HasStatus, IInv, TypeOK, Run
<1> QED BY <1>1, <1>2, <1>3, <1>4, SettleKeeps
        DEF Approve, Pending

\* Telling a runner to stop disturbs nothing, whichever handler waits for it.
LEMMA StopKeeps ==
    ASSUME IInv, ~InFrame("auto"), ~InFrame("reload"),
           NEW r \in Runner, NEW rest, StopRunner(r, rest),
           GoodNext(stack) => GoodNext(rest) /\ Quiet(rest),
           UNCHANGED <<disk, queue, pins, doomed>>
    PROVE  IInv'
<1>1. /\ runner' \in [Runner -> [busy : BOOLEAN, run : Nat, alive : BOOLEAN,
                                 stopping : BOOLEAN]]
      /\ \A q \in Runner : /\ runner'[q].busy = runner[q].busy
                           /\ runner'[q].run = runner[q].run
                           /\ runner'[q].alive = runner[q].alive
  BY DEF StopRunner, IInv, TypeOK
<1>2. UNCHANGED <<runs, approved, auto, queue, pins, doomed>>
  BY DEF disk
<1>3. GoodNext(stack')
  <2>1. GoodNext(stack)
    BY <1>1, <1>2, CarryNext, QuietStack DEF IInv, TypeOK
  <2> QED BY <2>1, SimpleFrames, SimpleCallNext DEF StopRunner
<1>4. TypeOK'
  BY <1>1, <1>2, <1>3 DEF IInv, TypeOK, GoodNext
<1>5. RunnerOwnsRunning'
  BY <1>1, <1>2, Owned DEF IInv, RunnerOwnsRunning, AllOwned, HasStatus, RunnerFor
<1>6. AliveIsBusy' /\ DoomedAreSettled'
  BY <1>1, <1>2 DEF IInv, TypeOK, AliveIsBusy, DoomedAreSettled
<1>7. FramesOK(stack)' /\ LaunchedOnce(stack)' /\ StartUpOnTop(stack)'
  BY <1>3 DEF GoodNext, FramesOK, FrameOK, FrameOKNext, LaunchedOnce, StartUpOnTop
<1> QED BY <1>4, <1>5, <1>6, <1>7 DEF IInv

LEMMA RejectSkipStopKeep ==
    ASSUME IInv, NEW id \in DOMAIN runs, Reject(id) \/ Skip(id) \/ Stop(id)
    PROVE  IInv'
<1>1. /\ stack = <<>> /\ doomed = {} /\ Quiet(stack)
      /\ ~InFrame("auto") /\ ~InFrame("reload") /\ AllOwned
  BY Owned DEF Reject, Skip, Stop, UserTurn, InFrame, Quiet
<1>2. CASE /\ runner' = runner
           /\ \E s \in {"rejected", "skipped", "cancelled"} : runs' = SetStatus(id, s)
           /\ runs[id].status \in {"queued", "awaiting-approval"}
           /\ queue' \in {queue, Without(queue, id)}
           /\ UNCHANGED <<approved, auto, pins, doomed, stack>>
  <2>1. DOMAIN runs' = DOMAIN runs
    BY <1>2 DEF SetStatus
  <2>2. GoodNext(stack')
    BY <1>1, <1>2, <2>1, CarryNext
  <2>3. queue' \in Seq(Nat)
    BY <1>2, WithoutIsSeq DEF IInv, TypeOK
  <2> QED BY <1>1, <1>2, <2>2, <2>3, SettleKeeps
          DEF IInv, TypeOK, Pending, Finished
<1>3. ASSUME NEW r \in Runner, StopRunner(r, <<>>),
             UNCHANGED <<runs, queue, approved, auto, pins, doomed>>
      PROVE  IInv'
  <2>1. UNCHANGED <<disk, queue, pins, doomed>>
    BY <1>3 DEF disk
  <2> QED BY <1>1, <1>3, <2>1, StopKeeps
<1> QED BY <1>2, <1>3 DEF Reject, Skip, Stop, HasStatus, RunnerFor, disk

LEMMA SupersedeKeeps ==
    ASSUME IInv, SupersedeStep
    PROVE  IInv'
<1>1. /\ ~InFrame("auto") /\ ~InFrame("reload") /\ stack # <<>>
      /\ Top \in Frame /\ Plain(Top) /\ Top.kind = "supersede" /\ FrameOK(Top)
  BY TailFacts DEF SupersedeStep, InFrame, IInv, TypeOK, FramesOK, Top, Plain
<1> DEFINE id == Largest(Top.ids)
           f == [Top EXCEPT !.ids = @ \ {id}]
           rest == Push(f, Tail(stack))
<1>2. f \in Frame /\ Plain(f) /\ f.kind = "supersede" /\ f.ids \subseteq DOMAIN runs
  BY <1>1 DEF Frame, Plain, FrameOK
<1>3. AllOwned /\ Quiet(stack)
  BY <1>1, Owned, QuietStack DEF IInv, TypeOK
<1> HIDE DEF f
<1>4. ASSUME GoodNext(stack), DOMAIN runs \subseteq DOMAIN runs'
      PROVE  GoodNext(rest) /\ Quiet(rest)
  <2>1. GoodNext(Tail(stack)) /\ Quiet(Tail(stack))
    BY <1>1, <1>3, <1>4, PopNext
  <2>2. FrameOKNext(f)
    BY <1>2, <1>4 DEF FrameOKNext
  <2> QED BY <1>2, <2>1, <2>2, CallNext
<1> HIDE DEF rest, id
<1>5. CASE /\ \E r \in RunnerFor(id) : StopRunner(r, rest)
           /\ UNCHANGED <<disk, queue, pins, doomed>>
  <2>1. PICK r \in Runner : StopRunner(r, rest)
    BY <1>5 DEF RunnerFor
  <2> QED BY <1>1, <1>4, <1>5, <2>1, StopKeeps DEF disk
<1>6. CASE /\ HasStatus(id, {"queued", "awaiting-approval"})
           /\ queue' = Without(queue, id)
           /\ runs' = SetStatus(id, "cancelled")
           /\ stack' = rest
           /\ UNCHANGED <<approved, auto, runner, pins, doomed>>
  <2>1. DOMAIN runs' = DOMAIN runs
    BY <1>6 DEF SetStatus
  <2>2. GoodNext(stack')
    BY <1>3, <1>4, <1>6, <2>1, CarryNext
  <2> QED BY <1>3, <1>6, <2>2, SettleKeeps, WithoutIsSeq
          DEF HasStatus, IInv, TypeOK, Pending, Finished
<1>7. CASE stack' = rest /\ UNCHANGED <<disk, queue, runner, pins, doomed>>
  <2>1. GoodNext(stack')
    BY <1>1, <1>4, <1>7, QuietStep DEF disk
  <2> QED BY <1>3, <1>7, <2>1, CallStep DEF disk, IInv, TypeOK
<1> QED BY <1>5, <1>6, <1>7 DEF SupersedeStep, id, rest, f, disk

-----------------------------------------------------------------------------
(* Runners starting and completing.                                        *)

\* A busy runner completes its run: the record is settled and the runner idle.
LEMMA CompletedKeeps ==
    ASSUME IInv, AllOwned, NEW r \in Runner, runner[r].busy,
           NEW s \in Finished, NEW landed \in BOOLEAN, NEW rest,
           Completed(r, s, landed, rest), GoodNext(rest), Quiet(rest),
           UNCHANGED <<approved, auto, queue, pins, doomed>>
    PROVE  IInv'
<1> DEFINE id == runner[r].run
<1>1. /\ id \in DOMAIN runs /\ id \in Nat /\ runs[id].status = "running"
      /\ \A q \in Runner : runner[q].busy /\ q # r => runner[q].run # id
  BY DEF IInv, TypeOK, RunnerOwnsRunning, HasStatus
<1>2. /\ DOMAIN runs' = DOMAIN runs /\ runs' \in [DOMAIN runs -> Run]
      /\ runs'[id].status = s
      /\ \A k \in DOMAIN runs : k # id => runs'[k] = runs[k]
  BY <1>1 DEF Completed, SetStatus, IInv, TypeOK, Run
<1>3. /\ runner' \in [Runner -> [busy : BOOLEAN, run : Nat, alive : BOOLEAN,
                                 stopping : BOOLEAN]]
      /\ ~runner'[r].busy /\ ~runner'[r].alive
      /\ \A q \in Runner : q # r => runner'[q] = runner[q]
  BY <1>1 DEF Completed, NoRun, IInv, TypeOK
<1>4. GoodNext(stack')
  <2>1. SimpleFrame(Of("finish", r, id)) /\ SimpleFrame(Of("landed", r, id))
    BY <1>1, SimpleFrames
  <2>2. /\ GoodNext(IF landed THEN Push(Of("landed", r, id), rest) ELSE rest)
        /\ Quiet(IF landed THEN Push(Of("landed", r, id), rest) ELSE rest)
    BY <2>1, SimpleCallNext
  <2> QED BY <2>1, <2>2, SimpleCallNext, PumpedNext DEF Completed
<1> HIDE DEF id
<1>5. TypeOK'
  BY <1>2, <1>3, <1>4 DEF IInv, TypeOK, GoodNext
<1>6. RunnerOwnsRunning'
  <2>1. \A q \in Runner : runner'[q].busy =>
            /\ q # r /\ runner[q].busy /\ runner'[q].run = runner[q].run
            /\ runner[q].run # id
    BY <1>1, <1>3 DEF id
  <2>2. \A q \in Runner : runner'[q].busy =>
            runner'[q].run \in DOMAIN runs' /\ runs'[runner'[q].run].status = "running"
    BY <1>2, <2>1 DEF IInv, RunnerOwnsRunning, HasStatus
  <2>3. ASSUME NEW k \in DOMAIN runs', runs'[k].status = "running"
        PROVE  \E q \in Runner : runner'[q].busy /\ runner'[q].run = k
    <3>1. k # id /\ k \in DOMAIN runs /\ runs[k].status = "running"
      BY <1>2, <2>3 DEF Finished
    <3>2. PICK q \in Runner : runner[q].busy /\ runner[q].run = k
      BY <3>1 DEF AllOwned, RunnerFor
    <3> QED BY <1>3, <3>1, <3>2 DEF id
  <2>4. \A p, q \in Runner : runner'[p].busy /\ runner'[q].busy /\ p # q
                             => runner'[p].run # runner'[q].run
    BY <2>1 DEF IInv, RunnerOwnsRunning
  <2> QED BY <2>2, <2>3, <2>4 DEF RunnerOwnsRunning, RunnerFor, HasStatus
<1>7. AliveIsBusy'
  BY <1>3 DEF IInv, AliveIsBusy
<1>8. DoomedAreSettled'
  BY <1>2 DEF IInv, TypeOK, DoomedAreSettled, Finished
<1>9. FramesOK(stack)' /\ LaunchedOnce(stack)' /\ StartUpOnTop(stack)'
  BY <1>4 DEF GoodNext, FramesOK, FrameOK, FrameOKNext, LaunchedOnce, StartUpOnTop
<1> QED BY <1>5, <1>6, <1>7, <1>8, <1>9 DEF IInv

LEMMA RunnerExitsKeeps ==
    ASSUME IInv, NEW r \in Runner, RunnerExits(r)
    PROVE  IInv'
<1>1. ~InFrame("auto") /\ ~InFrame("reload")
  BY DEF RunnerExits, EventTurn, InFrame
<1>2. AllOwned /\ Quiet(stack) /\ runner[r].busy /\ runner[r].alive
  BY <1>1, Owned, QuietStack DEF IInv, TypeOK, AliveIsBusy, RunnerExits
<1> DEFINE rest == IF InFrame("wait") THEN Tail(stack) ELSE stack
<1>3. PICK s \in Finished, landed \in BOOLEAN : Completed(r, s, landed, rest)
  BY DEF RunnerExits, Finished
<1>4. GoodNext(rest) /\ Quiet(rest)
  <2>1. /\ DOMAIN runs' = DOMAIN runs
        /\ \A q \in Runner : q # r => runner'[q] = runner[q]
    BY <1>3 DEF Completed, SetStatus, IInv, TypeOK
  <2>2. GoodNext(stack)
    BY <1>2, <2>1, CarryNext
  <2> QED BY <1>2, <2>2, PopNext DEF InFrame
<1> QED BY <1>2, <1>3, <1>4, CompletedKeeps DEF RunnerExits

LEMMA LaunchKeeps ==
    ASSUME IInv, Launch
    PROVE  IInv'
<1> DEFINE r == Top.runner
<1>1. /\ ~InFrame("auto") /\ ~InFrame("reload") /\ stack # <<>>
      /\ r \in Runner /\ runner[r].busy /\ ~runner[r].alive
      /\ Top = stack[1] /\ Top.kind = "launch"
  BY TailFacts DEF Launch, InFrame, IInv, TypeOK, FramesOK, FrameOK, Top
<1>2. AllOwned /\ Quiet(stack) /\ Quiet(Tail(stack))
  BY <1>1, Owned, QuietStack, TailShape DEF IInv, TypeOK
<1>3. ASSUME DOMAIN runs' = DOMAIN runs,
             \A q \in Runner : q # r => runner'[q] = runner[q]
      PROVE  GoodNext(Tail(stack))
  <2>1. /\ stack \in Seq(Frame) /\ LaunchedOnce(stack) /\ StartUpOnTop(stack)
        /\ FramesOK(stack)
    BY DEF IInv, TypeOK
  <2>2. ASSUME NEW i \in DOMAIN Tail(stack) PROVE FrameOKNext(Tail(stack)[i])
    <3>1. i + 1 \in DOMAIN stack /\ Tail(stack)[i] = stack[i + 1] /\ i + 1 # 1
          /\ 1 \in DOMAIN stack
      BY <1>1, <2>1, TailFacts
    <3>2. stack[i + 1].kind = "launch" => stack[i + 1].runner # r
      BY <1>1, <2>1, <3>1 DEF LaunchedOnce
    <3>3. FrameOK(stack[i + 1]) /\ Plain(stack[i + 1])
      BY <1>2, <2>1, <3>1 DEF FramesOK, Quiet
    <3> QED BY <1>3, <3>1, <3>2, <3>3 DEF FrameOK, FrameOKNext, Plain
  <2> QED BY <1>1, <2>1, <2>2, TailFacts, TailShape DEF GoodNext
<1> HIDE DEF r
<1>4. CASE /\ runner' = [runner EXCEPT ![r].alive = TRUE]
           /\ stack' = Tail(stack)
           /\ UNCHANGED <<disk, queue, pins, doomed>>
  <2>1. /\ runner' \in [Runner -> [busy : BOOLEAN, run : Nat, alive : BOOLEAN,
                                   stopping : BOOLEAN]]
        /\ runner'[r].busy
        /\ \A q \in Runner : q # r => runner'[q] = runner[q]
        /\ \A q \in Runner : /\ runner'[q].busy = runner[q].busy
                             /\ runner'[q].run = runner[q].run
    BY <1>1, <1>4 DEF IInv, TypeOK
  <2>2. UNCHANGED <<runs, approved, auto, queue, pins, doomed>>
    BY <1>4 DEF disk
  <2>3. GoodNext(stack')
    BY <1>3, <1>4, <2>1, <2>2
  <2>4. TypeOK'
    BY <2>1, <2>2, <2>3 DEF IInv, TypeOK, GoodNext
  <2>5. RunnerOwnsRunning'
    BY <1>2, <2>1, <2>2 DEF IInv, RunnerOwnsRunning, AllOwned, HasStatus, RunnerFor
  <2>6. AliveIsBusy' /\ DoomedAreSettled'
    BY <2>1, <2>2 DEF IInv, TypeOK, AliveIsBusy, DoomedAreSettled
  <2>7. FramesOK(stack)' /\ LaunchedOnce(stack)' /\ StartUpOnTop(stack)'
    BY <2>3 DEF GoodNext, FramesOK, FrameOK, FrameOKNext, LaunchedOnce, StartUpOnTop
  <2> QED BY <2>4, <2>5, <2>6, <2>7 DEF IInv
<1>5. CASE /\ Completed(r, "failed", FALSE, Tail(stack))
           /\ UNCHANGED <<approved, auto, queue, pins, doomed>>
  <2>1. /\ DOMAIN runs' = DOMAIN runs
        /\ \A q \in Runner : q # r => runner'[q] = runner[q]
    BY <1>5 DEF Completed, SetStatus, IInv, TypeOK
  <2>2. GoodNext(Tail(stack))
    BY <1>3, <2>1
  <2> QED BY <1>1, <1>2, <1>5, <2>2, CompletedKeeps DEF Finished
<1> QED BY <1>4, <1>5 DEF Launch, disk, r

\* The first idle runner takes a queued run.
LEMMA StartKeeps ==
    ASSUME IInv, InFrame("drain"), NEW id, Start(id),
           UNCHANGED <<approved, auto, doomed>>, queue' \in Seq(Nat)
    PROVE  IInv'
<1>1. /\ id \in DOMAIN runs /\ id \in Nat /\ runs[id].status = "queued"
      /\ id \notin doomed
      /\ ~InFrame("auto") /\ ~InFrame("reload")
  BY DEF Start, HasStatus, IInv, TypeOK, DoomedAreSettled, InFrame
<1>2. AllOwned /\ Quiet(stack)
  BY <1>1, Owned, QuietStack DEF IInv, TypeOK
<1>3. PICK r \in Runner :
          /\ ~runner[r].busy
          /\ runner' = [runner EXCEPT ![r] = [NoRun EXCEPT !.busy = TRUE, !.run = id]]
          /\ stack' = Pumped(Push(Of("launch", r, id), stack))
  BY DEF Start, Idle
<1>4. /\ DOMAIN runs' = DOMAIN runs /\ runs' \in [DOMAIN runs -> Run]
      /\ runs'[id].status = "running"
      /\ \A k \in DOMAIN runs : k # id => runs'[k] = runs[k]
  BY <1>1 DEF Start, SetStatus, IInv, TypeOK, Run, Pending
<1>5. /\ runner' \in [Runner -> [busy : BOOLEAN, run : Nat, alive : BOOLEAN,
                                 stopping : BOOLEAN]]
      /\ runner'[r].busy /\ ~runner'[r].alive /\ runner'[r].run = id
      /\ \A q \in Runner : q # r => runner'[q] = runner[q]
  BY <1>1, <1>3 DEF NoRun, IInv, TypeOK
<1>6. GoodNext(stack')
  <2> DEFINE f == Of("launch", r, id)
  <2>1. GoodNext(stack) /\ stack \in Seq(Frame)
    BY <1>2, <1>4, <1>5, CarryNext DEF GoodNext
  <2>2. /\ f \in Frame /\ Plain(f) /\ f.kind = "launch" /\ f.runner = r
        /\ FrameOKNext(f)
    <3>1. r \in Nat
      BY PoolAssumption DEF Runner
    <3> QED BY <1>1, <1>5, <3>1 DEF Of, F, Frame, FrameKind, Plain, FrameOKNext
  <2>3. \A i \in DOMAIN stack :
            stack[i].kind = "launch" => stack[i].runner # r
    BY <1>3 DEF IInv, FramesOK, FrameOK
  <2> HIDE DEF f
  <2>4. LaunchedOnce(Push(f, stack)) /\ StartUpOnTop(Push(f, stack))
        /\ Quiet(Push(f, stack))
    BY <1>2, <2>1, <2>2, <2>3, PushShape DEF GoodNext
  <2>5. ASSUME NEW i \in DOMAIN Push(f, stack)
        PROVE  FrameOKNext(Push(f, stack)[i])
    <3>1. CASE i = 1
      BY <2>1, <2>2, <3>1, PushFacts
    <3>2. CASE i # 1
      BY <2>1, <2>2, <3>2, PushFacts DEF GoodNext
    <3> QED BY <3>1, <3>2
  <2>6. GoodNext(Push(f, stack))
    BY <2>1, <2>2, <2>4, <2>5, PushFacts DEF GoodNext
  <2> QED BY <1>3, <2>4, <2>6, PumpedNext DEF f
<1>7. TypeOK'
  <2>1. pins' \subseteq Nat
    BY <1>1 DEF Start, IInv, TypeOK
  <2> QED BY <1>4, <1>5, <1>6, <2>1 DEF IInv, TypeOK, GoodNext
<1>8. RunnerOwnsRunning'
  <2>1. \A q \in Runner : q # r /\ runner[q].busy => runner[q].run # id
    BY <1>1 DEF IInv, RunnerOwnsRunning, HasStatus
  <2>2. \A q \in Runner : runner'[q].busy =>
            runner'[q].run \in DOMAIN runs' /\ runs'[runner'[q].run].status = "running"
    BY <1>1, <1>4, <1>5, <2>1 DEF IInv, RunnerOwnsRunning, HasStatus
  <2>3. ASSUME NEW k \in DOMAIN runs', runs'[k].status = "running"
        PROVE  \E q \in Runner : runner'[q].busy /\ runner'[q].run = k
    <3>1. CASE k = id
      BY <1>5, <3>1
    <3>2. CASE k # id
      <4>1. PICK q \in Runner : runner[q].busy /\ runner[q].run = k
        BY <1>2, <1>4, <2>3, <3>2 DEF AllOwned, RunnerFor
      <4> QED BY <1>3, <1>5, <4>1
    <3> QED BY <3>1, <3>2
  <2>4. \A p, q \in Runner : runner'[p].busy /\ runner'[q].busy /\ p # q
                             => runner'[p].run # runner'[q].run
    BY <1>5, <2>1 DEF IInv, RunnerOwnsRunning
  <2> QED BY <2>2, <2>3, <2>4 DEF RunnerOwnsRunning, RunnerFor, HasStatus
<1>9. AliveIsBusy' /\ DoomedAreSettled'
  BY <1>1, <1>4, <1>5 DEF IInv, TypeOK, AliveIsBusy, DoomedAreSettled
<1>10. FramesOK(stack)' /\ LaunchedOnce(stack)' /\ StartUpOnTop(stack)'
  BY <1>6 DEF GoodNext, FramesOK, FrameOK, FrameOKNext, LaunchedOnce, StartUpOnTop
<1> QED BY <1>7, <1>8, <1>9, <1>10 DEF IInv

LEMMA DrainKeeps ==
    ASSUME IInv, DrainStep
    PROVE  IInv'
<1>1. PICK i \in DOMAIN queue :
          queue' = DropAt(queue, i) /\ (Refuse(queue[i]) \/ Start(queue[i]))
  BY DEF DrainStep
<1>2. queue' \in Seq(Nat)
  BY <1>1 DEF DropAt, IInv, TypeOK
<1>3. ~InFrame("auto") /\ ~InFrame("reload")
  BY DEF DrainStep, InFrame
<1>4. AllOwned /\ Quiet(stack)
  BY <1>3, Owned, QuietStack DEF IInv, TypeOK
<1> DEFINE id == queue[i]
<1>5. CASE Start(id)
  BY <1>2, <1>5, StartKeeps DEF DrainStep
<1>6. CASE Refuse(id) /\ UNCHANGED runs
  BY <1>2, <1>3, <1>6, QuietStep, CallStep DEF Refuse, DrainStep, IInv, TypeOK
<1>7. CASE /\ HasStatus(id, {"queued"})
           /\ \E s \in {"skipped", "failed", "awaiting-approval"} :
                 runs' = SetStatus(id, s)
           /\ UNCHANGED <<runner, pins, stack>>
  <2>1. DOMAIN runs' = DOMAIN runs
    BY <1>7 DEF SetStatus
  <2>2. GoodNext(stack')
    BY <1>4, <1>7, <2>1, CarryNext
  <2> QED BY <1>2, <1>4, <1>7, <2>2, SettleKeeps
          DEF DrainStep, HasStatus, IInv, TypeOK, Pending, Finished
<1> QED BY <1>1, <1>5, <1>6, <1>7 DEF Refuse

-----------------------------------------------------------------------------
(* Automatic approval.                                                     *)

LEMMA SetAutoApproveKeeps ==
    ASSUME IInv, NEW p \in Repo, SetAutoApprove(p)
    PROVE  IInv'
<1>1. /\ ~InFrame("auto") /\ ~InFrame("reload") /\ stack = <<>> /\ doomed = {}
      /\ UNCHANGED <<runs, approved, queue, runner, pins, doomed>>
  BY DEF SetAutoApprove, UserTurn, InFrame
<1>2. AllOwned /\ GoodNext(stack)
  BY <1>1, QuietStep
<1>3. GoodNext(stack')
  <2>1. CASE UNCHANGED stack
    BY <1>2, <2>1
  <2> DEFINE S == {k \in DOMAIN runs : /\ RepoOf[runs[k].workflow] = p
                                       /\ runs[k].status = "awaiting-approval"}
             f == Each("auto", S)
  <2>2. CASE stack' = <<f>>
    <3>1. f \in Frame /\ f.kind = "auto" /\ f.ids = S
      <4>1. S \subseteq Nat
        BY DEF IInv, TypeOK
      <4> HIDE DEF S
      <4> QED BY <4>1 DEF Each, F, Frame, FrameKind
    <3>2. FrameOKNext(f)
      BY <1>1, <3>1 DEF FrameOKNext
    <3> HIDE DEF f
    <3> QED BY <2>2, <3>1, <3>2 DEF GoodNext, LaunchedOnce, StartUpOnTop
  <2> QED BY <2>1, <2>2 DEF SetAutoApprove
<1>4. auto' \subseteq Repo
  BY DEF SetAutoApprove, IInv, TypeOK
<1> QED BY <1>1, <1>2, <1>3, <1>4, CallStep DEF IInv, TypeOK

\* When autoApproveAwaitingRuns runs, it is alone with plain handlers under it.
LEMMA AutoOnTop ==
    ASSUME IInv, InFrame("auto")
    PROVE  /\ stack # <<>> /\ Top \in Frame /\ Top = stack[1] /\ FrameOK(Top)
           /\ ~InFrame("reload") /\ AllOwned /\ Quiet(Tail(stack))
<1>1. /\ stack # <<>> /\ Top \in Frame /\ Top = stack[1] /\ FrameOK(Top)
      /\ Top.kind = "auto"
  BY TailFacts DEF InFrame, IInv, TypeOK, FramesOK, Top
<1>2. Quiet(Tail(stack))
  <2> SUFFICES ASSUME NEW i \in DOMAIN Tail(stack) PROVE Plain(Tail(stack)[i])
    BY DEF Quiet
  <2>1. i + 1 \in DOMAIN stack /\ Tail(stack)[i] = stack[i + 1] /\ 1 \in 1..i /\ i # 0
    BY <1>1, TailFacts DEF IInv, TypeOK
  <2> QED BY <1>1, <2>1 DEF IInv, StartUpOnTop, Plain
<1> QED BY <1>1, <1>2, Owned DEF InFrame

LEMMA AutoKeeps ==
    ASSUME IInv, AutoStep
    PROVE  IInv'
<1>1. /\ stack # <<>> /\ Top \in Frame /\ Top = stack[1] /\ FrameOK(Top)
      /\ Top.kind = "auto" /\ Top.ids # {} /\ AllOwned /\ Quiet(Tail(stack))
  BY AutoOnTop DEF AutoStep, InFrame
<1> DEFINE id == Largest(Top.ids)
<1>2. /\ id \in Top.ids /\ id \in DOMAIN runs /\ id \in Nat /\ doomed = {}
      /\ runs[id].status = "awaiting-approval"
      /\ Top.ids \subseteq DOMAIN runs
      /\ \A k \in Top.ids : runs[k].status = "awaiting-approval"
  <2>1. Top.ids \in SUBSET (1..MaxId)
    BY <1>1 DEF FrameOK, IInv, TypeOK
  <2>2. id \in Top.ids
    BY <1>1, <2>1, LargestIsIn, ModeAssumption
  <2> HIDE DEF id
  <2> QED BY <1>1, <2>1, <2>2 DEF FrameOK, IInv, TypeOK
<1> HIDE DEF id
<1>3. ASSUME NEW f \in Frame, f.kind = "auto", f.ids = Top.ids \ {id},
             DOMAIN runs' = DOMAIN runs, UNCHANGED <<runner, doomed>>,
             \A k \in DOMAIN runs : k # id => runs'[k] = runs[k]
      PROVE  GoodNext(Push(f, Tail(stack)))
  <2>1. /\ stack \in Seq(Frame) /\ LaunchedOnce(stack) /\ StartUpOnTop(stack)
        /\ FramesOK(stack)
    BY DEF IInv, TypeOK
  <2>2. Tail(stack) \in Seq(Frame) /\ LaunchedOnce(Tail(stack))
    BY <1>1, <2>1, TailFacts, TailShape
  <2>3. ASSUME NEW i \in DOMAIN Tail(stack) PROVE FrameOKNext(Tail(stack)[i])
    <3>1. i + 1 \in DOMAIN stack /\ Tail(stack)[i] = stack[i + 1]
      BY <1>1, <2>1, TailFacts
    <3>2. FrameOK(Tail(stack)[i]) /\ Plain(Tail(stack)[i])
      BY <1>1, <2>1, <3>1 DEF FramesOK, Quiet
    <3> QED BY <1>3, <3>2 DEF FrameOK, FrameOKNext, Plain
  <2>4. FrameOKNext(f)
    BY <1>2, <1>3 DEF FrameOKNext
  <2>5. ASSUME NEW i \in DOMAIN Push(f, Tail(stack))
        PROVE  FrameOKNext(Push(f, Tail(stack))[i])
    <3>1. CASE i = 1
      BY <2>2, <2>4, <3>1, PushFacts
    <3>2. CASE i # 1
      <4>1. i - 1 \in DOMAIN Tail(stack) /\ Push(f, Tail(stack))[i] = Tail(stack)[i - 1]
        BY <2>2, <3>2, PushFacts
      <4> QED BY <2>3, <4>1
    <3> QED BY <3>1, <3>2
  <2> QED BY <1>1, <1>3, <2>2, <2>5, PushFacts, PushShape DEF GoodNext
<1>4. CASE /\ approved' = [approved EXCEPT ![runs[id].workflow] = runs[id].commit]
           /\ runs' = SetStatus(id, "queued")
           /\ queue' = IF \E i \in DOMAIN queue : queue[i] = id
                       THEN queue ELSE Append(queue, id)
           /\ stack' = Push([Top EXCEPT !.ids = @ \ {id}, !.flag = TRUE], Tail(stack))
           /\ UNCHANGED <<auto, runner, pins, doomed>>
  <2>1. /\ DOMAIN runs' = DOMAIN runs
        /\ \A k \in DOMAIN runs : k # id => runs'[k] = runs[k]
    BY <1>4 DEF SetStatus
  <2>2. GoodNext(stack')
    <3>1. [Top EXCEPT !.ids = @ \ {id}, !.flag = TRUE] \in Frame
      BY <1>1 DEF Frame
    <3> QED BY <1>1, <1>3, <1>4, <2>1, <3>1 DEF Frame
  <2>3. approved' \in [Workflow -> Commit \cup {None}] /\ queue' \in Seq(Nat)
    BY <1>2, <1>4 DEF IInv, TypeOK, Run
  <2> QED BY <1>1, <1>2, <1>4, <2>2, <2>3, SettleKeeps DEF Pending
<1>5. CASE /\ stack' = Push([Top EXCEPT !.ids = @ \ {id}], Tail(stack))
           /\ UNCHANGED <<runs, approved, auto, queue, runner, pins, doomed>>
  <2>1. [Top EXCEPT !.ids = @ \ {id}] \in Frame
    BY <1>1 DEF Frame
  <2>2. GoodNext(stack')
    BY <1>1, <1>3, <1>5, <2>1 DEF Frame
  <2> QED BY <1>1, <1>5, <2>2, CallStep DEF IInv, TypeOK
<1>6. [[Top EXCEPT !.ids = @ \ {id}] EXCEPT !.flag = TRUE]
          = [Top EXCEPT !.ids = @ \ {id}, !.flag = TRUE]
  BY <1>1 DEF Frame
<1> QED BY <1>4, <1>5, <1>6 DEF AutoStep, id

LEMMA AutoEndsKeeps ==
    ASSUME IInv, AutoEnds
    PROVE  IInv'
<1>1. stack # <<>> /\ AllOwned /\ Quiet(Tail(stack))
  BY AutoOnTop DEF AutoEnds
<1>2. UNCHANGED <<runs, approved, auto, queue, runner, pins, doomed>>
  BY DEF AutoEnds, disk
<1>3. GoodNext(Tail(stack))
  <2>1. GoodNext(stack)
    BY <1>2 DEF GoodNext, IInv, TypeOK, FramesOK, FrameOK, FrameOKNext
  <2> QED BY <1>1, <2>1, PopNext
<1>4. GoodNext(stack')
  BY <1>1, <1>3, SimpleFrames, SimpleCallNext DEF AutoEnds
<1> QED BY <1>1, <1>2, <1>4, CallStep DEF IInv, TypeOK

-----------------------------------------------------------------------------
(* Start-up.                                                               *)

LEMMA RestartKeeps ==
    ASSUME IInv, Restart
    PROVE  IInv'
<1> DEFINE A == {k \in DOMAIN runs : /\ RepoOf[runs[k].workflow] \in auto
                                     /\ runs[k].status = "awaiting-approval"}
           f == Each("reload", DOMAIN runs)
           g == Each("auto", A)
<1>1. /\ UNCHANGED <<runs, approved, auto>>
      /\ runner' = [r \in Runner |-> NoRun] /\ queue' = <<>> /\ pins' = {}
      /\ doomed' = {} /\ stack' = <<f, g, Drain>>
  BY DEF Restart, disk
<1>2. /\ f \in Frame /\ f.kind = "reload" /\ f.ids = DOMAIN runs
      /\ g \in Frame /\ g.kind = "auto" /\ g.ids = A
      /\ SimpleFrame(Drain) /\ Drain.kind = "drain"
  <2>1. DOMAIN runs \subseteq Nat /\ A \subseteq Nat
    BY DEF IInv, TypeOK
  <2> HIDE DEF A
  <2> QED BY <2>1, SimpleFrames DEF Each, F, Frame, FrameKind, Drain
<1>3. FrameOKNext(f) /\ FrameOKNext(g) /\ FrameOKNext(Drain)
  BY <1>1, <1>2 DEF FrameOKNext, NoRun, SimpleFrame
<1> HIDE DEF f, g
<1>4. GoodNext(stack')
  BY <1>1, <1>2, <1>3 DEF GoodNext, LaunchedOnce, StartUpOnTop, SimpleFrame
<1>5. TypeOK'
  BY <1>1, <1>4 DEF IInv, TypeOK, GoodNext, NoRun
<1>6. RunnerOwnsRunning'
  <2>1. stack' # <<>> /\ Head(stack') = f
    BY <1>1
  <2>2. InFrame("reload")' /\ Top'.ids = DOMAIN runs'
    BY <1>1, <1>2, <2>1 DEF InFrame, Top
  <2> QED BY <1>1, <2>2 DEF RunnerOwnsRunning, NoRun
<1>7. AliveIsBusy' /\ DoomedAreSettled'
  BY <1>1 DEF AliveIsBusy, DoomedAreSettled, NoRun
<1>8. FramesOK(stack)' /\ LaunchedOnce(stack)' /\ StartUpOnTop(stack)'
  BY <1>4 DEF GoodNext, FramesOK, FrameOK, FrameOKNext, LaunchedOnce, StartUpOnTop
<1> QED BY <1>5, <1>6, <1>7, <1>8 DEF IInv

LEMMA ReloadOnTop ==
    ASSUME IInv, InFrame("reload")
    PROVE  /\ stack # <<>> /\ Top \in Frame /\ Top = stack[1] /\ FrameOK(Top)
           /\ Top.kind = "reload"
           /\ \A i \in DOMAIN Tail(stack) : Tail(stack)[i].kind # "reload"
<1>1. /\ stack # <<>> /\ Top \in Frame /\ Top = stack[1] /\ FrameOK(Top)
      /\ Top.kind = "reload"
  BY TailFacts DEF InFrame, IInv, TypeOK, FramesOK, Top
<1>2. ASSUME NEW i \in DOMAIN Tail(stack) PROVE Tail(stack)[i].kind # "reload"
  <2>1. i + 1 \in DOMAIN stack /\ Tail(stack)[i] = stack[i + 1] /\ i # 0
    BY <1>1, TailFacts DEF IInv, TypeOK
  <2> QED BY <2>1 DEF IInv, StartUpOnTop
<1> QED BY <1>1, <1>2

LEMMA ReloadEndsKeeps ==
    ASSUME IInv, ReloadEnds
    PROVE  IInv'
<1>1. stack # <<>> /\ AllOwned
  BY ReloadOnTop DEF ReloadEnds, IInv, RunnerOwnsRunning, AllOwned
<1>2. /\ UNCHANGED <<runs, approved, auto, queue, runner, pins, doomed>>
      /\ stack' = Tail(stack)
  BY DEF ReloadEnds, disk
<1>3. GoodNext(stack')
  <2>1. GoodNext(stack)
    BY <1>2 DEF GoodNext, IInv, TypeOK, FramesOK, FrameOK, FrameOKNext
  <2> QED BY <1>1, <1>2, <2>1, PopNext
<1> QED BY <1>1, <1>2, <1>3, CallStep DEF IInv, TypeOK

LEMMA ReloadKeeps ==
    ASSUME IInv, ReloadStep
    PROVE  IInv'
<1>1. /\ stack # <<>> /\ Top \in Frame /\ Top = stack[1] /\ FrameOK(Top)
      /\ Top.kind = "reload" /\ Top.ids # {}
      /\ \A i \in DOMAIN Tail(stack) : Tail(stack)[i].kind # "reload"
  BY ReloadOnTop DEF ReloadStep
<1> DEFINE id == Largest(Top.ids)
           f == [Top EXCEPT !.ids = @ \ {id}]
<1>2. /\ id \in Top.ids /\ id \in DOMAIN runs /\ id \in Nat
      /\ \A r \in Runner : ~runner[r].busy
  <2>1. Top.ids \in SUBSET (1..MaxId)
    BY <1>1 DEF FrameOK, IInv, TypeOK
  <2>2. id \in Top.ids
    BY <1>1, <2>1, LargestIsIn, ModeAssumption
  <2> HIDE DEF id
  <2> QED BY <1>1, <2>1, <2>2 DEF FrameOK, IInv, TypeOK
<1>3. /\ runs' = IF runs[id].status = "running" THEN SetStatus(id, "failed") ELSE runs
      /\ queue' = IF runs[id].status = "queued" THEN Append(queue, id) ELSE queue
      /\ stack' = Push(f, Tail(stack))
      /\ UNCHANGED <<approved, auto, runner, pins, doomed>>
  BY DEF ReloadStep
<1>4. f \in Frame /\ f.kind = "reload" /\ f.ids = Top.ids \ {id}
  BY <1>1 DEF Frame
<1> HIDE DEF id, f
<1>5. /\ DOMAIN runs' = DOMAIN runs /\ runs' \in [DOMAIN runs -> Run]
      /\ runs'[id].status # "running"
      /\ \A k \in DOMAIN runs :
            runs[k].status # "running" \/ k # id => runs'[k] = runs[k]
      /\ runs[id].status = "running" => runs'[id].status = "failed"
  BY <1>2, <1>3 DEF SetStatus, IInv, TypeOK, Run, Finished
<1>6. GoodNext(stack')
  <2>1. /\ stack \in Seq(Frame) /\ LaunchedOnce(stack) /\ StartUpOnTop(stack)
        /\ FramesOK(stack)
    BY DEF IInv, TypeOK
  <2>2. /\ stack' \in Seq(Frame) /\ DOMAIN stack' = DOMAIN stack
        /\ stack'[1] = f /\ 1 \in DOMAIN stack
        /\ \A i \in DOMAIN stack : i # 1 => stack'[i] = stack[i]
    <3>1. /\ Tail(stack) \in Seq(Frame) /\ DOMAIN Tail(stack) = 1..(Len(stack) - 1)
          /\ \A i \in DOMAIN Tail(stack) : Tail(stack)[i] = stack[i + 1]
          /\ Len(Tail(stack)) = Len(stack) - 1
      BY <1>1, <2>1, TailFacts
    <3>2. /\ Push(f, Tail(stack)) \in Seq(Frame)
          /\ DOMAIN Push(f, Tail(stack)) = 1..(Len(Tail(stack)) + 1)
          /\ Push(f, Tail(stack))[1] = f
          /\ \A i \in DOMAIN Push(f, Tail(stack)) :
                i # 1 => i - 1 \in DOMAIN Tail(stack)
                         /\ Push(f, Tail(stack))[i] = Tail(stack)[i - 1]
      BY <1>4, <3>1, PushFacts
    <3> QED BY <1>1, <1>3, <2>1, <3>1, <3>2
  <2>3. FrameOKNext(f)
    BY <1>1, <1>2, <1>3, <1>4, <1>5 DEF FrameOK, FrameOKNext
  <2>4. ASSUME NEW i \in DOMAIN stack, i # 1 PROVE FrameOKNext(stack[i])
    <3>1. FrameOK(stack[i])
      BY <2>1 DEF FramesOK
    <3> QED BY <1>2, <1>3, <1>5, <3>1 DEF FrameOK, FrameOKNext
  <2>5. LaunchedOnce(stack') /\ StartUpOnTop(stack')
    BY <1>1, <1>4, <2>1, <2>2 DEF LaunchedOnce, StartUpOnTop
  <2> QED BY <2>2, <2>3, <2>4, <2>5 DEF GoodNext
<1>7. TypeOK'
  BY <1>2, <1>3, <1>5, <1>6 DEF IInv, TypeOK, GoodNext
<1>8. RunnerOwnsRunning'
  <2>1. \A k \in DOMAIN runs : runs[k].status = "running" => k \in Top.ids
    BY <1>2 DEF IInv, RunnerOwnsRunning, RunnerFor
  <2>2. InFrame("reload")' /\ Top'.ids = Top.ids \ {id}
    <3>1. stack' # <<>> /\ Head(stack') = f
      BY <1>1, <1>3, <1>4, PushFacts, TailFacts DEF IInv, TypeOK
    <3> QED BY <1>4, <3>1 DEF InFrame, Top
  <2> QED BY <1>2, <1>3, <1>5, <2>1, <2>2 DEF RunnerOwnsRunning
<1>9. AliveIsBusy' /\ DoomedAreSettled'
  BY <1>3, <1>5 DEF IInv, TypeOK, AliveIsBusy, DoomedAreSettled
<1>10. FramesOK(stack)' /\ LaunchedOnce(stack)' /\ StartUpOnTop(stack)'
  BY <1>6 DEF GoodNext, FramesOK, FrameOK, FrameOKNext, LaunchedOnce, StartUpOnTop
<1> QED BY <1>7, <1>8, <1>9, <1>10 DEF IInv

-----------------------------------------------------------------------------
(* Clearing the list of runs.                                              *)

LEMMA AskKeeps ==
    ASSUME IInv, NEW ws, AskClear(ws)
    PROVE  IInv'
<1>1. /\ stack = <<>> /\ ~InFrame("reload")
      /\ UNCHANGED <<runs, approved, auto, queue, runner, pins, stack>>
      /\ doomed' = Clearable(ws)
  BY DEF AskClear, UserTurn, InFrame, disk
<1>2. TypeOK'
  BY <1>1 DEF IInv, TypeOK, Clearable
<1>3. RunnerOwnsRunning'
  BY <1>1, Owned DEF IInv, RunnerOwnsRunning, AllOwned, HasStatus, RunnerFor
<1>4. AliveIsBusy' /\ DoomedAreSettled'
  BY <1>1 DEF IInv, AliveIsBusy, DoomedAreSettled, Clearable
<1>5. FramesOK(stack)' /\ LaunchedOnce(stack)' /\ StartUpOnTop(stack)'
  BY <1>1 DEF FramesOK, LaunchedOnce, StartUpOnTop
<1> QED BY <1>2, <1>3, <1>4, <1>5 DEF IInv

LEMMA AnswerKeeps ==
    ASSUME IInv, NEW yes \in BOOLEAN, AnswerClear(yes)
    PROVE  IInv'
<1>1. /\ stack = <<>> /\ ~InFrame("reload") /\ doomed' = {}
      /\ UNCHANGED <<approved, auto, queue, runner, pins, stack>>
      /\ runs' = IF yes THEN [k \in DOMAIN runs \ doomed |-> runs[k]] ELSE runs
  BY DEF AnswerClear, EventTurn, InFrame
<1>2. /\ DOMAIN runs' \subseteq DOMAIN runs
      /\ runs' \in [DOMAIN runs' -> Run]
      /\ \A k \in DOMAIN runs' : runs'[k] = runs[k]
      /\ \A k \in DOMAIN runs : runs[k].status = "running" => k \in DOMAIN runs'
  BY <1>1 DEF IInv, TypeOK, DoomedAreSettled
<1>3. TypeOK'
  BY <1>1, <1>2 DEF IInv, TypeOK
<1>4. RunnerOwnsRunning'
  BY <1>1, <1>2, Owned DEF IInv, RunnerOwnsRunning, AllOwned, HasStatus, RunnerFor
<1>5. AliveIsBusy' /\ DoomedAreSettled'
  BY <1>1 DEF IInv, AliveIsBusy, DoomedAreSettled
<1>6. FramesOK(stack)' /\ LaunchedOnce(stack)' /\ StartUpOnTop(stack)'
  BY <1>1 DEF FramesOK, LaunchedOnce, StartUpOnTop
<1> QED BY <1>3, <1>4, <1>5, <1>6 DEF IInv

-----------------------------------------------------------------------------
(* The invariant is inductive.                                             *)

LEMMA InitIInv == Init => IInv
<1> SUFFICES ASSUME Init PROVE IInv
  OBVIOUS
<1>1. stack = <<>> /\ DOMAIN runs = {} /\ runs = [k \in {} |-> NoRun]
  BY DEF Init
<1>2. TypeOK
  BY <1>1, ModeAssumption DEF Init, TypeOK, NoRun, Runner
<1>3. RunnerOwnsRunning /\ AliveIsBusy
  BY <1>1 DEF Init, RunnerOwnsRunning, AliveIsBusy, NoRun
<1>4. FramesOK(stack) /\ LaunchedOnce(stack) /\ StartUpOnTop(stack)
  BY <1>1 DEF FramesOK, LaunchedOnce, StartUpOnTop
<1>5. DoomedAreSettled
  BY DEF Init, DoomedAreSettled
<1> QED BY <1>2, <1>3, <1>4, <1>5 DEF IInv

LEMMA StutterKeeps ==
    ASSUME IInv, UNCHANGED vars
    PROVE  IInv'
<1> USE DEF vars
<1>1. TypeOK' /\ AliveIsBusy' /\ DoomedAreSettled'
  BY DEF IInv, TypeOK, AliveIsBusy, DoomedAreSettled
<1>2. RunnerOwnsRunning'
  BY DEF IInv, RunnerOwnsRunning, HasStatus, RunnerFor, InFrame, Top
<1>3. FramesOK(stack)' /\ LaunchedOnce(stack)' /\ StartUpOnTop(stack)'
  BY DEF IInv, FramesOK, FrameOK, LaunchedOnce, StartUpOnTop
<1> QED BY <1>1, <1>2, <1>3 DEF IInv

\* One case for each action of Next.
LEMMA NextIInv ==
    ASSUME IInv, [Next]_vars
    PROVE  IInv'
<1>1. CASE Handler
  BY <1>1, EndsKeep, ScanKeeps, SupersedeKeeps, AutoKeeps, AutoEndsKeeps,
     ReloadKeeps, ReloadEndsKeeps, DrainKeeps, LaunchKeeps DEF Handler
<1>2. CASE Command
  <2>1. ASSUME NEW id \in DOMAIN runs,
               Rerun(id) \/ Approve(id) \/ Reject(id) \/ Stop(id) \/ Skip(id)
        PROVE  IInv'
    BY <2>1, RunCommandsKeep, ApproveKeeps, RejectSkipStopKeep
  <2>2. ASSUME \E c \in Commit : \E w \in At[c] : RunManually(w, c) PROVE IInv'
    BY <2>2, RunCommandsKeep
  <2>3. ASSUME NEW p \in Repo, SetAutoApprove(p) PROVE IInv'
    BY <2>3, SetAutoApproveKeeps
  <2>4. ASSUME NEW ws, AskClear(ws) PROVE IInv'
    BY <2>4, AskKeeps
  <2> QED BY <1>2, <2>1, <2>2, <2>3, <2>4 DEF Command
<1>3. CASE \E yes \in BOOLEAN : AnswerClear(yes)
  BY <1>3, AnswerKeeps
<1>4. CASE (\E c \in Commit : ScanArrives(c)) \/ Poll
  BY <1>4, ArrivalsKeep
<1>5. CASE \E r \in Runner : RunnerExits(r)
  BY <1>5, RunnerExitsKeeps
<1>6. CASE Restart
  BY <1>6, RestartKeeps
<1>7. CASE UNCHANGED vars
  BY <1>7, StutterKeeps
<1> QED BY <1>1, <1>2, <1>3, <1>4, <1>5, <1>6, <1>7 DEF Next

\* IInv holds in every reachable state.
THEOREM IInvInvariant == Spec => []IInv
<1>1. IInv /\ [Next]_vars => IInv'
  BY NextIInv
<1> QED BY InitIInv, <1>1, PTL DEF Spec

\* Type correctness: no handler, nested or not, leaves a variable with a value
\* that the code cannot hold.
THEOREM TypeCorrect == Spec => []TypeOK
<1>1. IInv => TypeOK
  BY DEF IInv
<1> QED BY IInvInvariant, <1>1, PTL

\* A run is recorded as running exactly while one runner of the pool is busy
\* with it, whatever handlers nest and wherever the process dies.
THEOREM RunningIsOwned == Spec => []RunnerOwnsRunning
<1>1. IInv => RunnerOwnsRunning
  BY DEF IInv
<1> QED BY IInvInvariant, <1>1, PTL

-----------------------------------------------------------------------------
(* What a step does to the records.                                        *)

\* Nothing, a new status for one unsettled record, a new record, or the
\* deletion of the records the open question listed.
RecordStep ==
    \/ UNCHANGED runs
    \/ \E k \in DOMAIN runs, s \in Pending \cup Finished :
          runs[k].status \notin Finished /\ runs' = SetStatus(k, s)
    \/ \E r \in Run : runs' = Put(NextId, r)
    \/ runs' = [k \in DOMAIN runs \ doomed |-> runs[k]]

LEMMA CreateIsRecordStep ==
    ASSUME NEW w \in Workflow, NEW c \in Commit, NEW rest, CreateRun(w, c, rest)
    PROVE  RecordStep
BY DEF CreateRun, RecordStep, Run, Pending

LEMMA CompletedIsRecordStep ==
    ASSUME IInv, NEW r \in Runner, runner[r].busy, NEW s \in Finished,
           NEW landed, NEW rest, Completed(r, s, landed, rest)
    PROVE  RecordStep
<1>1. runner[r].run \in DOMAIN runs /\ runs[runner[r].run].status = "running"
  BY DEF IInv, RunnerOwnsRunning, HasStatus
<1> QED BY <1>1 DEF Completed, RecordStep, Finished

LEMMA HandlerIsRecordStep ==
    ASSUME IInv, Handler
    PROVE  RecordStep
<1>1. CASE ScanStep
  <2>1. CASE UNCHANGED runs
    BY <2>1 DEF RecordStep
  <2>2. ASSUME NEW rest,
               CreateRun(FirstPath(Top.workflows), Top.commit, rest)
        PROVE  RecordStep
    <3>1. /\ Top.workflows \in SUBSET Workflow /\ Top.workflows # {}
          /\ Top.commit \in Commit
      <4>1. Top \in Frame /\ FrameOK(Top) /\ Top.kind = "scan" /\ Top.workflows # {}
        BY <1>1, TailFacts DEF ScanStep, InFrame, Top, IInv, TypeOK, FramesOK
      <4> QED BY <4>1 DEF Frame, FrameOK
    <3> QED BY <2>2, <3>1, FirstPathIsIn, CreateIsRecordStep
  <2> QED BY <1>1, <2>1, <2>2 DEF ScanStep, disk
<1>2. CASE SupersedeStep
  BY <1>2 DEF SupersedeStep, RecordStep, HasStatus, Finished
<1>3. CASE AutoStep
  <2>1. CASE UNCHANGED runs
    BY <2>1 DEF RecordStep
  <2>2. CASE runs' = SetStatus(Largest(Top.ids), "queued")
    <3>1. FrameOK(Top) /\ Top.kind = "auto" /\ Top.ids # {}
      BY <1>3, AutoOnTop DEF AutoStep, InFrame
    <3>2. Top.ids \in SUBSET (1..MaxId)
      BY <3>1 DEF FrameOK, IInv, TypeOK
    <3>3. Largest(Top.ids) \in Top.ids
      BY <3>1, <3>2, LargestIsIn, ModeAssumption
    <3> QED BY <2>2, <3>1, <3>3 DEF FrameOK, RecordStep, Pending, Finished
  <2> QED BY <1>3, <2>1, <2>2 DEF AutoStep
<1>4. CASE ReloadStep
  <2>1. CASE UNCHANGED runs
    BY <2>1 DEF RecordStep
  <2>2. CASE /\ runs[Largest(Top.ids)].status = "running"
             /\ runs' = SetStatus(Largest(Top.ids), "failed")
    <3>1. FrameOK(Top) /\ Top.ids # {}
      BY <1>4, ReloadOnTop DEF ReloadStep
    <3>2. Top.ids \in SUBSET (1..MaxId)
      BY <3>1 DEF FrameOK, IInv, TypeOK
    <3>3. Largest(Top.ids) \in Top.ids
      BY <3>1, <3>2, LargestIsIn, ModeAssumption
    <3> QED BY <2>2, <3>1, <3>3 DEF FrameOK, RecordStep, Finished
  <2> QED BY <1>4, <2>1, <2>2 DEF ReloadStep
<1>5. CASE DrainStep
  BY <1>5 DEF DrainStep, Refuse, Start, HasStatus, RecordStep, Pending, Finished
<1>6. CASE Launch
  <2>1. Top.runner \in Runner /\ runner[Top.runner].busy
    BY <1>6, TailFacts DEF Launch, InFrame, Top, IInv, TypeOK, FramesOK, FrameOK
  <2>2. CASE Completed(Top.runner, "failed", FALSE, Tail(stack))
    BY <2>1, <2>2, CompletedIsRecordStep DEF Finished
  <2>3. CASE UNCHANGED runs
    BY <2>3 DEF RecordStep
  <2> QED BY <1>6, <2>2, <2>3 DEF Launch
<1>7. CASE UNCHANGED runs
  BY <1>7 DEF RecordStep
<1> QED BY <1>1, <1>2, <1>3, <1>4, <1>5, <1>6, <1>7
        DEF Handler, ScanEnds, SupersedeEnds, AutoEnds, ReloadEnds, DrainEnds,
            EmitFinished, EmitLanded, WaitTimesOut, PumpEnds, disk

LEMMA NextIsRecordStep ==
    ASSUME IInv, [Next]_vars
    PROVE  RecordStep
<1>1. CASE Handler
  BY <1>1, HandlerIsRecordStep
<1>2. CASE Command
  <2>1. ASSUME NEW id \in DOMAIN runs, Rerun(id) PROVE RecordStep
    BY <2>1, CreateIsRecordStep DEF Rerun, IInv, TypeOK, Run
  <2>2. ASSUME NEW id \in DOMAIN runs, Approve(id) \/ Reject(id) \/ Stop(id) \/ Skip(id)
        PROVE  RecordStep
    BY <2>2 DEF Approve, Reject, Stop, Skip, HasStatus, RecordStep, Pending, Finished
  <2>3. ASSUME NEW c \in Commit, NEW w \in At[c], RunManually(w, c) PROVE RecordStep
    BY <2>3, CreateIsRecordStep, CommitAssumption DEF RunManually
  <2>4. ASSUME NEW p, SetAutoApprove(p) \/ AskClear(p) PROVE RecordStep
    BY <2>4 DEF SetAutoApprove, AskClear, RecordStep, disk
  <2> QED BY <1>2, <2>1, <2>2, <2>3, <2>4 DEF Command
<1>3. CASE \E yes \in BOOLEAN : AnswerClear(yes)
  BY <1>3 DEF AnswerClear, RecordStep
<1>4. CASE \E r \in Runner : RunnerExits(r)
  <2>1. PICK r \in Runner : RunnerExits(r)
    BY <1>4
  <2>2. runner[r].busy
    BY <2>1 DEF RunnerExits, IInv, AliveIsBusy
  <2>3. \E s \in Finished, landed \in BOOLEAN : \E rest : Completed(r, s, landed, rest)
    BY <2>1 DEF RunnerExits, Finished
  <2> QED BY <2>2, <2>3, CompletedIsRecordStep
<1>5. CASE UNCHANGED runs
  BY <1>5 DEF RecordStep
<1> QED BY <1>1, <1>2, <1>3, <1>4, <1>5
        DEF Next, ScanArrives, Poll, Restart, vars, disk

\* A settled run keeps its outcome for as long as its record exists.
THEOREM OutcomeIsFinal == Spec => SettledStaysSettled
<1>1. ASSUME IInv, [Next]_vars
      PROVE  \A id \in DOMAIN runs \cap DOMAIN runs' :
                 runs[id].status \in Finished => runs'[id] = runs[id]
  <2>1. RecordStep
    BY <1>1, NextIsRecordStep
  <2>2. NextId \notin DOMAIN runs
    BY <1>1, NextIdIsNew DEF IInv, TypeOK
  <2> QED BY <1>1, <2>1, <2>2 DEF RecordStep, SetStatus, Put
<1>2. IInv /\ [Next]_vars => [\A id \in DOMAIN runs \cap DOMAIN runs' :
          runs[id].status \in Finished => runs'[id] = runs[id]]_vars
  BY <1>1
<1> QED BY <1>2, IInvInvariant, PTL DEF Spec, SettledStaysSettled

\* "Clear runs" never deletes the record of a queued or a running run, however
\* long its question stays open and whatever happens meanwhile.
THEOREM ClearIsSafe == Spec => ClearSparesLiveRuns
<1>1. ASSUME IInv, [Next]_vars
      PROVE  \A id \in DOMAIN runs \ DOMAIN runs' :
                 runs[id].status \notin {"queued", "running"}
  <2>1. RecordStep
    BY <1>1, NextIsRecordStep
  <2> QED BY <1>1, <2>1
          DEF RecordStep, SetStatus, Put, IInv, TypeOK, DoomedAreSettled
<1>2. IInv /\ [Next]_vars => [\A id \in DOMAIN runs \ DOMAIN runs' :
          runs[id].status \notin {"queued", "running"}]_vars
  BY <1>1
<1> QED BY <1>2, IInvInvariant, PTL DEF Spec, ClearSparesLiveRuns
=============================================================================
