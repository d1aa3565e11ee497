-------------------------- MODULE AgentStatusProofs --------------------------
(***************************************************************************)
(* The reports of the agents' states, for any number of sessions, states,   *)
(* reports under way and changes: what a desktop has sent to the relay is   *)
(* watched, and what it takes for published was written on the board as     *)
(* long as every answer reaches the report it answers.                      *)
(***************************************************************************)
EXTENDS AgentStatus, SequenceTheorems, TLAPS

\* The relay's offer ends with the connection it was made on; together with
\* InFlightIsWatched, which sends by that offer only, it is inductive.
OfferedWhileUp == offers => link = "up"

IInv == InFlightIsWatched /\ OfferedWhileUp

USE DEF IInv, InFlightIsWatched, OfferedWhileUp

\* The reports that were sent are left alone by whatever does not touch them,
\* their timer or the link.
LEMMA LeftAlone ==
  ASSUME IInv, UNCHANGED <<inFlight, waiting, linkVars>>
  PROVE  IInv'
  BY DEF linkVars

\* A batch goes by the socket only while the link is up, and starts the timer.
LEMMA FlushWatches ==
  ASSUME IInv, NEW unsigned \in BOOLEAN, Flush(unsigned)
  PROVE  IInv'
  <1>1. UNCHANGED linkVars
    BY DEF Flush
  <1>2. CASE UNCHANGED <<inFlight, waiting>>
    BY <1>1, <1>2, LeftAlone
  <1>3. CASE \E i \in Report : BySocket(i)
    BY <1>1, <1>3 DEF BySocket, linkVars
  <1>4. UNCHANGED <<inFlight, waiting>> \/ \E i \in Report : BySocket(i)
    BY DEF Flush, ByPost, Free
  <1> QED BY <1>2, <1>3, <1>4

\* An answer leaves the timer running for those that still wait.
LEMMA AnswerWatches ==
  ASSUME IInv, AnswerComes
  PROVE  IInv'
  <1>1. UNCHANGED linkVars
    BY DEF AnswerComes
  <1>2. CASE inFlight = <<>>
    BY <1>1, <1>2, LeftAlone DEF AnswerComes
  <1>3. CASE inFlight # <<>>
    <2>1. waiting' = (inFlight' # <<>>)
      BY <1>3 DEF AnswerComes
    <2> QED BY <1>1, <1>3, <2>1 DEF linkVars
  <1> QED BY <1>2, <1>3

\* When the link ends, so does the wait and the offer.
LEMMA LinkWatches ==
  ASSUME IInv, LinkEnds \/ LinkComes
  PROVE  IInv'
  <1>1. CASE LinkEnds
    BY <1>1 DEF LinkEnds, Requeued, GoesDown, SwitchOff
  <1>2. CASE LinkComes
    <2>1. UNCHANGED <<inFlight, waiting>>
      BY <1>2 DEF LinkComes
    <2> QED BY <1>2, <2>1 DEF LinkComes, SwitchOn, GoesUp, Hello
  <1> QED BY <1>1, <1>2

LEMMA StepWatches ==
  ASSUME IInv, [Next]_vars
  PROVE  IInv'
  <1>1. CASE \E s \in Session : Changes(s)
    BY <1>1, LeftAlone DEF Changes
  <1>2. CASE Reload
    BY <1>2, LeftAlone DEF Reload
  <1>3. CASE \E unsigned \in BOOLEAN : Flush(unsigned)
    BY <1>3, FlushWatches
  <1>4. CASE AnswerComes
    BY <1>4, AnswerWatches
  <1>5. CASE AckTimeout
    BY <1>5 DEF AckTimeout, Requeued, linkVars
  <1>6. CASE \E i \in Report : PostAnswered(i) \/ PostFails(i)
    BY <1>6, LeftAlone DEF PostAnswered, PostFails
  <1>7. CASE Relay
    BY <1>7, LeftAlone DEF Relay, Write, Answers
  <1>8. CASE LinkEnds \/ LinkComes
    BY <1>8, LinkWatches
  <1>9. CASE UNCHANGED vars
    BY <1>9, LeftAlone DEF vars
  <1> QED BY <1>1, <1>2, <1>3, <1>4, <1>5, <1>6, <1>7, <1>8, <1>9 DEF Next, Desktop

\* A report that waits for its answer is watched: the link it left on is still
\* up, and the timer that gives it up is running.
THEOREM SentIsWatched == Spec => []InFlightIsWatched
  <1>1. Init => IInv
    BY DEF Init, LinkInit
  <1>2. IInv /\ [Next]_vars => IInv'
    BY StepWatches
  <1>3. IInv => InFlightIsWatched
    OBVIOUS
  <1> QED BY <1>1, <1>2, <1>3, PTL DEF Spec

-----------------------------------------------------------------------------
(* Types.  What is still to be written of a report is something it says.     *)

Types == TypeOK /\ \A i \in Report : report[i].left \subseteq Said(report[i].says)

-----------------------------------------------------------------------------
(* What the desktop believes, while the relay answers in order and in time.  *)

\* The answers on their way are those to the oldest reports that wait, in
\* their order; all other reports on this connection are with the relay.
InOrder ==
    /\ \A k, m \in DOMAIN inFlight : inFlight[k] = inFlight[m] => k = m
    /\ Len(answers) <= Len(inFlight)
    /\ \A k \in DOMAIN answers :
           answers[k] = inFlight[k] /\ report[inFlight[k]].at = "answered"
    /\ \A k \in DOMAIN inFlight : k > Len(answers) =>
           report[inFlight[k]].at = "socket" /\ ~report[inFlight[k]].lost
    /\ \A i \in Report : report[i].at = "socket" /\ ~report[i].lost =>
           \E k \in DOMAIN inFlight : inFlight[k] = i
    /\ \A i \in Report : report[i].at = "answered" => report[i].left = {}

\* The desktop will hear what became of report i.
Heard(i) ==
    \/ \E k \in DOMAIN inFlight : inFlight[k] = i
    \/ /\ report[i].at \in {"post", "answered"} /\ ~report[i].lost
       /\ \A k \in DOMAIN answers : answers[k] # i

\* Report i says what s is marked with, and either it has yet to be written, or
\* the answer will take the mark back.
Carries(i, s) ==
    /\ report[i].says[s] = sent[s] /\ Heard(i)
    /\ \/ s \in report[i].left \/ s \in report[i].denied
       \/ report[i].at = "answered" /\ ~report[i].ok

\* What is marked is pending, or was written since, or a report carries it.
\* (Believed itself would let two reports vouch for each other.)
Carried ==
    \A s \in Session : run[s] # None /\ sent[s] # None =>
        \/ pending[s] = sent[s]
        \/ <<s, sent[s]>> \in landed
        \/ \E i \in Report : Carries(i, s)

BInv == Types /\ (disorder = {} => InOrder /\ Carried)

-----------------------------------------------------------------------------
(* Lemmas about the model's operators. *)

\* Sequences: the first of one, and what one holds.
LEMMA QueueIs ==
  ASSUME NEW S, NEW q \in Seq(S)
  PROVE  /\ Len(q) \in Nat /\ DOMAIN q = 1..Len(q)
         /\ \A k \in DOMAIN q : q[k] \in S
         /\ q = <<>> <=> Len(q) = 0
         /\ q # <<>> => Head(q) = q[1] /\ 1 \in DOMAIN q
  BY LenProperties, EmptySeq

\* What becomes of a queue whose first element leaves it.
LEMMA TailIs ==
  ASSUME NEW S, NEW q \in Seq(S), q # <<>>
  PROVE  /\ Tail(q) \in Seq(S) /\ Head(q) \in S /\ Len(Tail(q)) = Len(q) - 1
         /\ \A k \in DOMAIN Tail(q) : k + 1 \in DOMAIN q /\ Tail(q)[k] = q[k + 1]
         /\ \A k \in DOMAIN q : k # 1 => k - 1 \in DOMAIN Tail(q)
  <1>1. /\ Tail(q) \in Seq(S) /\ Head(q) \in S /\ Len(Tail(q)) = Len(q) - 1
        /\ \A k \in 1..Len(Tail(q)) : Tail(q)[k] = q[k + 1]
    BY HeadTailProperties
  <1>2. DOMAIN Tail(q) = 1..Len(Tail(q)) /\ DOMAIN q = 1..Len(q)
        /\ Len(q) \in Nat /\ Len(Tail(q)) \in Nat
    BY <1>1, QueueIs
  <1> QED BY <1>1, <1>2

ReportsOK(reports) ==
    /\ reports \in [Report -> Entry]
    /\ \A i \in Report : reports[i].left \subseteq Said(reports[i].says)

LEMMA NothingSaid == Nothing \in Says /\ NoReport \in Entry
  BY DEF Nothing, Says, NoReport, Entry

LEMMA UnmarkIs ==
  ASSUME sent \in Says, NEW S, NEW says
  PROVE  /\ Unmark(S, says) \in Says
         /\ \A s \in Session :
                Unmark(S, says)[s] = IF s \in S /\ sent[s] = says[s] THEN None ELSE sent[s]
  BY DEF Unmark, Says

\* A report that is over is nowhere, and says what it said.
LEMMA OverIs ==
  ASSUME NEW r \in Entry
  PROVE  /\ Over(r) \in Entry /\ Over(r).at = "none" /\ Over(r).left = {}
         /\ Over(r).says = r.says
  BY DEF Over, Entry

\* Clearing a place touches only reports that are over and do not wait.
LEMMA ClearedIs ==
  ASSUME NEW reports, ReportsOK(reports), NEW waits
  PROVE  /\ ReportsOK(Cleared(reports, waits))
         /\ \A i \in Report :
                /\ reports[i].at # "none" \/ (\E k \in DOMAIN waits : waits[k] = i) =>
                       Cleared(reports, waits)[i] = reports[i]
                /\ Cleared(reports, waits)[i] \in {NoReport, reports[i]}
                /\ Cleared(reports, waits)[i].at = reports[i].at
                /\ Cleared(reports, waits)[i].left \subseteq reports[i].left
  <1>1. \A i \in Report : Cleared(reports, waits)[i] =
            IF reports[i].at = "none" /\ \A k \in DOMAIN waits : waits[k] # i
            THEN NoReport ELSE reports[i]
    BY DEF Cleared
  <1>2. NoReport.left = {} /\ NoReport.at = "none"
    BY DEF NoReport
  <1>3. Cleared(reports, waits) \in [Report -> Entry]
    BY NothingSaid DEF Cleared, ReportsOK
  <1> QED BY <1>1, <1>2, <1>3 DEF ReportsOK

\* What is due is marked and pending; no other mark changes, and nothing that
\* was written before is forgotten of a session whose mark stays.
LEMMA SyncsIs ==
  ASSUME TypeOK, NEW S \in SUBSET Session, NEW new \in Says, Syncs(S, new)
  PROVE  /\ sent' \in Says /\ pending' \in Says /\ flushing' \in BOOLEAN
         /\ landed' \subseteq Session \X State
         /\ \A s \in Session :
                \/ sent'[s] = new[s] /\ pending'[s] = new[s]
                \/ /\ sent'[s] = sent[s] /\ pending'[s] = pending[s]
                   /\ \A v : <<s, v>> \in landed => <<s, v>> \in landed'
  <1> DEFINE due == {s \in S : new[s] # None /\ sent[s] # new[s]}
  <1>1. /\ sent' = [s \in Session |-> IF s \in due THEN new[s] ELSE sent[s]]
        /\ pending' = [s \in Session |-> IF s \in due THEN new[s] ELSE pending[s]]
        /\ flushing' = (flushing \/ due # {})
        /\ landed' = landed \ {<<s, new[s]>> : s \in due}
    BY DEF Syncs
  <1> HIDE DEF due
  <1>2. sent' \in Says /\ pending' \in Says
    BY <1>1 DEF TypeOK, Says
  <1>3. flushing' \in BOOLEAN /\ landed' \subseteq Session \X State
    BY <1>1 DEF TypeOK
  <1>4. ASSUME NEW s \in Session, s \notin due, NEW v, <<s, v>> \in landed
        PROVE  <<s, v>> \in landed'
    BY <1>1, <1>4
  <1> QED BY <1>1, <1>2, <1>3, <1>4

\* A batch says what is pending of the sessions that are there.
LEMMA BatchIs ==
  ASSUME TypeOK
  PROVE  /\ Batch \in Says
         /\ \A s \in Session : Batch[s] = IF run[s] = None THEN None ELSE pending[s]
  BY DEF TypeOK, Batch, Says

\* The place a batch takes.
LEMMA LeavesIs ==
  ASSUME Types, NEW i \in Report, NEW at \in {"socket", "post"}, Leaves(i, at)
  PROVE  /\ ReportsOK(report')
         /\ \A j \in Report : j # i => report'[j] = report[j]
         /\ report'[i].says = Batch /\ report'[i].at = at /\ ~report'[i].lost
         /\ report'[i].left = Said(Batch)
  <1> DEFINE new == [NoReport EXCEPT !.says = Batch, !.at = at, !.left = Said(Batch)]
  <1>1. Batch \in Says
    BY BatchIs DEF Types
  <1>2. Said(Batch) \in SUBSET Session
    BY DEF Said
  <1>3. /\ new \in Entry /\ new.says = Batch /\ new.at = at /\ new.lost = FALSE
        /\ new.left = Said(Batch)
    BY <1>1, <1>2 DEF NoReport, Entry
  <1>4. report' = [report EXCEPT ![i] = new]
    BY DEF Leaves
  <1>5. report \in [Report -> Entry]
    BY DEF Types, TypeOK
  <1> HIDE DEF new
  <1> QED BY <1>3, <1>4, <1>5 DEF ReportsOK, Types

-----------------------------------------------------------------------------
(* Every step keeps the types. *)

LinkOK == link \in {"off", "down", "up"} /\ offers \in BOOLEAN

\* TypeOK by its parts.
LEMMA TypesAre ==
  Types <=> /\ LinkOK
            /\ run \in Says /\ news \in 0..MaxNews
            /\ sent \in Says /\ pending \in Says /\ flushing \in BOOLEAN
            /\ inFlight \in Seq(Report) /\ waiting \in BOOLEAN
            /\ ReportsOK(report) /\ answers \in Seq(Report)
            /\ board \in Says /\ landed \subseteq Session \X State
            /\ disorder \subseteq {"late", "overtaken"}
  BY DEF Types, TypeOK, LinkOK, ReportsOK

LEMMA NewsTyped ==
  ASSUME Types, (\E s \in Session : Changes(s)) \/ Reload
  PROVE  Types'
  <1>1. news' \in 0..MaxNews /\ run' \in Says
    <2>1. MaxNews \in Nat /\ news \in 0..MaxNews /\ run \in Says
      BY StatusAssumption, TypesAre
    <2>2. CASE \E s \in Session : Changes(s)
      <3>1. PICK s \in Session, v \in State \cup {None} :
                news' = news + 1 /\ news < MaxNews /\ run' = [run EXCEPT ![s] = v]
        BY <2>2 DEF Changes
      <3> QED BY <2>1, <3>1 DEF Says
    <2>3. CASE Reload
      BY <2>1, <2>3 DEF Reload
    <2> QED BY <2>2, <2>3
  <1>2. PICK S \in SUBSET Session : Syncs(S, run')
    <2>1. \A s \in Session : {s} \in SUBSET Session
      OBVIOUS
    <2>2. CASE \E s \in Session : Changes(s)
      BY <2>1, <2>2 DEF Changes
    <2>3. CASE Reload
      BY <2>3 DEF Reload
    <2> QED BY <2>2, <2>3
  <1>3. /\ sent' \in Says /\ pending' \in Says /\ flushing' \in BOOLEAN
        /\ landed' \subseteq Session \X State
    BY <1>1, <1>2, SyncsIs DEF Types
  <1>4. UNCHANGED <<inFlight, waiting, report, answers, board, disorder, linkVars>>
    BY DEF Changes, Reload
  <1> QED BY <1>1, <1>3, <1>4 DEF Types, TypeOK, linkVars

LEMMA FlushTyped ==
  ASSUME Types, NEW unsigned \in BOOLEAN, Flush(unsigned)
  PROVE  Types'
  <1>1. sent' \in Says
    BY UnmarkIs DEF Types, TypeOK, Flush
  <1>2. pending' \in Says /\ flushing' \in BOOLEAN
    BY NothingSaid DEF Flush
  <1>3. ReportsOK(report') /\ inFlight' \in Seq(Report) /\ waiting' \in BOOLEAN
    <2>1. CASE UNCHANGED <<report, inFlight, waiting>>
      BY <2>1, TypesAre
    <2>2. ASSUME NEW i \in Report, BySocket(i)
          PROVE  ReportsOK(report') /\ inFlight' \in Seq(Report) /\ waiting' \in BOOLEAN
      BY <2>2, LeavesIs, AppendProperties, TypesAre DEF BySocket
    <2>3. ASSUME NEW i \in Report, ByPost(i)
          PROVE  ReportsOK(report') /\ inFlight' \in Seq(Report) /\ waiting' \in BOOLEAN
      BY <2>3, LeavesIs, TypesAre DEF ByPost
    <2> QED BY <2>1, <2>2, <2>3 DEF Flush, Free
  <1>4. UNCHANGED <<desk, answers, relay, disorder, linkVars>>
    BY DEF Flush
  <1> QED BY <1>1, <1>2, <1>3, <1>4 DEF Types, TypeOK, desk, relay, linkVars, ReportsOK

\* A report that is over still leaves all others as they are.
LEMMA OverOK ==
  ASSUME ReportsOK(report), NEW i \in Report
  PROVE  ReportsOK([report EXCEPT ![i] = Over(report[i])])
  <1>1. Over(report[i]) \in Entry /\ Over(report[i]).left = {}
    BY OverIs DEF ReportsOK
  <1> HIDE DEF Over
  <1> QED BY <1>1 DEF ReportsOK

LEMMA AnswerTyped == ASSUME Types, AnswerComes PROVE Types'
  <1>1. answers \in Seq(Report) /\ inFlight \in Seq(Report) /\ ReportsOK(report)
        /\ sent \in Says /\ answers # <<>>
    BY TypesAre DEF AnswerComes
  <1>2. answers' \in Seq(Report) /\ Head(answers) \in Report
    BY <1>1, TailIs DEF AnswerComes
  <1>3. inFlight' \in Seq(Report) /\ waiting' \in BOOLEAN /\ sent' \in Says
    <2>1. CASE inFlight = <<>>
      BY <1>1, <2>1, TypesAre DEF AnswerComes
    <2>2. CASE inFlight # <<>>
      <3>1. inFlight' = Tail(inFlight) /\ waiting' = (inFlight' # <<>>)
            /\ Learns(Head(answers), Head(inFlight))
        BY <2>2 DEF AnswerComes
      <3> QED BY <1>1, <2>2, <3>1, TailIs, UnmarkIs DEF Learns
    <2> QED BY <2>1, <2>2
  <1>4. report' = Cleared([report EXCEPT ![Head(answers)] = Over(report[Head(answers)])],
                          inFlight')
    BY <1>1, <1>2 DEF AnswerComes
  <1>5. ReportsOK(report')
    BY <1>1, <1>2, <1>4, OverOK, ClearedIs
  <1>6. UNCHANGED <<desk, pending, flushing, relay, disorder, linkVars>>
    BY DEF AnswerComes
  <1> QED BY <1>2, <1>3, <1>5, <1>6 DEF Types, TypeOK, desk, relay, linkVars, ReportsOK

LEMMA PostTyped ==
  ASSUME Types, NEW i \in Report, PostAnswered(i) \/ PostFails(i)
  PROVE  Types'
  <1>1. sent' \in Says
    BY UnmarkIs, TypesAre DEF PostAnswered, PostFails, Learns
  <1>2. ReportsOK(report) /\ report[i] \in Entry
    BY TypesAre DEF ReportsOK
  <1>3. ReportsOK(report')
    <2>1. CASE PostAnswered(i)
      <3>1. report' = Cleared([report EXCEPT ![i] = Over(report[i])], inFlight)
        BY <1>2, <2>1 DEF PostAnswered
      <3> QED BY <1>2, <3>1, OverOK, ClearedIs
    <2>2. CASE PostFails(i)
      <3>1. [report[i] EXCEPT !.lost = TRUE] \in Entry
            /\ [report[i] EXCEPT !.lost = TRUE].left = report[i].left
            /\ [report[i] EXCEPT !.lost = TRUE].says = report[i].says
        BY <1>2 DEF Entry
      <3>2. report' = [report EXCEPT ![i] = [report[i] EXCEPT !.lost = TRUE]]
        BY <2>2 DEF PostFails
      <3> QED BY <1>2, <3>1, <3>2 DEF ReportsOK
    <2> QED BY <2>1, <2>2
  <1>4. UNCHANGED <<desk, pending, flushing, inFlight, waiting, answers, relay,
                    disorder, linkVars>>
    BY DEF PostAnswered, PostFails
  <1> QED BY <1>1, <1>3, <1>4 DEF Types, TypeOK, desk, relay, linkVars, ReportsOK

\* What was in flight is unmarked when it is given up.
LEMMA RequeuedIs ==
  ASSUME Types, Requeued
  PROVE  /\ sent' \in Says /\ inFlight' = <<>> /\ inFlight' \in Seq(Report)
         /\ waiting' = FALSE
         /\ \A s \in Session : sent'[s] \in {sent[s], None}
         /\ \A s \in Session, k \in DOMAIN inFlight :
                report[inFlight[k]].says[s] = sent[s] => sent'[s] = None
  <1>1. sent \in Says
    BY TypesAre
  <1>2. \A s \in Session : sent'[s] =
            IF \E k \in DOMAIN inFlight : report[inFlight[k]].says[s] = sent[s]
            THEN None ELSE sent[s]
    BY DEF Requeued
  <1>3. sent' \in Says
    BY <1>1 DEF Requeued, Says
  <1> QED BY <1>2, <1>3, EmptySeq DEF Requeued

\* What the end of the link makes of the reports, before places are cleared.
Cut == [i \in Report |->
           IF report[i].at = "socket" THEN [report[i] EXCEPT !.lost = TRUE]
           ELSE IF \E k \in DOMAIN answers : answers[k] = i THEN Over(report[i])
           ELSE report[i]]

LEMMA CutIs ==
  ASSUME Types
  PROVE  /\ ReportsOK(Cut)
         /\ \A i \in Report :
                /\ report[i].at = "socket" => Cut[i].at = "socket" /\ Cut[i].lost
                /\ (\A k \in DOMAIN answers : answers[k] # i) /\ report[i].at # "socket" =>
                       Cut[i] = report[i]
                /\ report[i].at = "socket" \/ Cut[i] = report[i] \/ Cut[i].at = "none"
  <1>1. ASSUME NEW i \in Report
        PROVE  /\ Cut[i] \in Entry /\ Cut[i].left \subseteq Said(Cut[i].says)
               /\ report[i].at = "socket" => Cut[i].at = "socket" /\ Cut[i].lost
               /\ (\A k \in DOMAIN answers : answers[k] # i) /\ report[i].at # "socket" =>
                       Cut[i] = report[i]
               /\ report[i].at = "socket" \/ Cut[i] = report[i] \/ Cut[i].at = "none"
    <2>1. report[i] \in Entry /\ report[i].left \subseteq Said(report[i].says)
      BY TypesAre DEF ReportsOK
    <2>2. CASE report[i].at = "socket"
      <3>1. Cut[i] = [report[i] EXCEPT !.lost = TRUE]
        BY <2>2 DEF Cut
      <3>2. /\ Cut[i] \in Entry /\ Cut[i].left = report[i].left
            /\ Cut[i].says = report[i].says /\ Cut[i].at = "socket" /\ Cut[i].lost
        BY <2>1, <2>2, <3>1 DEF Entry
      <3> QED BY <2>1, <2>2, <3>2
    <2>3. CASE report[i].at # "socket" /\ \E k \in DOMAIN answers : answers[k] = i
      <3>1. Cut[i] = Over(report[i])
        BY <2>3 DEF Cut
      <3> QED BY <2>1, <2>3, <3>1, OverIs
    <2>4. CASE report[i].at # "socket" /\ ~\E k \in DOMAIN answers : answers[k] = i
      <3>1. Cut[i] = report[i]
        BY <2>4 DEF Cut
      <3> QED BY <2>1, <2>4, <3>1
    <2> QED BY <2>2, <2>3, <2>4
  <1>2. Cut \in [Report -> Entry]
    BY <1>1 DEF Cut
  <1> QED BY <1>1, <1>2 DEF ReportsOK

LEMMA GivenUpTyped ==
  ASSUME Types, AckTimeout \/ LinkEnds
  PROVE  Types'
  <1>1. Requeued
    BY DEF AckTimeout, LinkEnds
  <1>2. sent' \in Says /\ inFlight' \in Seq(Report) /\ waiting' \in BOOLEAN
    BY <1>1, RequeuedIs
  <1>3. CASE AckTimeout
    <2>1. ReportsOK(report')
      BY <1>3, ClearedIs, TypesAre DEF AckTimeout
    <2>2. disorder' \subseteq {"late", "overtaken"}
      BY <1>3, TypesAre DEF AckTimeout
    <2> QED BY <1>2, <1>3, <2>1, <2>2
            DEF AckTimeout, Types, TypeOK, desk, relay, linkVars, ReportsOK
  <1>4. CASE LinkEnds
    <2>1. ReportsOK(report')
      BY <1>4, CutIs, ClearedIs DEF LinkEnds, Cut
    <2>2. link' \in {"off", "down", "up"} /\ offers' \in BOOLEAN
      BY <1>4 DEF LinkEnds, GoesDown, SwitchOff
    <2>3. answers' \in Seq(Report)
      BY <1>4, EmptySeq DEF LinkEnds
    <2> QED BY <1>2, <1>4, <2>1, <2>2, <2>3
            DEF LinkEnds, Types, TypeOK, desk, relay, ReportsOK
  <1> QED BY <1>3, <1>4

LEMMA LinkTyped == ASSUME Types, LinkComes PROVE Types'
  <1>1. link' \in {"off", "down", "up"} /\ offers' \in BOOLEAN
    BY DEF LinkComes, SwitchOn, GoesUp, Hello, Types, TypeOK
  <1> QED BY <1>1 DEF LinkComes, Types, TypeOK, desk, marks, relay

\* A report whose entry s was looked at: the rest of it stays.
LEMMA WriteIs ==
  ASSUME Types, NEW i \in Report, NEW s \in Session, Write(i, s)
  PROVE  /\ ReportsOK(report') /\ \A j \in Report : j # i => report'[j] = report[j]
         /\ report'[i].says = report[i].says /\ report'[i].at = report[i].at
         /\ report'[i].lost = report[i].lost /\ report'[i].ok = report[i].ok
         /\ report'[i].left = report[i].left \ {s}
         /\ \/ /\ report'[i].denied = report[i].denied
               /\ landed' = landed \cup {<<s, report[i].says[s]>>}
            \/ /\ report'[i].denied = report[i].denied \cup {s}
               /\ landed' = landed
         /\ Live(i) /\ s \in report[i].left /\ report[i].says[s] \in State
         /\ board' \in Says
  <1>1. report[i] \in Entry /\ report[i].left \subseteq Said(report[i].says)
        /\ ReportsOK(report) /\ board \in Says
    BY TypesAre DEF ReportsOK
  <1>2. s \in report[i].left /\ Live(i)
    BY DEF Write
  <1>3. report[i].says[s] \in State
    BY <1>1, <1>2 DEF Said, Says, Entry
  <1> DEFINE wrote == [report[i] EXCEPT !.left = report[i].left \ {s}]
             no == [[report[i] EXCEPT !.left = report[i].left \ {s}]
                        EXCEPT !.denied = report[i].denied \cup {s}]
  <1>4. /\ wrote \in Entry /\ wrote.left = report[i].left \ {s}
        /\ wrote.says = report[i].says /\ wrote.at = report[i].at
        /\ wrote.lost = report[i].lost /\ wrote.ok = report[i].ok
        /\ wrote.denied = report[i].denied
    BY <1>1 DEF Entry
  <1>5. /\ no \in Entry /\ no.left = report[i].left \ {s}
        /\ no.says = report[i].says /\ no.at = report[i].at
        /\ no.lost = report[i].lost /\ no.ok = report[i].ok
        /\ no.denied = report[i].denied \cup {s}
    BY <1>1 DEF Entry
  <1>6. CASE board' = [board EXCEPT ![s] = report[i].says[s]]
             /\ landed' = landed \cup {<<s, report[i].says[s]>>}
             /\ report' = [report EXCEPT ![i].left = @ \ {s}]
    <2>1. report' = [report EXCEPT ![i] = wrote]
      BY <1>6
    <2> HIDE DEF wrote
    <2>2. board' \in Says
      BY <1>1, <1>3, <1>6 DEF Says
    <2>3. ReportsOK(report')
      BY <1>1, <1>4, <2>1 DEF ReportsOK
    <2> QED BY <1>1, <1>2, <1>3, <1>4, <1>6, <2>1, <2>2, <2>3 DEF ReportsOK
  <1>7. CASE report' = [report EXCEPT ![i].left = @ \ {s}, ![i].denied = @ \cup {s}]
             /\ UNCHANGED relay
    <2>1. report' = [report EXCEPT ![i] = no]
      BY <1>1, <1>7 DEF ReportsOK
    <2> HIDE DEF no
    <2>2. ReportsOK(report')
      BY <1>1, <1>5, <2>1 DEF ReportsOK
    <2> QED BY <1>1, <1>2, <1>3, <1>5, <1>7, <2>1, <2>2 DEF ReportsOK, relay
  <1> QED BY <1>6, <1>7 DEF Write

LEMMA WriteTyped ==
  ASSUME Types, NEW i \in Report, NEW s \in Session, Write(i, s)
  PROVE  Types'
  <1>1. /\ ReportsOK(report') /\ board' \in Says
        /\ landed' = landed \cup {<<s, report[i].says[s]>>} \/ landed' = landed
        /\ report[i].says[s] \in State
    BY WriteIs
  <1>2. landed' \subseteq Session \X State
    BY <1>1, TypesAre
  <1>3. UNCHANGED <<desk, marks, inFlight, waiting, answers, disorder, linkVars>>
    BY DEF Write
  <1> QED BY <1>1, <1>2, <1>3 DEF Types, TypeOK, desk, marks, linkVars, ReportsOK

\* A report that is answered: with success, all of it was looked at.
Closed(i, ok) ==
    [report EXCEPT ![i].at = "answered", ![i].ok = ok, ![i].left = {},
                   ![i].denied = IF ok THEN @ ELSE {}]

LEMMA ClosedIs ==
  ASSUME Types, NEW i \in Report, NEW ok \in BOOLEAN
  PROVE  /\ ReportsOK(Closed(i, ok))
         /\ \A j \in Report : j # i => Closed(i, ok)[j] = report[j]
         /\ Closed(i, ok)[i].at = "answered" /\ Closed(i, ok)[i].ok = ok
         /\ Closed(i, ok)[i].left = {} /\ Closed(i, ok)[i].says = report[i].says
         /\ Closed(i, ok)[i].lost = report[i].lost
         /\ ok => Closed(i, ok)[i].denied = report[i].denied
  <1>1. ReportsOK(report) /\ report[i] \in Entry
    BY TypesAre DEF ReportsOK
  <1> DEFINE new == [report[i] EXCEPT !.at = "answered", !.ok = ok, !.left = {},
                                      !.denied = IF ok THEN report[i].denied ELSE {}]
  <1>2. /\ new \in Entry /\ new.at = "answered" /\ new.ok = ok /\ new.left = {}
        /\ new.says = report[i].says /\ new.lost = report[i].lost
        /\ ok => new.denied = report[i].denied
    BY <1>1 DEF Entry
  <1>3. Closed(i, ok) = [report EXCEPT ![i] = new]
    BY <1>1 DEF Closed, ReportsOK
  <1> HIDE DEF new, Closed
  <1> QED BY <1>1, <1>2, <1>3 DEF ReportsOK

LEMMA AnswersTyped ==
  ASSUME Types, NEW i \in Report, NEW ok \in BOOLEAN, Answers(i, ok)
  PROVE  Types'
  <1>1. ReportsOK(Closed(i, ok)) /\ answers \in Seq(Report)
    BY ClosedIs, TypesAre
  <1>2. ReportsOK(report') /\ answers' \in Seq(Report)
    <2>1. CASE report[i].lost
      <3>1. report' = Cleared([Closed(i, ok) EXCEPT ![i] = Over(Closed(i, ok)[i])], inFlight)
            /\ answers' = answers
        BY <1>1, <2>1 DEF Answers, Closed, ReportsOK
      <3>2. ReportsOK([Closed(i, ok) EXCEPT ![i] = Over(Closed(i, ok)[i])])
        <4>1. Over(Closed(i, ok)[i]) \in Entry /\ Over(Closed(i, ok)[i]).left = {}
          BY <1>1, OverIs DEF ReportsOK
        <4> HIDE DEF Over, Closed
        <4> QED BY <1>1, <4>1 DEF ReportsOK
      <3> QED BY <1>1, <3>1, <3>2, ClearedIs
    <2>2. CASE ~report[i].lost
      <3>1. report' = Closed(i, ok) /\ answers' \in {answers, Append(answers, i)}
        BY <2>2 DEF Answers, Closed
      <3> QED BY <1>1, <3>1, AppendProperties
    <2> QED BY <2>1, <2>2
  <1>3. disorder' \subseteq {"late", "overtaken"}
    BY TypesAre DEF Answers
  <1>4. UNCHANGED <<desk, marks, inFlight, waiting, relay, linkVars>>
    BY DEF Answers
  <1> QED BY <1>2, <1>3, <1>4 DEF Types, TypeOK, desk, marks, relay, linkVars, ReportsOK

LEMMA StepTyped == ASSUME Types, [Next]_vars PROVE Types'
  <1>1. CASE UNCHANGED vars
    BY <1>1 DEF vars, desk, marks, relay, linkVars, Types, TypeOK
  <1> QED BY <1>1, NewsTyped, FlushTyped, AnswerTyped, PostTyped, GivenUpTyped,
             LinkTyped, WriteTyped, AnswersTyped DEF Next, Desktop, Relay

LEMMA InitTyped == Init => Types
  <1> SUFFICES ASSUME Init PROVE Types
    OBVIOUS
  <1>1. run \in Says /\ news \in 0..MaxNews
    BY StatusAssumption DEF Init, Says
  <1>2. NoReport.left = {}
    BY DEF NoReport
  <1>3. ReportsOK(report)
    BY <1>2, NothingSaid DEF Init, ReportsOK
  <1>4. inFlight \in Seq(Report) /\ answers \in Seq(Report)
    BY EmptySeq DEF Init
  <1> QED BY <1>1, <1>3, <1>4, NothingSaid DEF Init, LinkInit, Types, TypeOK, ReportsOK

\* Marks, queues, reports and the board keep their types, and a report is only
\* ever asked to write what it says.
THEOREM StatusTyped == Spec => []TypeOK
  <1>1. Types => TypeOK
    BY DEF Types
  <1> QED BY <1>1, InitTyped, StepTyped, PTL DEF Spec

-----------------------------------------------------------------------------
(* The order of the answers. *)

\* Where a report that waits is: answered, with its answer on the way, or with
\* the relay.
LEMMA WaitsWhere ==
  ASSUME Types, InOrder, NEW k \in DOMAIN inFlight
  PROVE  /\ inFlight[k] \in Report /\ Len(answers) \in Nat /\ k \in Nat /\ k >= 1
         /\ DOMAIN answers = 1..Len(answers)
         /\ \/ /\ k \in DOMAIN answers /\ answers[k] = inFlight[k]
               /\ report[inFlight[k]].at = "answered"
            \/ /\ k > Len(answers) /\ report[inFlight[k]].at = "socket"
               /\ ~report[inFlight[k]].lost
  <1>1. inFlight \in Seq(Report) /\ answers \in Seq(Report)
    BY TypesAre
  <1>2. /\ inFlight[k] \in Report /\ Len(answers) \in Nat /\ k \in 1..Len(inFlight)
        /\ DOMAIN answers = 1..Len(answers) /\ Len(inFlight) \in Nat
    BY <1>1, QueueIs
  <1>3. CASE k <= Len(answers)
    BY <1>2, <1>3 DEF InOrder
  <1>4. CASE ~(k <= Len(answers))
    BY <1>2, <1>4 DEF InOrder
  <1> QED BY <1>2, <1>3, <1>4

\* Steps that change neither queue, and no report that waits.
LEMMA OrderKept ==
  ASSUME Types, InOrder, UNCHANGED <<inFlight, answers>>,
         \A i \in Report :
             /\ (\E k \in DOMAIN inFlight : inFlight[k] = i) =>
                    report'[i].at = report[i].at /\ report'[i].lost = report[i].lost
             /\ report'[i].at = "socket" /\ ~report'[i].lost =>
                    report[i].at = "socket" /\ ~report[i].lost
             /\ report'[i].at = "answered" => report'[i].left = {}
  PROVE  InOrder'
  <1>1. \A k \in DOMAIN inFlight :
            /\ inFlight[k] \in Report
            /\ report'[inFlight[k]].at = report[inFlight[k]].at
            /\ report'[inFlight[k]].lost = report[inFlight[k]].lost
    BY WaitsWhere
  <1>2. \A k \in DOMAIN answers : k \in DOMAIN inFlight
    <2>1. inFlight \in Seq(Report) /\ answers \in Seq(Report)
      BY TypesAre
    <2>2. /\ Len(answers) \in Nat /\ Len(inFlight) \in Nat
          /\ DOMAIN answers = 1..Len(answers) /\ DOMAIN inFlight = 1..Len(inFlight)
      BY <2>1, QueueIs
    <2>3. Len(answers) <= Len(inFlight)
      BY DEF InOrder
    <2> QED BY <2>2, <2>3
  <1> QED BY <1>1, <1>2 DEF InOrder

\* Nobody waits for a report whose place is free.
LEMMA FreeIs ==
  ASSUME Types, InOrder, NEW i \in Report, report[i].at \notin {"answered", "socket"}
  PROVE  /\ \A k \in DOMAIN inFlight : inFlight[k] # i
         /\ \A k \in DOMAIN answers : answers[k] # i
  <1>1. \A k \in DOMAIN inFlight : inFlight[k] # i
    BY WaitsWhere
  <1>2. ASSUME NEW k \in DOMAIN answers PROVE answers[k] # i
    BY DEF InOrder
  <1> QED BY <1>1, <1>2

\* A batch on the socket waits behind all others.
LEMMA BySocketOrder ==
  ASSUME Types, InOrder, NEW i \in Free, BySocket(i), UNCHANGED answers
  PROVE  InOrder' /\ \E k \in DOMAIN inFlight' : inFlight'[k] = i
  <1>1. /\ i \in Report /\ report[i].at = "none"
        /\ inFlight \in Seq(Report) /\ answers \in Seq(Report)
    BY TypesAre DEF Free, NoReport
  <1>2. /\ \A j \in Report : j # i => report'[j] = report[j]
        /\ report'[i].at = "socket" /\ ~report'[i].lost
    BY <1>1, LeavesIs DEF BySocket
  <1>3. /\ inFlight' \in Seq(Report) /\ Len(inFlight') = Len(inFlight) + 1
        /\ \A k \in 1..Len(inFlight) : inFlight'[k] = inFlight[k]
        /\ inFlight'[Len(inFlight) + 1] = i
    BY <1>1, AppendProperties DEF BySocket
  <1>4. /\ Len(inFlight) \in Nat /\ Len(answers) \in Nat
        /\ DOMAIN inFlight = 1..Len(inFlight) /\ DOMAIN answers = 1..Len(answers)
        /\ DOMAIN inFlight' = 1..(Len(inFlight) + 1)
    BY <1>1, <1>3, QueueIs
  <1>5. \A k \in DOMAIN inFlight : inFlight[k] # i /\ inFlight[k] \in Report
    BY <1>1, FreeIs, WaitsWhere
  <1>6. Len(answers) <= Len(inFlight)
    BY DEF InOrder
  <1>7. \A k, m \in DOMAIN inFlight' : inFlight'[k] = inFlight'[m] => k = m
    BY <1>3, <1>4, <1>5 DEF InOrder
  <1>8. \A k \in DOMAIN answers' :
            answers'[k] = inFlight'[k] /\ report'[inFlight'[k]].at = "answered"
    BY <1>2, <1>3, <1>4, <1>5, <1>6 DEF InOrder
  <1>9. \A k \in DOMAIN inFlight' : k > Len(answers') =>
            report'[inFlight'[k]].at = "socket" /\ ~report'[inFlight'[k]].lost
    BY <1>2, <1>3, <1>4, <1>5 DEF InOrder
  <1>10. \A j \in Report : report'[j].at = "socket" /\ ~report'[j].lost =>
            \E k \in DOMAIN inFlight' : inFlight'[k] = j
    BY <1>2, <1>3, <1>4 DEF InOrder
  <1>11. \A j \in Report : report'[j].at = "answered" => report'[j].left = {}
    BY <1>2 DEF InOrder
  <1>12. Len(answers') <= Len(inFlight')
    BY <1>3, <1>4, <1>6
  <1> QED BY <1>3, <1>4, <1>7, <1>8, <1>9, <1>10, <1>11, <1>12 DEF InOrder

\* In order, an answer is to the report the desktop gives it to.
LEMMA AnswerIs ==
  ASSUME Types, InOrder, AnswerComes
  PROVE  LET i == Head(answers) IN
         /\ inFlight # <<>> /\ Head(inFlight) = i /\ i \in Report
         /\ report[i].at = "answered" /\ report[i].left = {}
         /\ 1 \in DOMAIN inFlight /\ inFlight[1] = i
         /\ Learns(i, i) /\ inFlight' = Tail(inFlight) /\ answers' = Tail(answers)
         /\ report' = Cleared([report EXCEPT ![i] = Over(report[i])], inFlight')
         /\ \A j \in Report : j # i =>
                /\ (\E k \in DOMAIN inFlight : inFlight[k] = j) =>
                       report'[j] = report[j] /\ \E k \in DOMAIN inFlight' : inFlight'[k] = j
                /\ report[j].at # "none" => report'[j] = report[j]
                /\ report'[j].at = report[j].at
                /\ report'[j].left \subseteq report[j].left
         /\ report'[i].at = "none"
  <1> DEFINE i == Head(answers)
  <1>1. /\ inFlight \in Seq(Report) /\ answers \in Seq(Report) /\ answers # <<>>
        /\ ReportsOK(report)
    BY TypesAre DEF AnswerComes
  <1>2. /\ Len(inFlight) \in Nat /\ Len(answers) \in Nat
        /\ DOMAIN inFlight = 1..Len(inFlight) /\ DOMAIN answers = 1..Len(answers)
        /\ Len(answers) # 0 /\ i = answers[1]
        /\ inFlight # <<>> => Head(inFlight) = inFlight[1]
        /\ inFlight = <<>> <=> Len(inFlight) = 0
    BY <1>1, QueueIs
  <1>3. Len(answers) <= Len(inFlight)
    BY DEF InOrder
  <1>4. /\ 1 \in DOMAIN inFlight /\ 1 \in DOMAIN answers /\ inFlight # <<>>
        /\ Head(inFlight) = inFlight[1]
    BY <1>2, <1>3
  <1>5. inFlight[1] = i /\ report[i].at = "answered" /\ i \in Report
    BY <1>1, <1>2, <1>4, QueueIs DEF InOrder
  <1>6. report[i].left = {}
    BY <1>5 DEF InOrder
  <1>7. /\ Learns(i, i) /\ inFlight' = Tail(inFlight) /\ answers' = Tail(answers)
        /\ report' = Cleared([report EXCEPT ![i] = Over(report[i])], inFlight')
    BY <1>1, <1>4, <1>5 DEF AnswerComes, ReportsOK
  <1> DEFINE over == [report EXCEPT ![i] = Over(report[i])]
  <1>8. /\ ReportsOK(over) /\ over[i].at = "none"
        /\ \A j \in Report : j # i => over[j] = report[j]
    <2>1. Over(report[i]).at = "none"
      BY <1>1, <1>5, OverIs DEF ReportsOK
    <2> QED BY <1>1, <1>5, <2>1, OverOK DEF ReportsOK
  <1>11. report' = Cleared(over, inFlight')
    BY <1>7
  <1> HIDE DEF over
  <1>9. ASSUME NEW j \in Report, j # i
        PROVE  /\ (\E k \in DOMAIN inFlight : inFlight[k] = j) =>
                      report'[j] = report[j] /\ \E k \in DOMAIN inFlight' : inFlight'[k] = j
               /\ report[j].at # "none" => report'[j] = report[j]
               /\ report'[j].at = report[j].at
               /\ report'[j].left \subseteq report[j].left
    <2>1. over[j] = report[j]
      BY <1>8, <1>9
    <2>2. /\ report[j].at # "none" => report'[j] = report[j]
          /\ (\E k \in DOMAIN inFlight' : inFlight'[k] = j) => report'[j] = report[j]
          /\ report'[j].at = report[j].at
          /\ report'[j].left \subseteq report[j].left
      BY <1>8, <1>11, <2>1, ClearedIs
    <2>3. ASSUME NEW k \in DOMAIN inFlight, inFlight[k] = j
          PROVE  \E m \in DOMAIN inFlight' : inFlight'[m] = j
      <3>1. k # 1
        BY <1>5, <1>9, <2>3
      <3>2. /\ k - 1 \in DOMAIN Tail(inFlight)
            /\ Tail(inFlight)[k - 1] = inFlight[(k - 1) + 1]
        BY <1>1, <1>4, <3>1, TailIs
      <3>3. (k - 1) + 1 = k
        BY <1>2, <2>3
      <3> QED BY <1>7, <2>3, <3>2, <3>3
    <2> QED BY <2>2, <2>3
  <1>10. report'[i].at = "none"
    BY <1>5, <1>8, <1>11, ClearedIs
  <1> HIDE DEF i
  <1> QED BY <1>4, <1>5, <1>6, <1>7, <1>9, <1>10 DEF i

LEMMA AnswerOrder ==
  ASSUME Types, InOrder, AnswerComes PROVE InOrder'
  <1> DEFINE i == Head(answers)
  <1>1. /\ inFlight # <<>> /\ i \in Report
        /\ report[i].at = "answered" /\ 1 \in DOMAIN inFlight /\ inFlight[1] = i
        /\ inFlight' = Tail(inFlight) /\ answers' = Tail(answers)
        /\ \A j \in Report : j # i =>
               /\ (\E k \in DOMAIN inFlight : inFlight[k] = j) =>
                      report'[j] = report[j] /\ \E k \in DOMAIN inFlight' : inFlight'[k] = j
               /\ report[j].at # "none" => report'[j] = report[j]
               /\ report'[j].at = report[j].at
        /\ report'[i].at = "none"
    BY AnswerIs
  <1> HIDE DEF i
  <1>2. inFlight \in Seq(Report) /\ answers \in Seq(Report) /\ answers # <<>>
    BY TypesAre DEF AnswerComes
  <1>3. /\ Len(inFlight) \in Nat /\ Len(answers) \in Nat
        /\ DOMAIN inFlight = 1..Len(inFlight) /\ DOMAIN answers = 1..Len(answers)
        /\ \A k \in DOMAIN inFlight : inFlight[k] \in Report
    BY <1>2, QueueIs
  <1>4. /\ Len(inFlight') = Len(inFlight) - 1 /\ Len(answers') = Len(answers) - 1
        /\ inFlight' \in Seq(Report) /\ answers' \in Seq(Report)
        /\ \A k \in DOMAIN inFlight' : k + 1 \in DOMAIN inFlight
                                       /\ inFlight'[k] = inFlight[k + 1]
        /\ \A k \in DOMAIN answers' : k + 1 \in DOMAIN answers
                                      /\ answers'[k] = answers[k + 1]
    BY <1>1, <1>2, TailIs
  <1>5. /\ DOMAIN inFlight' = 1..Len(inFlight') /\ DOMAIN answers' = 1..Len(answers')
        /\ Len(inFlight') \in Nat /\ Len(answers') \in Nat
    BY <1>4, QueueIs
  <1>6. \A k \in DOMAIN inFlight' : inFlight'[k] # i /\ report'[inFlight'[k]] = report[inFlight'[k]]
    <2> TAKE k \in DOMAIN inFlight'
    <2>1. k + 1 \in DOMAIN inFlight /\ inFlight'[k] = inFlight[k + 1] /\ k + 1 # 1
      BY <1>4, <1>5
    <2>2. inFlight'[k] # i
      BY <1>1, <2>1 DEF InOrder
    <2> QED BY <1>1, <1>3, <2>1, <2>2
  <1>7. \A k, m \in DOMAIN inFlight' : inFlight'[k] = inFlight'[m] => k = m
    <2> TAKE k, m \in DOMAIN inFlight'
    <2>1. inFlight'[k] = inFlight'[m] => k + 1 = m + 1
      BY <1>4 DEF InOrder
    <2> QED BY <1>5, <2>1
  <1>8. Len(answers') <= Len(inFlight')
    BY <1>3, <1>4 DEF InOrder
  <1>9. \A k \in DOMAIN answers' :
            answers'[k] = inFlight'[k] /\ report'[inFlight'[k]].at = "answered"
    <2> TAKE k \in DOMAIN answers'
    <2>1. k \in DOMAIN inFlight'
      BY <1>5, <1>8
    <2>2. /\ k + 1 \in DOMAIN answers /\ answers'[k] = answers[k + 1]
          /\ inFlight'[k] = inFlight[k + 1]
      BY <1>4, <2>1
    <2>3. answers[k + 1] = inFlight[k + 1] /\ report[inFlight[k + 1]].at = "answered"
      BY <2>2 DEF InOrder
    <2> QED BY <1>6, <2>1, <2>2, <2>3
  <1>10. \A k \in DOMAIN inFlight' : k > Len(answers') =>
             report'[inFlight'[k]].at = "socket" /\ ~report'[inFlight'[k]].lost
    <2> TAKE k \in DOMAIN inFlight'
    <2> HAVE k > Len(answers')
    <2>1. /\ k + 1 \in DOMAIN inFlight /\ inFlight'[k] = inFlight[k + 1]
          /\ k + 1 > Len(answers)
      BY <1>3, <1>4, <1>5
    <2>2. report[inFlight[k + 1]].at = "socket" /\ ~report[inFlight[k + 1]].lost
      BY <2>1 DEF InOrder
    <2> QED BY <1>6, <2>1, <2>2
  <1>11. ASSUME NEW j \in Report, report'[j].at = "socket", ~report'[j].lost
         PROVE  \E k \in DOMAIN inFlight' : inFlight'[k] = j
    <2>1. j # i /\ report[j].at = "socket" /\ report'[j] = report[j]
      BY <1>1, <1>11
    <2>2. \E k \in DOMAIN inFlight : inFlight[k] = j
      BY <1>11, <2>1 DEF InOrder
    <2> QED BY <1>1, <2>1, <2>2
  <1>12. \A j \in Report : report'[j].at = "answered" => report'[j].left = {}
    BY <1>1 DEF InOrder
  <1> QED BY <1>7, <1>8, <1>9, <1>10, <1>11, <1>12 DEF InOrder

\* An answer that overtakes none is to the oldest report the relay still has.
LEMMA AnswersOrder ==
  ASSUME Types, InOrder, NEW i \in Report, NEW ok \in BOOLEAN, Answers(i, ok), ~Ahead(i),
         report[i].at = "socket", ~report[i].lost
  PROVE  InOrder'
  <1>1. inFlight \in Seq(Report) /\ answers \in Seq(Report)
    BY TypesAre
  <1>2. /\ Len(inFlight) \in Nat /\ Len(answers) \in Nat
        /\ DOMAIN inFlight = 1..Len(inFlight) /\ DOMAIN answers = 1..Len(answers)
    BY <1>1, QueueIs
  <1>3. /\ report' = Closed(i, ok) /\ answers' = Append(answers, i)
        /\ inFlight' = inFlight
    BY DEF Answers, Closed
  <1>4. /\ \A j \in Report : j # i => report'[j] = report[j]
        /\ report'[i].at = "answered" /\ report'[i].left = {}
    BY <1>3, ClosedIs
  <1>5. /\ answers' \in Seq(Report) /\ Len(answers') = Len(answers) + 1
        /\ \A k \in 1..Len(answers) : answers'[k] = answers[k]
        /\ answers'[Len(answers) + 1] = i
        /\ DOMAIN answers' = 1..(Len(answers) + 1)
    BY <1>1, <1>3, AppendProperties, QueueIs
  <1>6. PICK n \in DOMAIN inFlight : inFlight[n] = i
    BY DEF InOrder
  <1>7. n > Len(answers) /\ n \in Nat
    BY <1>6, WaitsWhere
  <1>8. n = Len(answers) + 1
    <2> SUFFICES ASSUME n # Len(answers) + 1 PROVE FALSE
      OBVIOUS
    <2> DEFINE k == Len(answers) + 1
    <2>1. k \in DOMAIN inFlight /\ k < n /\ k > Len(answers)
      BY <1>2, <1>6, <1>7
    <2>2. report[inFlight[k]].at = "socket"
      BY <2>1 DEF InOrder
    <2>3. Live(inFlight[k])
      BY <2>2 DEF Live
    <2> HIDE DEF k
    <2> QED BY <1>6, <2>1, <2>3 DEF Ahead
  <1>9. \A k \in DOMAIN inFlight : inFlight[k] = i <=> k = n
    BY <1>6 DEF InOrder
  <1>10. Len(answers) <= Len(inFlight)
    BY DEF InOrder
  <1>11. \A k \in DOMAIN inFlight : inFlight[k] \in Report
    BY <1>1, QueueIs
  <1>12. ASSUME NEW k \in DOMAIN answers'
         PROVE  answers'[k] = inFlight[k] /\ report'[inFlight[k]].at = "answered"
    <2>1. CASE k = n
      BY <1>4, <1>5, <1>6, <1>8, <2>1
    <2>2. CASE k # n
      <3>1. k \in DOMAIN answers /\ k \in DOMAIN inFlight /\ answers'[k] = answers[k]
        BY <1>2, <1>5, <1>8, <1>10, <2>2
      <3>2. answers[k] = inFlight[k] /\ report[inFlight[k]].at = "answered"
        BY <3>1 DEF InOrder
      <3> QED BY <1>4, <1>9, <1>11, <2>2, <3>1, <3>2
    <2> QED BY <2>1, <2>2
  <1>13. ASSUME NEW k \in DOMAIN inFlight, k > Len(answers')
         PROVE  report'[inFlight[k]].at = "socket" /\ ~report'[inFlight[k]].lost
    <2>1. k # n /\ k > Len(answers)
      BY <1>2, <1>5, <1>8, <1>13
    <2>2. report[inFlight[k]].at = "socket" /\ ~report[inFlight[k]].lost
      BY <2>1 DEF InOrder
    <2> QED BY <1>4, <1>9, <1>11, <2>1, <2>2
  <1>14. Len(answers') <= Len(inFlight)
    BY <1>2, <1>5, <1>6, <1>8
  <1>15. \A j \in Report : report'[j].at = "socket" /\ ~report'[j].lost =>
             \E k \in DOMAIN inFlight : inFlight[k] = j
    BY <1>4 DEF InOrder
  <1>16. \A j \in Report : report'[j].at = "answered" => report'[j].left = {}
    BY <1>4 DEF InOrder
  <1>17. \A k, m \in DOMAIN inFlight : inFlight[k] = inFlight[m] => k = m
    BY DEF InOrder
  <1> QED BY <1>3, <1>12, <1>13, <1>14, <1>15, <1>16, <1>17 DEF InOrder

-----------------------------------------------------------------------------
(* What is marked stays vouched for. *)

\* A mark that stays, of a run that is there: what vouched for it does so still.
LEMMA CarriedKept ==
  ASSUME Carried,
         \A s \in Session : run'[s] # None /\ sent'[s] # None =>
             /\ run[s] # None /\ sent'[s] = sent[s]
             /\ pending[s] = sent[s] =>
                    pending'[s] = sent[s] \/ \E i \in Report : Carries(i, s)'
             /\ <<s, sent[s]>> \in landed => <<s, sent[s]>> \in landed'
             /\ \A i \in Report : Carries(i, s) =>
                    <<s, sent[s]>> \in landed' \/ \E j \in Report : Carries(j, s)'
  PROVE  Carried'
  BY DEF Carried

\* The steps that leave what the desktop waits for as it is.
LEMMA HeardStays ==
  ASSUME UNCHANGED <<inFlight, answers, report>>, NEW i \in Report, NEW s \in Session,
         sent'[s] = sent[s], Carries(i, s)
  PROVE  Carries(i, s)'
  BY DEF Carries, Heard

\* A state that is new is marked and pending at once.
LEMMA NewsCarried ==
  ASSUME Types, InOrder, Carried, (\E s \in Session : Changes(s)) \/ Reload
  PROVE  InOrder' /\ Carried'
  <1>1. UNCHANGED <<inFlight, report, answers>>
    BY DEF Changes, Reload
  <1>2. InOrder'
    BY <1>1 DEF InOrder
  <1>3. run' \in Says /\ \A s \in Session : run'[s] # None => run[s] # None
    <2>1. run \in Says
      BY TypesAre
    <2>2. CASE Reload
      BY <2>1, <2>2 DEF Reload
    <2>3. CASE \E s \in Session : Changes(s)
      <3>1. PICK s \in Session, v \in State \cup {None} :
                run[s] # None /\ run' = [run EXCEPT ![s] = v]
        BY <2>3 DEF Changes
      <3> QED BY <2>1, <3>1 DEF Says
    <2> QED BY <2>2, <2>3
  <1>4. PICK S \in SUBSET Session : Syncs(S, run')
    <2>1. \A s \in Session : {s} \in SUBSET Session
      OBVIOUS
    <2>2. CASE \E s \in Session : Changes(s)
      BY <2>1, <2>2 DEF Changes
    <2>3. CASE Reload
      BY <2>3 DEF Reload
    <2> QED BY <2>2, <2>3
  <1>5. \A s \in Session :
            \/ sent'[s] = run'[s] /\ pending'[s] = run'[s]
            \/ /\ sent'[s] = sent[s] /\ pending'[s] = pending[s]
               /\ \A v : <<s, v>> \in landed => <<s, v>> \in landed'
    BY <1>3, <1>4, SyncsIs DEF Types
  <1>6. ASSUME NEW s \in Session, run'[s] # None, sent'[s] # None
        PROVE  \/ pending'[s] = sent'[s]
               \/ <<s, sent'[s]>> \in landed'
               \/ \E i \in Report : Carries(i, s)'
    <2>1. CASE sent'[s] = run'[s] /\ pending'[s] = run'[s]
      BY <2>1
    <2>2. CASE /\ sent'[s] = sent[s] /\ pending'[s] = pending[s]
               /\ \A v : <<s, v>> \in landed => <<s, v>> \in landed'
      <3>1. \/ pending[s] = sent[s]
            \/ <<s, sent[s]>> \in landed
            \/ \E i \in Report : Carries(i, s)
        BY <1>3, <1>6, <2>2 DEF Carried
      <3> QED BY <1>1, <2>2, <3>1, HeardStays
    <2> QED BY <1>5, <2>1, <2>2
  <1> QED BY <1>2, <1>6 DEF Carried

\* A batch that leaves takes what is pending with it; one that cannot be signed
\* is unmarked.
LEMMA FlushCarried ==
  ASSUME Types, InOrder, Carried, NEW unsigned \in BOOLEAN, Flush(unsigned)
  PROVE  InOrder' /\ Carried'
  <1>1. /\ UNCHANGED <<run, landed, answers>> /\ sent \in Says /\ pending \in Says
        /\ \A s \in Session : sent'[s] \in {sent[s], None}
    BY UnmarkIs, TypesAre DEF Flush, desk, relay
  <1>2. CASE unsigned \/ Batch = Nothing
    <2>1. UNCHANGED <<report, inFlight>> /\ sent' = Unmark(Said(pending), pending)
      BY <1>2 DEF Flush
    <2>2. \A s \in Session : sent'[s] # None => sent'[s] = sent[s] /\ pending[s] # sent[s]
      BY <1>1, <2>1, UnmarkIs DEF Said
    <2>3. InOrder'
      BY <1>1, <2>1 DEF InOrder
    <2>4. Carried'
      BY <1>1, <2>1, <2>2, HeardStays, CarriedKept
    <2> QED BY <2>3, <2>4
  <1>3. CASE ~(unsigned \/ Batch = Nothing)
    <2>1. PICK i \in Free : BySocket(i) \/ ByPost(i)
      BY <1>3 DEF Flush
    <2>2. i \in Report /\ report[i] = NoReport
      BY <2>1 DEF Free
    <2>3. PICK at \in {"socket", "post"} : Leaves(i, at) /\ (at = "socket" <=> BySocket(i))
      BY <2>1 DEF BySocket, ByPost
    <2>4. /\ \A j \in Report : j # i => report'[j] = report[j]
          /\ report'[i].says = Batch /\ report'[i].at = at /\ ~report'[i].lost
          /\ report'[i].left = Said(Batch)
      BY <2>2, <2>3, LeavesIs
    <2>5. report[i].at = "none" /\ \A s \in Session : report[i].says[s] = None
      BY <2>2 DEF NoReport, Nothing
    <2>6. /\ \A k \in DOMAIN inFlight : inFlight[k] # i
          /\ \A k \in DOMAIN answers : answers[k] # i
      BY <2>2, <2>5, FreeIs
    <2>7. /\ InOrder' /\ Heard(i)'
          /\ \A k \in DOMAIN inFlight : \E m \in DOMAIN inFlight' : inFlight'[m] = inFlight[k]
      <3>1. CASE at = "socket"
        <4>1. InOrder' /\ \E k \in DOMAIN inFlight' : inFlight'[k] = i
          BY <1>1, <2>1, <2>3, <3>1, BySocketOrder
        <4>2. \A k \in DOMAIN inFlight : k \in DOMAIN inFlight' /\ inFlight'[k] = inFlight[k]
          <5>1. inFlight \in Seq(Report) /\ inFlight' = Append(inFlight, i)
            BY <2>3, <3>1, TypesAre DEF BySocket
          <5> QED BY <2>2, <5>1, AppendProperties, QueueIs
        <4> QED BY <4>1, <4>2 DEF Heard
      <3>2. CASE at = "post"
        <4>1. UNCHANGED <<inFlight, answers>>
          BY <1>1, <2>1, <2>3, <3>2 DEF ByPost
        <4>2. InOrder'
          <5>1. \A j \in Report :
                   /\ (\E k \in DOMAIN inFlight : inFlight[k] = j) =>
                          report'[j].at = report[j].at /\ report'[j].lost = report[j].lost
                   /\ report'[j].at = "socket" /\ ~report'[j].lost =>
                          report[j].at = "socket" /\ ~report[j].lost
                   /\ report'[j].at = "answered" => report'[j].left = {}
            BY <2>4, <2>6, <3>2 DEF InOrder
          <5> QED BY <4>1, <5>1, OrderKept
        <4>3. Heard(i)'
          BY <2>4, <2>6, <3>2, <4>1 DEF Heard
        <4> QED BY <4>1, <4>2, <4>3
      <3> QED BY <3>1, <3>2
    <2>8. ASSUME NEW s \in Session, run'[s] # None, sent'[s] # None
          PROVE  /\ run[s] # None /\ sent'[s] = sent[s]
                 /\ pending[s] = sent[s] => Carries(i, s)'
                 /\ <<s, sent[s]>> \in landed => <<s, sent[s]>> \in landed'
                 /\ \A j \in Report : Carries(j, s) => Carries(j, s)'
      <3>1. run[s] # None /\ sent'[s] = sent[s]
        BY <1>1, <2>8
      <3>2. ASSUME pending[s] = sent[s] PROVE Carries(i, s)'
        <4>1. Batch[s] = sent[s]
          BY <3>1, <3>2, BatchIs DEF Types
        <4>2. s \in Said(Batch)
          BY <2>8, <3>1, <4>1 DEF Said
        <4> QED BY <2>4, <2>7, <3>1, <4>1, <4>2 DEF Carries
      <3>3. ASSUME NEW j \in Report, Carries(j, s) PROVE Carries(j, s)'
        <4>1. j # i
          BY <2>5, <2>8, <3>1, <3>3 DEF Carries
        <4>2. report'[j] = report[j]
          BY <2>4, <4>1
        <4>3. Heard(j)'
          BY <1>1, <2>7, <3>3, <4>2 DEF Carries, Heard
        <4> QED BY <3>1, <3>3, <4>2, <4>3 DEF Carries
      <3> QED BY <1>1, <3>1, <3>2, <3>3
    <2>9. Carried'
      BY <2>2, <2>8, CarriedKept
    <2> QED BY <2>7, <2>9
  <1> QED BY <1>2, <1>3

\* What report i did not bring onto the board, its own answer unmarks.
LEMMA LearnsIs ==
  ASSUME Types, NEW i \in Report, NEW s \in Session, Learns(i, i), Carries(i, s),
         report[i].left = {}, report[i].at = "answered", run[s] # None, sent[s] # None
  PROVE  sent'[s] = None
  <1>1. sent \in Says /\ report[i].says[s] = sent[s]
    BY TypesAre DEF Carries
  <1>2. s \in Said(report[i].says)
    BY <1>1 DEF Said
  <1>3. ~report[i].ok \/ s \in report[i].denied
    BY DEF Carries
  <1> QED BY <1>1, <1>2, <1>3, UnmarkIs DEF Learns

LEMMA LearnsOnlyUnmarks ==
  ASSUME Types, NEW i, NEW j, Learns(i, j)
  PROVE  \A s \in Session : sent'[s] \in {sent[s], None}
  BY UnmarkIs, TypesAre DEF Learns

LEMMA AnswerCarried ==
  ASSUME Types, InOrder, Carried, AnswerComes PROVE Carried'
  <1> DEFINE i == Head(answers)
  <1>1. /\ i \in Report /\ report[i].at = "answered" /\ report[i].left = {}
        /\ Learns(i, i) /\ answers' = Tail(answers)
        /\ \A j \in Report : j # i =>
               /\ (\E k \in DOMAIN inFlight : inFlight[k] = j) =>
                      report'[j] = report[j] /\ \E k \in DOMAIN inFlight' : inFlight'[k] = j
               /\ report[j].at # "none" => report'[j] = report[j]
    BY AnswerIs
  <1> HIDE DEF i
  <1>2. UNCHANGED <<run, pending, landed>> /\ \A s \in Session : sent'[s] \in {sent[s], None}
    BY <1>1, LearnsOnlyUnmarks DEF AnswerComes, desk, relay
  <1>3. \A k \in DOMAIN answers' : \E m \in DOMAIN answers : answers'[k] = answers[m]
    BY <1>1, TailIs, TypesAre DEF AnswerComes
  <1>4. ASSUME NEW s \in Session, run'[s] # None, sent'[s] # None,
               NEW j \in Report, Carries(j, s)
        PROVE  Carries(j, s)'
    <2>1. sent'[s] = sent[s] /\ run[s] # None /\ j # i
      BY <1>1, <1>2, <1>4, LearnsIs
    <2>2. report'[j] = report[j] /\ Heard(j)'
      <3>1. CASE \E k \in DOMAIN inFlight : inFlight[k] = j
        BY <1>1, <2>1, <3>1 DEF Heard
      <3>2. CASE /\ report[j].at \in {"post", "answered"} /\ ~report[j].lost
                 /\ \A k \in DOMAIN answers : answers[k] # j
        BY <1>1, <1>3, <2>1, <3>2 DEF Heard
      <3> QED BY <1>4, <3>1, <3>2 DEF Carries, Heard
    <2> QED BY <1>4, <2>1, <2>2 DEF Carries
  <1> QED BY <1>2, <1>4, CarriedKept

\* A reply to a POST settles that report and no other.
LEMMA PostAnsweredCarried ==
  ASSUME Types, InOrder, Carried, NEW i \in Report, PostAnswered(i)
  PROVE  InOrder' /\ Carried'
  <1>1. /\ UNCHANGED <<run, pending, landed, inFlight, answers>>
        /\ report[i].at = "answered" /\ Learns(i, i)
        /\ \A k \in DOMAIN answers : answers[k] # i
    BY DEF PostAnswered, desk, relay
  <1>2. report[i].left = {}
    BY <1>1 DEF InOrder
  <1>3. \A k \in DOMAIN inFlight : inFlight[k] # i
    BY <1>1, WaitsWhere
  <1> DEFINE over == [report EXCEPT ![i] = Over(report[i])]
  <1>4. ReportsOK(report)
    BY TypesAre
  <1>5. /\ ReportsOK(over) /\ over[i].at = "none"
        /\ \A j \in Report : j # i => over[j] = report[j]
    <2>1. Over(report[i]).at = "none"
      BY <1>4, OverIs DEF ReportsOK
    <2> QED BY <1>4, <2>1, OverOK DEF ReportsOK
  <1>6. report' = Cleared(over, inFlight)
    BY <1>4 DEF PostAnswered, ReportsOK
  <1> HIDE DEF over
  <1>7. /\ \A j \in Report : j # i =>
               /\ (\E k \in DOMAIN inFlight : inFlight[k] = j) => report'[j] = report[j]
               /\ report[j].at # "none" => report'[j] = report[j]
               /\ report'[j].at = report[j].at
        /\ report'[i].at = "none"
    BY <1>5, <1>6, ClearedIs
  <1>8. InOrder'
    <2>1. \A j \in Report :
             /\ (\E k \in DOMAIN inFlight : inFlight[k] = j) =>
                    report'[j].at = report[j].at /\ report'[j].lost = report[j].lost
             /\ report'[j].at = "socket" /\ ~report'[j].lost =>
                    report[j].at = "socket" /\ ~report[j].lost
             /\ report'[j].at = "answered" => report'[j].left = {}
      BY <1>3, <1>7 DEF InOrder
    <2> QED BY <1>1, <2>1, OrderKept
  <1>9. ASSUME NEW s \in Session, run'[s] # None, sent'[s] # None,
               NEW j \in Report, Carries(j, s)
        PROVE  Carries(j, s)'
    <2>1. sent'[s] = sent[s] /\ run[s] # None
      BY <1>1, <1>9, LearnsOnlyUnmarks
    <2>2. j # i
      BY <1>1, <1>2, <1>9, <2>1, LearnsIs
    <2>3. report'[j] = report[j] /\ Heard(j)'
      BY <1>1, <1>7, <1>9, <2>2 DEF Carries, Heard
    <2> QED BY <1>9, <2>1, <2>3 DEF Carries
  <1>10. Carried'
    BY <1>1, <1>9, LearnsOnlyUnmarks, CarriedKept
  <1> QED BY <1>8, <1>10

\* A POST that fails takes all its marks back.
LEMMA PostFailsCarried ==
  ASSUME Types, InOrder, Carried, NEW i \in Report, PostFails(i)
  PROVE  InOrder' /\ Carried'
  <1>1. /\ UNCHANGED <<run, pending, landed, inFlight, answers>>
        /\ report[i].at = "post" /\ sent \in Says /\ report \in [Report -> Entry]
        /\ sent' = Unmark(Said(report[i].says), report[i].says)
        /\ report' = [report EXCEPT ![i].lost = TRUE]
    BY TypesAre DEF PostFails, desk, relay, ReportsOK
  <1>2. /\ \A j \in Report : j # i => report'[j] = report[j]
        /\ report'[i].at = report[i].at
    BY <1>1 DEF Entry
  <1>3. \A k \in DOMAIN inFlight : inFlight[k] # i
    BY <1>1, FreeIs
  <1>4. InOrder'
    <2>1. \A j \in Report :
             /\ (\E k \in DOMAIN inFlight : inFlight[k] = j) =>
                    report'[j].at = report[j].at /\ report'[j].lost = report[j].lost
             /\ report'[j].at = "socket" /\ ~report'[j].lost =>
                    report[j].at = "socket" /\ ~report[j].lost
             /\ report'[j].at = "answered" => report'[j].left = {}
      BY <1>1, <1>2, <1>3 DEF InOrder
    <2> QED BY <1>1, <2>1, OrderKept
  <1>5. \A s \in Session :
            /\ sent'[s] \in {sent[s], None}
            /\ sent[s] # None /\ report[i].says[s] = sent[s] => sent'[s] = None
    BY <1>1, UnmarkIs DEF Said
  <1>6. ASSUME NEW s \in Session, run'[s] # None, sent'[s] # None,
               NEW j \in Report, Carries(j, s)
        PROVE  Carries(j, s)'
    <2>1. sent'[s] = sent[s] /\ j # i
      BY <1>5, <1>6 DEF Carries
    <2> QED BY <1>1, <1>2, <1>6, <2>1 DEF Carries, Heard
  <1>7. Carried'
    BY <1>1, <1>5, <1>6, CarriedKept
  <1> QED BY <1>4, <1>7

\* With the connection goes what was in flight, and its marks with it.
LEMMA LinkEndsCarried ==
  ASSUME Types, InOrder, Carried, LinkEnds
  PROVE  InOrder' /\ Carried'
  <1>1. /\ UNCHANGED <<run, pending, landed>> /\ answers' = <<>> /\ inFlight' = <<>>
        /\ \A s \in Session : sent'[s] \in {sent[s], None}
        /\ \A s \in Session, k \in DOMAIN inFlight :
               report[inFlight[k]].says[s] = sent[s] => sent'[s] = None
    BY RequeuedIs DEF LinkEnds, desk, relay
  <1>2. report' = Cleared(Cut, <<>>)
    BY DEF LinkEnds, Cut
  <1>3. /\ ReportsOK(Cut)
        /\ \A i \in Report :
                /\ report[i].at = "socket" => Cut[i].at = "socket" /\ Cut[i].lost
                /\ (\A k \in DOMAIN answers : answers[k] # i) /\ report[i].at # "socket" =>
                       Cut[i] = report[i]
                /\ report[i].at = "socket" \/ Cut[i] = report[i] \/ Cut[i].at = "none"
    BY CutIs
  <1> HIDE DEF Cut
  <1>4. \A i \in Report :
            /\ Cut[i].at # "none" => report'[i] = Cut[i]
            /\ report'[i].at = Cut[i].at
    BY <1>2, <1>3, ClearedIs
  <1>5. InOrder'
    <2>1. \A i \in Report : report'[i].at = "socket" => report'[i].lost
      <3> TAKE i \in Report
      <3> HAVE report'[i].at = "socket"
      <3>1. report'[i] = Cut[i] /\ Cut[i].at = "socket"
        BY <1>4
      <3>2. report[i].at = "socket"
        BY <1>3, <3>1
      <3> QED BY <1>3, <3>1, <3>2
    <2>2. \A i \in Report : report'[i].at = "answered" => report'[i].left = {}
      <3> TAKE i \in Report
      <3> HAVE report'[i].at = "answered"
      <3>1. report'[i] = Cut[i] /\ Cut[i].at = "answered"
        BY <1>4
      <3>2. Cut[i] = report[i]
        BY <1>3, <3>1
      <3> QED BY <3>1, <3>2 DEF InOrder
    <2>3. Len(answers') = 0 /\ Len(inFlight') = 0 /\ DOMAIN inFlight' = {}
          /\ DOMAIN answers' = {}
      BY <1>1
    <2> QED BY <2>1, <2>2, <2>3 DEF InOrder
  <1>6. ASSUME NEW s \in Session, run'[s] # None, sent'[s] # None,
               NEW j \in Report, Carries(j, s)
        PROVE  Carries(j, s)'
    <2>1. sent'[s] = sent[s]
      BY <1>1, <1>6
    <2>2. ~\E k \in DOMAIN inFlight : inFlight[k] = j
      BY <1>1, <1>6 DEF Carries
    <2>3. /\ report[j].at \in {"post", "answered"} /\ ~report[j].lost
          /\ \A k \in DOMAIN answers : answers[k] # j
      BY <1>6, <2>2 DEF Carries, Heard
    <2>4. report'[j] = report[j]
      <3>1. Cut[j] = report[j]
        BY <1>3, <2>3
      <3> QED BY <1>4, <2>3, <3>1
    <2>5. Heard(j)'
      <3>1. DOMAIN answers' = {}
        BY <1>1
      <3> QED BY <2>3, <2>4, <3>1 DEF Heard
    <2> QED BY <1>6, <2>1, <2>4, <2>5 DEF Carries
  <1>7. Carried'
    BY <1>1, <1>6, CarriedKept
  <1> QED BY <1>5, <1>7

\* What the relay writes is written; what it does not, the answer will say.
LEMMA WriteCarried ==
  ASSUME Types, InOrder, Carried, NEW i \in Report, NEW s \in Session, Write(i, s)
  PROVE  InOrder' /\ Carried'
  <1>1. UNCHANGED <<run, sent, pending, inFlight, answers>>
    BY DEF Write, desk, marks
  <1>2. /\ \A j \in Report : j # i => report'[j] = report[j]
        /\ report'[i].says = report[i].says /\ report'[i].at = report[i].at
        /\ report'[i].lost = report[i].lost /\ report'[i].ok = report[i].ok
        /\ report'[i].left = report[i].left \ {s}
        /\ \/ /\ report'[i].denied = report[i].denied
              /\ landed' = landed \cup {<<s, report[i].says[s]>>}
           \/ /\ report'[i].denied = report[i].denied \cup {s}
              /\ landed' = landed
        /\ Live(i)
    BY WriteIs
  <1>3. InOrder'
    <2>1. \A j \in Report :
             /\ (\E k \in DOMAIN inFlight : inFlight[k] = j) =>
                    report'[j].at = report[j].at /\ report'[j].lost = report[j].lost
             /\ report'[j].at = "socket" /\ ~report'[j].lost =>
                    report[j].at = "socket" /\ ~report[j].lost
             /\ report'[j].at = "answered" => report'[j].left = {}
      BY <1>2 DEF InOrder, Live
    <2> QED BY <1>1, <2>1, OrderKept
  <1>4. ASSUME NEW t \in Session, NEW j \in Report, Carries(j, t)
        PROVE  <<t, sent[t]>> \in landed' \/ Carries(j, t)'
    <2>1. Heard(j)'
      <3>1. report'[j].at = report[j].at /\ report'[j].lost = report[j].lost
        BY <1>2
      <3> QED BY <1>1, <1>4, <3>1 DEF Carries, Heard
    <2>2. CASE j # i
      BY <1>1, <1>2, <1>4, <2>1, <2>2 DEF Carries
    <2>3. CASE j = i
      <3>1. report'[j].says[t] = sent'[t]
        BY <1>1, <1>2, <1>4, <2>3 DEF Carries
      <3>2. CASE t \in report[j].denied
        BY <1>2, <2>1, <2>3, <3>1, <3>2 DEF Carries
      <3>3. CASE report[j].at = "answered" /\ ~report[j].ok
        BY <1>2, <2>1, <2>3, <3>1, <3>3 DEF Carries
      <3>4. CASE t \in report[j].left /\ t # s
        BY <1>2, <2>1, <2>3, <3>1, <3>4 DEF Carries
      <3>5. CASE t = s
        <4>1. report[i].says[s] = sent[s]
          BY <1>4, <2>3, <3>5 DEF Carries
        <4> QED BY <1>2, <2>1, <2>3, <3>1, <3>5, <4>1 DEF Carries
      <3> QED BY <1>4, <3>2, <3>3, <3>4, <3>5 DEF Carries
    <2> QED BY <2>2, <2>3
  <1>5. Carried'
    <2>1. \A v : v \in landed => v \in landed'
      BY <1>2
    <2> QED BY <1>1, <1>4, <2>1, CarriedKept
  <1> QED BY <1>3, <1>5

\* An answer says no when anything was left or denied.
LEMMA AnswersCarried ==
  ASSUME Types, InOrder, Carried, NEW i \in Report, NEW ok \in BOOLEAN, Answers(i, ok),
         ~Ahead(i)
  PROVE  InOrder' /\ Carried'
  <1>1. UNCHANGED <<run, sent, pending, inFlight, landed>> /\ Live(i)
        /\ (ok => report[i].left = {})
    BY DEF Answers, desk, marks, relay
  <1>2. /\ ReportsOK(Closed(i, ok))
        /\ \A j \in Report : j # i => Closed(i, ok)[j] = report[j]
        /\ Closed(i, ok)[i].at = "answered" /\ Closed(i, ok)[i].ok = ok
        /\ Closed(i, ok)[i].left = {} /\ Closed(i, ok)[i].says = report[i].says
        /\ Closed(i, ok)[i].lost = report[i].lost
        /\ ok => Closed(i, ok)[i].denied = report[i].denied
    BY ClosedIs
  <1>3. CASE report[i].lost
    <2> DEFINE over == [Closed(i, ok) EXCEPT ![i] = Over(Closed(i, ok)[i])]
    <2>1. /\ ReportsOK(over) /\ over[i].at = "none"
          /\ \A j \in Report : j # i => over[j] = report[j]
      <3>1. Over(Closed(i, ok)[i]) \in Entry /\ Over(Closed(i, ok)[i]).left = {}
            /\ Over(Closed(i, ok)[i]).at = "none"
        BY <1>2, OverIs DEF ReportsOK
      <3> HIDE DEF Over, Closed
      <3> QED BY <1>2, <3>1 DEF ReportsOK
    <2>2. report' = Cleared(over, inFlight) /\ answers' = answers
      BY <1>2, <1>3 DEF Answers, Closed, ReportsOK
    <2> HIDE DEF over
    <2>3. /\ \A j \in Report : j # i =>
                 /\ (\E k \in DOMAIN inFlight : inFlight[k] = j) => report'[j] = report[j]
                 /\ report[j].at # "none" => report'[j] = report[j]
                 /\ report'[j].at = report[j].at
          /\ report'[i].at = "none"
      BY <2>1, <2>2, ClearedIs
    <2>4. \A k \in DOMAIN inFlight : inFlight[k] # i
      BY <1>1, <1>3, WaitsWhere DEF Live
    <2>5. InOrder'
      <3>1. \A j \in Report :
               /\ (\E k \in DOMAIN inFlight : inFlight[k] = j) =>
                      report'[j].at = report[j].at /\ report'[j].lost = report[j].lost
               /\ report'[j].at = "socket" /\ ~report'[j].lost =>
                      report[j].at = "socket" /\ ~report[j].lost
               /\ report'[j].at = "answered" => report'[j].left = {}
        BY <2>3, <2>4 DEF InOrder
      <3> QED BY <1>1, <2>2, <3>1, OrderKept
    <2>6. ASSUME NEW s \in Session, NEW j \in Report, Carries(j, s) PROVE Carries(j, s)'
      <3>1. j # i
        BY <1>3, <2>4, <2>6 DEF Carries, Heard
      <3>2. report'[j] = report[j] /\ Heard(j)'
        BY <1>1, <2>2, <2>3, <2>6, <3>1 DEF Carries, Heard
      <3> QED BY <1>1, <2>6, <3>2 DEF Carries
    <2> QED BY <1>1, <2>5, <2>6, CarriedKept
  <1>4. CASE ~report[i].lost
    <2>1. /\ report' = Closed(i, ok)
          /\ answers' = IF report[i].at = "socket" THEN Append(answers, i) ELSE answers
      BY <1>4 DEF Answers, Closed
    <2> HIDE DEF Closed
    <2>2. ASSUME NEW s \in Session, NEW j \in Report, Carries(j, s), InOrder'
          PROVE  Carries(j, s)'
      <3>1. Heard(j)'
        <4>1. CASE \E k \in DOMAIN inFlight : inFlight[k] = j
          BY <1>1, <4>1 DEF Heard
        <4>2. CASE ~\E k \in DOMAIN inFlight : inFlight[k] = j
          <5>1. /\ report[j].at \in {"post", "answered"} /\ ~report[j].lost
                /\ \A k \in DOMAIN answers : answers[k] # j
            BY <2>2, <4>2 DEF Carries, Heard
          <5>2. report'[j].at \in {"post", "answered"} /\ ~report'[j].lost
            BY <1>2, <2>1, <5>1
          <5>3. \A k \in DOMAIN answers' : answers'[k] # j
            <6>1. \A k \in DOMAIN answers' : \E m \in DOMAIN inFlight' :
                      answers'[k] = inFlight'[m]
              <7>1. \A k \in DOMAIN answers' : answers'[k] = inFlight'[k]
                BY <2>2 DEF InOrder
              <7>2. Types'
                BY AnswersTyped
              <7>3. inFlight' \in Seq(Report) /\ answers' \in Seq(Report)
                BY <7>2 DEF Types, TypeOK
              <7>4. /\ DOMAIN inFlight' = 1..Len(inFlight')
                    /\ DOMAIN answers' = 1..Len(answers')
                    /\ Len(inFlight') \in Nat /\ Len(answers') \in Nat
                BY <7>3, QueueIs
              <7>5. Len(answers') <= Len(inFlight')
                BY <2>2 DEF InOrder
              <7> QED BY <7>1, <7>4, <7>5
            <6> QED BY <1>1, <4>2, <6>1
          <5> QED BY <5>2, <5>3 DEF Heard
        <4> QED BY <4>1, <4>2
      <3>2. CASE j # i
        BY <1>1, <1>2, <2>1, <2>2, <3>1, <3>2 DEF Carries
      <3>3. CASE j = i
        <4>1. report'[j].says[s] = sent'[s]
          BY <1>1, <1>2, <2>1, <2>2, <3>3 DEF Carries
        <4>2. CASE ~ok
          BY <1>2, <2>1, <3>1, <3>3, <4>1, <4>2 DEF Carries
        <4>3. CASE ok
          <5>1. report[i].at # "answered" /\ report[i].left = {}
            BY <1>1, <4>3 DEF Live
          <5>2. s \in report[i].denied
            BY <2>2, <3>3, <5>1 DEF Carries
          <5> QED BY <1>2, <2>1, <3>1, <3>3, <4>1, <4>3, <5>2 DEF Carries
        <4> QED BY <4>2, <4>3
      <3> QED BY <3>2, <3>3
    <2>3. InOrder'
      <3>1. CASE report[i].at = "socket"
        BY <1>4, <3>1, AnswersOrder
      <3>2. CASE report[i].at # "socket"
        <4>1. UNCHANGED <<inFlight, answers>> /\ report[i].at = "post"
          BY <1>1, <2>1, <3>2 DEF Live
        <4>2. \A k \in DOMAIN inFlight : inFlight[k] # i
          BY <4>1, FreeIs
        <4>3. \A j \in Report :
                 /\ (\E k \in DOMAIN inFlight : inFlight[k] = j) =>
                        report'[j].at = report[j].at /\ report'[j].lost = report[j].lost
                 /\ report'[j].at = "socket" /\ ~report'[j].lost =>
                        report[j].at = "socket" /\ ~report[j].lost
                 /\ report'[j].at = "answered" => report'[j].left = {}
          BY <1>2, <2>1, <4>2 DEF InOrder
        <4> QED BY <4>1, <4>3, OrderKept
      <3> QED BY <3>1, <3>2
    <2> QED BY <1>1, <2>2, <2>3, CarriedKept
  <1> QED BY <1>3, <1>4

-----------------------------------------------------------------------------
(* Theorem. *)

\* An answer that was late, or overtook another, is remembered.
LEMMA DisorderStays ==
  ASSUME [Next]_vars, disorder' = {} PROVE disorder = {} /\ ~AckTimeout
  <1>1. disorder \subseteq disorder' /\ ~AckTimeout
    <2>1. disorder \subseteq disorder'
      BY DEF Next, Desktop, Relay, Changes, Reload, Flush, AnswerComes, AckTimeout,
         PostAnswered, PostFails, Write, Answers, LinkEnds, LinkComes, vars
    <2>2. AckTimeout => "late" \in disorder'
      BY DEF AckTimeout
    <2> QED BY <2>1, <2>2
  <1> QED BY <1>1

LEMMA StepBelieves ==
  ASSUME BInv, [Next]_vars PROVE BInv'
  <1>1. Types /\ Types'
    BY StepTyped DEF BInv
  <1>2. ASSUME disorder' = {} PROVE InOrder' /\ Carried'
    <2>1. disorder = {} /\ ~AckTimeout /\ InOrder /\ Carried
      BY <1>2, DisorderStays DEF BInv
    <2>2. CASE (\E s \in Session : Changes(s)) \/ Reload
      BY <1>1, <2>1, <2>2, NewsCarried
    <2>3. CASE \E unsigned \in BOOLEAN : Flush(unsigned)
      BY <1>1, <2>1, <2>3, FlushCarried
    <2>4. CASE AnswerComes
      BY <1>1, <2>1, <2>4, AnswerOrder, AnswerCarried
    <2>5. CASE \E i \in Report : PostAnswered(i) \/ PostFails(i)
      BY <1>1, <2>1, <2>5, PostAnsweredCarried, PostFailsCarried
    <2>6. CASE \E i \in Report, s \in Session : Write(i, s)
      BY <1>1, <2>1, <2>6, WriteCarried
    <2>7. ASSUME NEW i \in Report, NEW ok \in BOOLEAN, Answers(i, ok)
          PROVE  InOrder' /\ Carried'
      <3>1. ~Ahead(i)
        <4>1. disorder' = disorder \cup IF Ahead(i) THEN {"overtaken"} ELSE {}
          BY <2>7 DEF Answers
        <4>2. Ahead(i) => "overtaken" \in disorder'
          BY <4>1
        <4> QED BY <1>2, <4>2
      <3> QED BY <1>1, <2>1, <2>7, <3>1, AnswersCarried
    <2>8. CASE LinkEnds
      BY <1>1, <2>1, <2>8, LinkEndsCarried
    <2>9. CASE LinkComes \/ UNCHANGED vars
      <3>1. UNCHANGED <<run, sent, pending, inFlight, report, answers, landed>>
        BY <2>9 DEF LinkComes, vars, desk, marks, relay
      <3>2. InOrder'
        BY <2>1, <3>1 DEF InOrder
      <3> QED BY <2>1, <3>1, <3>2, HeardStays, CarriedKept
    <2> QED BY <2>1, <2>2, <2>3, <2>4, <2>5, <2>6, <2>7, <2>8, <2>9
            DEF Next, Desktop, Relay
  <1> QED BY <1>1, <1>2 DEF BInv

\* What the desktop takes for published, and has nothing under way for, was
\* written on the board after it was marked, for any number of sessions and of
\* reports by socket and by POST, as long as no answer comes late and none
\* overtakes another: denials, refusals, failures midway, lost connections and
\* desktops without a key all end in marks that are taken back
\* (syncOrgTaskAgentStatus, flushOrgTaskAgentStatus, onOrgTaskAgentStatusFrame,
\* requeueOrgTaskAgentStatusInFlight).
THEOREM BeliefIsEarned == Spec => []BelievedInOrder
  <1>1. Init => BInv
    <2>1. Init => InOrder /\ Carried
      BY DEF Init, InOrder, Carried, NoReport, Nothing
    <2> QED BY <2>1, InitTyped DEF BInv
  <1>2. BInv => BelievedInOrder
    <2>1. \A i \in Report, s \in Session : Carries(i, s) => UnderWay(s, sent[s])
      BY DEF Carries, Heard, UnderWay
    <2>2. \A s \in Session : pending[s] = sent[s] => UnderWay(s, sent[s])
      BY DEF UnderWay
    <2> QED BY <2>1, <2>2 DEF BInv, Carried, BelievedInOrder, Believed
  <1>3. BInv /\ [Next]_vars => BInv'
    BY StepBelieves
  <1> QED BY <1>1, <1>2, <1>3, PTL DEF Spec
=============================================================================
