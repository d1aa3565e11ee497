------------------------------ MODULE AgentStatus ------------------------------
(***************************************************************************)
(* How a desktop publishes the state of its agents' runs on the task board   *)
(* (MainWindowAgents.cpp), over the link of a NodeEventSocket or by HTTPS,   *)
(* and how the relay takes and answers it (the node object of entry.py,      *)
(* world_office_tasks.py).                                                  *)
(*                                                                         *)
(* The desktop marks a state as sent before it is, and takes the mark back   *)
(* when it learns that it was not.  An answer on the socket names no report: *)
(* the desktop gives it to the oldest one that waits.                       *)
(***************************************************************************)
EXTENDS NodeLink, Naturals, FiniteSets, SequencesExt

CONSTANTS
    Session,     \* agent sessions, each with a task on the board
    State,       \* states of a run
    None,
    Report,      \* names of the reports under way, 1 to a bound
    MaxEntries,  \* how many entries fit a frame
    MaxNews      \* bound on the changes of the runs and reloads of their list

ASSUME StatusAssumption ==
    /\ None \notin State
    /\ Report \subseteq Nat \ {0}
    /\ {MaxEntries, MaxNews} \subseteq Nat

VARIABLES
    run,         \* session -> state of its run, None once it is deleted
    news,        \* how often one changed, or their list was reloaded
    sent,        \* m_orgTaskAgentStatusSent
    pending,     \* m_orgTaskAgentStatusPending
    flushing,    \* m_orgTaskAgentStatusFlushQueued
    inFlight,    \* m_orgTaskAgentStatusInFlight, as reports
    waiting,     \* m_orgTaskAgentStatusAckTimer is active
    report,      \* report -> what it says, and how far the relay is with it
    answers,     \* answers on their way down the present connection
    board,       \* session -> state on its task
    landed,      \* what was written since it was marked (for properties only)
    disorder     \* whether an answer was late, or overtook another (likewise)

marks == <<sent, pending, flushing>>
desk == <<run, news>>
relay == <<board, landed>>
vars == <<desk, marks, inFlight, waiting, report, answers, relay, disorder, linkVars>>

Says == [Session -> State \cup {None}]
Nothing == [s \in Session |-> None]
Said(says) == {s \in Session : says[s] # None}

\* "left" is still to be written, "denied" was not written.  The desktop no
\* longer hears the answer to a report that is "lost".
Entry == [says : Says, at : {"none", "socket", "post", "answered"}, ok : BOOLEAN,
          lost : BOOLEAN, left : SUBSET Session, denied : SUBSET Session]
NoReport == [says |-> Nothing, at |-> "none", ok |-> FALSE, lost |-> FALSE,
             left |-> {}, denied |-> {}]

Live(i) == report[i].at \in {"socket", "post"}

Init ==
    /\ LinkInit
    /\ run \in [Session -> State] /\ news = 0
    /\ sent = Nothing /\ pending = Nothing /\ flushing = FALSE
    /\ inFlight = <<>> /\ waiting = FALSE
    /\ report = [i \in Report |-> NoReport]
    /\ answers = <<>> /\ board = Nothing /\ landed = {} /\ disorder = {}

-----------------------------------------------------------------------------
(* The desktop: what it has to say. *)

\* syncOrgTaskAgentStatus of the sessions of S, whose states are new.
Syncs(S, new) ==
    LET due == {s \in S : new[s] # None /\ sent[s] # new[s]} IN
    /\ sent' = [s \in Session |-> IF s \in due THEN new[s] ELSE sent[s]]
    /\ pending' = [s \in Session |-> IF s \in due THEN new[s] ELSE pending[s]]
    /\ flushing' = (flushing \/ due # {})
    /\ landed' = landed \ {<<s, new[s]>> : s \in due}

\* A run's state changes (updateAgentStatusCell), or the session is deleted.
Changes(s) ==
    /\ news < MaxNews /\ run[s] # None
    /\ \E v \in (State \cup {None}) \ {run[s]} :
        /\ run' = [run EXCEPT ![s] = v]
        /\ Syncs({s}, run')
    /\ news' = news + 1
    /\ UNCHANGED <<inFlight, waiting, report, answers, board, disorder, linkVars>>

\* reloadAgents
Reload ==
    /\ news < MaxNews /\ news' = news + 1
    /\ Syncs(Session, run)
    /\ UNCHANGED <<run, inFlight, waiting, report, answers, board, disorder, linkVars>>

\* The marks of what was said are taken back, unless they say more by now.
Unmark(S, says) ==
    [s \in Session |-> IF s \in S /\ sent[s] = says[s] THEN None ELSE sent[s]]

\* What is pending of sessions that are still there.
Batch == [s \in Session |-> IF run[s] = None THEN None ELSE pending[s]]

\* Batch leaves as report i, whose place is free.
Leaves(i, at) ==
    report' = [report EXCEPT ![i] =
                  [NoReport EXCEPT !.says = Batch, !.at = at, !.left = Said(Batch)]]

BySocket(i) ==
    /\ offers /\ Cardinality(Said(Batch)) <= MaxEntries
    /\ Leaves(i, "socket")
    /\ inFlight' = Append(inFlight, i) /\ waiting' = TRUE

ByPost(i) ==
    /\ ~ (offers /\ Cardinality(Said(Batch)) <= MaxEntries)
    /\ Leaves(i, "post")
    /\ UNCHANGED <<inFlight, waiting>>

Free == {i \in Report : report[i] = NoReport}
Lowest(i) == \A j \in Free : i <= j

\* flushOrgTaskAgentStatus: "unsigned" is a desktop with no key to sign with.
Flush(unsigned) ==
    LET gone == Said(pending) \ Said(Batch) IN
    /\ flushing /\ flushing' = FALSE /\ pending' = Nothing
    /\ IF unsigned \/ Batch = Nothing
       THEN /\ sent' = Unmark(Said(pending), pending)
            /\ UNCHANGED <<report, inFlight, waiting>>
       ELSE /\ sent' = Unmark(gone, pending)
            /\ \E i \in Free : Lowest(i) /\ (BySocket(i) \/ ByPost(i))
    /\ UNCHANGED <<desk, answers, relay, disorder, linkVars>>

-----------------------------------------------------------------------------
(* The desktop: what it learns. *)

\* A mutant: only the answer as a whole is looked at, not its entries.
LearnsWhole(i, j) ==
    sent' = Unmark({s \in Said(report[j].says) : ~report[i].ok}, report[j].says)

\* applyOrgTaskAgentStatusResult, of the answer to report i, for report j.  A
\* task the answer does not name counts as accepted.
Learns(i, j) ==
    sent' = Unmark({s \in Said(report[j].says) :
                        ~report[i].ok \/ (run[s] # None /\ s \in report[i].denied)},
                   report[j].says)

\* The places of the reports of S that neither side needs any more.
Cleared(reports, waits) ==
    [i \in Report |->
        IF reports[i].at = "none" /\ \A k \in DOMAIN waits : waits[k] # i
        THEN NoReport ELSE reports[i]]
Over(r) == [r EXCEPT !.at = "none", !.ok = FALSE, !.left = {}, !.denied = {}]

\* A mutant: any answer stops the timer.
AnswerStopsTimer ==
    /\ answers # <<>>
    /\ answers' = Tail(answers)
    /\ inFlight' = IF inFlight = <<>> THEN <<>> ELSE Tail(inFlight)
    /\ waiting' = FALSE
    /\ IF inFlight = <<>> THEN UNCHANGED sent ELSE Learns(Head(answers), Head(inFlight))
    /\ report' = Cleared([report EXCEPT ![Head(answers)] = Over(@)], inFlight')
    /\ UNCHANGED <<desk, pending, flushing, relay, disorder, linkVars>>

\* onOrgTaskAgentStatusFrame
AnswerComes ==
    /\ answers # <<>>
    /\ answers' = Tail(answers)
    /\ LET i == Head(answers) IN
       IF inFlight = <<>>
       THEN /\ report' = Cleared([report EXCEPT ![i] = Over(@)], inFlight)
            /\ UNCHANGED <<inFlight, waiting, sent>>
       ELSE /\ inFlight' = Tail(inFlight)
            /\ waiting' = (inFlight' # <<>>)
            /\ Learns(i, Head(inFlight))
            /\ report' = Cleared([report EXCEPT ![i] = Over(@)], inFlight')
    /\ UNCHANGED <<desk, pending, flushing, relay, disorder, linkVars>>

\* The reply to the POST of report i has finished.
PostAnswered(i) ==
    /\ report[i].at = "answered" /\ \A k \in DOMAIN answers : answers[k] # i
    /\ Learns(i, i)
    /\ report' = Cleared([report EXCEPT ![i] = Over(@)], inFlight)
    /\ UNCHANGED <<desk, pending, flushing, inFlight, waiting, answers, relay,
                   disorder, linkVars>>

\* It finished with an error of the network, or was never sent because the host
\* is in its backoff: the relay may yet have it.
PostFails(i) ==
    /\ report[i].at = "post" /\ ~report[i].lost
    /\ sent' = Unmark(Said(report[i].says), report[i].says)
    /\ report' = [report EXCEPT ![i].lost = TRUE]
    /\ UNCHANGED <<desk, pending, flushing, inFlight, waiting, answers, relay,
                   disorder, linkVars>>

\* A mutant: what is given up stays marked.
RequeuedKeepsMarks == inFlight' = <<>> /\ waiting' = FALSE /\ UNCHANGED sent

\* requeueOrgTaskAgentStatusInFlight
Requeued ==
    /\ inFlight' = <<>> /\ waiting' = FALSE
    /\ sent' = [s \in Session |->
                   IF \E k \in DOMAIN inFlight : report[inFlight[k]].says[s] = sent[s]
                   THEN None ELSE sent[s]]

\* The timer of 30 s that an answer or another report starts anew.
AckTimeout ==
    /\ waiting
    /\ Requeued
    /\ report' = Cleared(report, <<>>)
    /\ disorder' = disorder \cup {"late"}
    /\ UNCHANGED <<desk, pending, flushing, answers, relay, linkVars>>

\* connectedChanged(false), or stopNodeEventSocket.  Answers are lost with the
\* connection; what was sent may still reach the relay.
LinkEnds ==
    /\ GoesDown \/ SwitchOff
    /\ Requeued
    /\ answers' = <<>>
    /\ report' = Cleared([i \in Report |->
                     IF report[i].at = "socket" THEN [report[i] EXCEPT !.lost = TRUE]
                     ELSE IF \E k \in DOMAIN answers : answers[k] = i THEN Over(report[i])
                     ELSE report[i]], <<>>)
    /\ UNCHANGED <<desk, pending, flushing, relay, disorder>>

LinkComes ==
    /\ SwitchOn \/ GoesUp \/ Hello
    /\ UNCHANGED <<desk, marks, inFlight, waiting, report, answers, relay, disorder>>

-----------------------------------------------------------------------------
(* The relay.  The handlers of two reports overlap wherever one awaits. *)

\* _apply_agent_status: the entry of s is written, or it is denied.
Write(i, s) ==
    /\ Live(i) /\ s \in report[i].left
    /\ \/ /\ board' = [board EXCEPT ![s] = report[i].says[s]]
          /\ landed' = landed \cup {<<s, report[i].says[s]>>}
          /\ report' = [report EXCEPT ![i].left = @ \ {s}]
       \/ /\ report' = [report EXCEPT ![i].left = @ \ {s}, ![i].denied = @ \cup {s}]
          /\ UNCHANGED relay
    /\ UNCHANGED <<desk, marks, inFlight, waiting, answers, disorder, linkVars>>

\* Report k was sent on this connection before report i, and has no answer yet.
Ahead(i) ==
    \E k, m \in DOMAIN inFlight : k < m /\ inFlight[m] = i /\ Live(inFlight[k])

\* The answer: all entries were dealt with, or the relay is over its budget, the
\* proof is bad or the handler failed midway.  Nobody hears it when the
\* connection is gone, and a frame may be lost with its connection.
Answers(i, ok) ==
    /\ Live(i) /\ (ok => report[i].left = {})
    /\ LET closed == [report EXCEPT ![i].at = "answered", ![i].ok = ok, ![i].left = {},
                                    ![i].denied = IF ok THEN @ ELSE {}] IN
       IF report[i].lost
       THEN report' = Cleared([closed EXCEPT ![i] = Over(@)], inFlight) /\ UNCHANGED answers
       ELSE /\ report' = closed
            /\ answers' = IF report[i].at = "socket" THEN Append(answers, i) ELSE answers
    /\ disorder' = disorder \cup IF Ahead(i) THEN {"overtaken"} ELSE {}
    /\ UNCHANGED <<desk, marks, inFlight, waiting, relay, linkVars>>

Desktop ==
    \/ \E s \in Session : Changes(s)
    \/ Reload
    \/ \E unsigned \in BOOLEAN : Flush(unsigned)
    \/ AnswerComes
    \/ AckTimeout
    \/ \E i \in Report : PostAnswered(i) \/ PostFails(i)

Relay == \E i \in Report :
    \/ \E s \in Session : Write(i, s)
    \/ \E ok \in BOOLEAN : Answers(i, ok)

Next == Desktop \/ Relay \/ LinkEnds \/ LinkComes

Spec == Init /\ [][Next]_vars

\* The event loop fires a timer that runs and is not started anew; nothing is
\* asked of the relay, which may be too busy to answer, or gone.
FairSpec == Spec /\ WF_vars(AckTimeout)

-----------------------------------------------------------------------------
(* Properties. *)

\* The maps, queues and reports keep their types; only states that a run had reach
\* the board.
TypeOK ==
    /\ link \in {"off", "down", "up"} /\ offers \in BOOLEAN
    /\ run \in Says /\ news \in 0..MaxNews
    /\ sent \in Says /\ pending \in Says /\ flushing \in BOOLEAN
    /\ inFlight \in Seq(Report) /\ waiting \in BOOLEAN
    /\ report \in [Report -> Entry]
    /\ answers \in Seq(Report)
    /\ board \in Says /\ landed \subseteq Session \X State /\ disorder \subseteq {"late", "overtaken"}

\* A report that waits for its answer is watched: the link it left on is still up,
\* and the timer that will give it up is running.  There is no report the desktop
\* believes in for ever because nobody will ever answer.
InFlightIsWatched ==
    inFlight # <<>> => waiting /\ link = "up"

\* The desktop still has to hear of state v of session s.
UnderWay(s, v) ==
    \/ pending[s] = v
    \/ \E i \in Report :
        /\ report[i].says[s] = v
        /\ \/ \E k \in DOMAIN inFlight : inFlight[k] = i
           \/ report[i].at \in {"post", "answered"} /\ ~report[i].lost
                /\ \A k \in DOMAIN answers : answers[k] # i

\* What the desktop takes for published, and has nothing under way for, was
\* written on the board after it was marked.
Believed ==
    \A s \in Session :
        run[s] # None /\ sent[s] # None =>
            UnderWay(s, sent[s]) \/ <<s, sent[s]>> \in landed

\* So it is as long as the relay answers in order and in time: whatever else is
\* denied, refused, lost with a connection or left unsigned is unmarked again, so
\* that the next reload sends it.
BelievedInOrder == disorder # {} \/ Believed

\* What entry.py 47653-47657 says of a report it refuses at once: the node "would
\* otherwise be left believing it landed - answer the refusal, which [...] puts the
\* states back in its queue".  No answer came late, yet a refusal that overtakes
\* the answer to an earlier report takes back the marks of that one.
RefusalIsNotBelieved == "late" \in disorder \/ Believed

\* What is sent on the socket is answered or given up, even if the relay never
\* answers: unless the desktop flushes without end, which starts the timer anew
\* each time, nothing waits for ever.
NothingWaitsForever ==
    \/ []<><<\E unsigned \in BOOLEAN : Flush(unsigned)>>_vars
    \/ inFlight # <<>> ~> inFlight = <<>>
=============================================================================
