---------------------------- MODULE TriageAgent ----------------------------
(***************************************************************************)
(* One session of the triage agent (orchestrator.py, tools.py) on top of   *)
(* the review service.                                                     *)
(*                                                                         *)
(* The model is external: it may ask for any tools, answer, or fail.  What *)
(* it asks for in one turn is only read when it is that tool's turn, so    *)
(* each tool is chosen then.  A call that writes is a request to the       *)
(* service under the agent's identity: it is sent, taken by a worker or    *)
(* refused, and answered when the worker is done.  The client waits for a  *)
(* limited time; what it gave up may still be taken and written later.     *)
(* The people who use the service meanwhile do as in ReviewService.        *)
(*                                                                         *)
(* EndTurnOneMore, ReceiveKeepingBand, WaitForAnswer, TimeoutUntraced and  *)
(* WorkerStepUnsaved are slips of the definitions after them.              *)
(***************************************************************************)
EXTENDS ReviewProperties, FiniteSets

CONSTANTS
    Agent,      \* the agent's identity
    MaxTurns,   \* MAX_TOOL_TURNS
    MaxTools    \* how many tools the model asks for in one turn

VARIABLES
    phase,        \* where run_agent is
    turn,
    tools_left,   \* how many tools of this turn are still to be run
    last_risk_band,
    pending_human_confirmation,
    trace,
    agent_log,
    in_flight,    \* the calls sent that no worker has taken
    serving,      \* for each worker, the call it works on, or 0
    answer        \* the response to the call that is waited for, or None

session == <<phase, turn, tools_left, last_risk_band, pending_human_confirmation, trace, agent_log>>
wire == <<in_flight, serving, answer>>
agentVars == <<vars, session, wire>>

HighRiskBands == {"high", "critical"}

\* The tools that write.  The others (get_active_rules, get_open_reviews, a name
\* the model makes up) are "read".
ToolUse ==
    [tool : {"evaluate_transaction"}, case_id : Cases, reviewer_id : {None}]
        \cup [tool : {"assign_reviewer"}, case_id : Cases, reviewer_id : UserIds]

ReadUse == [tool |-> "read", case_id |-> None, reviewer_id |-> None]

\* What a tool returned: the band, of an evaluation.
Result ==
    [status : {"done"}, risk_band : RiskBand \cup {None}]
        \cup [status : {"blocked", "error"}, risk_band : {None}]

\* The call that is waited for, and the response once it has come.
Waited == [use : ToolUse, result : Result \cup {None}]

ASSUME AgentAssumption ==
    /\ Agent \in AuthContext
    /\ Agent \notin AuthContexts
    /\ MaxTurns \in Nat \ {0}
    /\ MaxTools \in Nat \ {0}
    /\ None \notin RiskBand \cup Result
    /\ None \notin Waited

Done(band) == [status |-> "done", risk_band |-> band]
Error == [status |-> "error", risk_band |-> None]
Blocked == [status |-> "blocked", risk_band |-> None]

Call == [id : Nat \ {0}, use : ToolUse]

Ended == phase \in {"answered", "turns_used", "failed"}

AgentInit ==
    /\ Init
    /\ phase = "model"
    /\ turn = 0
    /\ tools_left = 0
    /\ last_risk_band = None
    /\ pending_human_confirmation = None
    /\ trace = <<>>
    /\ agent_log = <<>>
    /\ in_flight = {}
    /\ serving = [w \in Workers |-> 0]
    /\ answer = None

-----------------------------------------------------------------------------
(***************************************************************************)
(* The turns of the model.                                                 *)
(***************************************************************************)

Log(event, band) ==
    agent_log' = Append(agent_log, [event |-> event, last_risk_band |-> band, trace |-> trace])

ModelAsksForTools ==
    /\ phase = "model"
    /\ phase' = "tools"
    /\ tools_left' \in 1 .. MaxTools
    /\ UNCHANGED <<vars, wire, turn, last_risk_band, pending_human_confirmation, trace, agent_log>>

ModelAnswers ==
    /\ phase = "model"
    /\ phase' = "answered"
    /\ Log("agent_final_response", last_risk_band)
    /\ UNCHANGED <<vars, wire, turn, tools_left, last_risk_band, pending_human_confirmation, trace>>

\* messages.create raises: the exception leaves run_agent, and nothing is logged.
ModelFails ==
    /\ phase = "model"
    /\ phase' = "failed"
    /\ UNCHANGED <<vars, wire, turn, tools_left, last_risk_band, pending_human_confirmation, trace,
                   agent_log>>

\* _append_log raises, with a final answer at hand or the turns used up: the
\* exception leaves run_agent, which returns neither.
LogFails ==
    /\ \/ phase = "model"
       \/ phase = "tools" /\ tools_left = 0 /\ turn + 1 = MaxTurns
    /\ phase' = "failed"
    /\ UNCHANGED <<vars, wire, turn, tools_left, last_risk_band, pending_human_confirmation, trace,
                   agent_log>>

EndTurnOneMore ==
    /\ phase = "tools"
    /\ tools_left = 0
    /\ turn' = turn + 1
    /\ IF turn + 1 <= MaxTurns
       THEN phase' = "model" /\ UNCHANGED agent_log
       ELSE phase' = "turns_used" /\ Log("max_turns_exceeded", None)
    /\ UNCHANGED <<vars, wire, tools_left, last_risk_band, pending_human_confirmation, trace>>

\* Every tool of the turn has run: another turn, or the turn limit.
EndTurn ==
    /\ phase = "tools"
    /\ tools_left = 0
    /\ turn' = turn + 1
    /\ IF turn + 1 < MaxTurns
       THEN phase' = "model" /\ UNCHANGED agent_log
       ELSE phase' = "turns_used" /\ Log("max_turns_exceeded", None)
    /\ UNCHANGED <<vars, wire, tools_left, last_risk_band, pending_human_confirmation, trace>>

-----------------------------------------------------------------------------
(***************************************************************************)
(* The tools of a turn.                                                    *)
(***************************************************************************)

Traced(use, result) ==
    /\ trace' = Append(trace, [use |-> use, result |-> result])
    /\ tools_left' = tools_left - 1

\* _blocked_tool_call, and the band of the session's last evaluation.
Gated(use) ==
    /\ use.tool = "assign_reviewer"
    /\ last_risk_band \in HighRiskBands

BlockTool(use) ==
    /\ phase = "tools"
    /\ tools_left > 0
    /\ Gated(use)
    /\ Traced(use, Blocked)
    /\ pending_human_confirmation' = [use |-> use, risk_band |-> last_risk_band]
    /\ UNCHANGED <<vars, wire, phase, turn, last_risk_band, agent_log>>

\* A tool that reads, or that does not exist.  What it returned, or that it
\* raised, makes no difference to the session and is left out.
ReadTool ==
    /\ phase = "tools"
    /\ tools_left > 0
    /\ Traced(ReadUse, Done(None))
    /\ UNCHANGED <<vars, wire, phase, turn, last_risk_band, pending_human_confirmation, agent_log>>

\* The id of a call is the place its result will have in the trace.
ThisCall == Len(trace) + 1

SendCall(use) ==
    /\ phase = "tools"
    /\ tools_left > 0
    /\ ~Gated(use)
    /\ phase' = "waiting"
    /\ in_flight' = in_flight \cup {[id |-> ThisCall, use |-> use]}
    /\ answer' = [use |-> use, result |-> None]
    /\ UNCHANGED <<vars, serving, turn, tools_left, last_risk_band, pending_human_confirmation, trace,
                   agent_log>>

ReceiveKeepingBand ==
    /\ phase = "waiting"
    /\ answer.result # None
    /\ Traced(answer.use, answer.result)
    /\ phase' = "tools"
    /\ answer' = None
    /\ last_risk_band' =
           IF answer.result.status = "done" /\ last_risk_band = None
           THEN answer.result.risk_band ELSE last_risk_band
    /\ UNCHANGED <<vars, in_flight, serving, turn, pending_human_confirmation, agent_log>>

\* The response has come; an evaluation's tells the band.
ReceiveAnswer ==
    /\ phase = "waiting"
    /\ answer.result # None
    /\ Traced(answer.use, answer.result)
    /\ phase' = "tools"
    /\ answer' = None
    /\ last_risk_band' =
           IF answer.use.tool = "evaluate_transaction" /\ answer.result.status = "done"
           THEN answer.result.risk_band ELSE last_risk_band
    /\ UNCHANGED <<vars, in_flight, serving, turn, pending_human_confirmation, agent_log>>

WaitForAnswer == phase = "waiting" /\ UNCHANGED agentVars

TimeoutUntraced ==
    /\ phase = "waiting"
    /\ answer.result = None
    /\ tools_left' = tools_left - 1
    /\ phase' = "tools"
    /\ answer' = None
    /\ UNCHANGED <<vars, in_flight, serving, turn, last_risk_band, pending_human_confirmation, trace,
                   agent_log>>

\* The client has waited its 15 s.  The service knows nothing of it.
ClientTimeout ==
    /\ phase = "waiting"
    /\ answer.result = None
    /\ Traced(answer.use, Error)
    /\ phase' = "tools"
    /\ answer' = None
    /\ UNCHANGED <<vars, in_flight, serving, turn, last_risk_band, pending_human_confirmation, agent_log>>

-----------------------------------------------------------------------------
(***************************************************************************)
(* The service.                                                            *)
(***************************************************************************)

\* The answer to a call reaches the client if it still waits for it.
Respond(id, result) ==
    answer' = IF phase = "waiting" /\ id = ThisCall THEN [answer EXCEPT !.result = result]
              ELSE answer

\* A worker begins with a call of the agent.
TakeCall(w, call) ==
    /\ call \in in_flight
    /\ \/ /\ call.use.tool = "evaluate_transaction"
          /\ \E verdict \in Verdicts : EvaluateCase(w, Agent, call.use.case_id, verdict)
       \/ /\ call.use.tool = "assign_reviewer"
          /\ AssignReview(w, Agent, call.use.case_id, call.use.reviewer_id)
    /\ in_flight' = in_flight \ {call}
    /\ serving' = [serving EXCEPT ![w] = call.id]
    /\ UNCHANGED <<session, answer>>

\* assign_review refuses the agent's role, a case that is not under review and a
\* completed one; evaluate_case what it cannot read or has no rule for.
Refuses(use) ==
    use.tool = "assign_reviewer" =>
        ~(/\ Agent.role = "compliance_manager"
          /\ UnderReview(use.case_id)
          /\ decisions[use.case_id].review_status # "completed")

RefuseCall(call) ==
    /\ call \in in_flight
    /\ Refuses(call.use)
    /\ in_flight' = in_flight \ {call}
    /\ Respond(call.id, Error)
    /\ UNCHANGED <<vars, session, serving>>

\* A worker takes a request of somebody else.
TakeRequest(w) ==
    /\ \E user \in AuthContexts, case_id \in Cases : Handle(w, user, case_id)
    /\ UNCHANGED <<session, wire>>

\* What the response to the agent's call on this worker says, once it is written.
ResultOf(w) ==
    Done(IF request[w].event_type = "decision_evaluated" THEN request[w].decision.risk_band ELSE None)

EndWith(w, result) ==
    /\ IF serving[w] # 0 THEN Respond(serving[w], result) ELSE UNCHANGED answer
    /\ serving' = [serving EXCEPT ![w] = 0]
    /\ UNCHANGED <<session, in_flight>>

WorkerStepUnsaved(w) ==
    \/ SaveReview(w) /\ UNCHANGED <<session, wire>>
    \/ SaveDecision(w) /\ EndWith(w, ResultOf(w))
    \/ AbortRequest(w) /\ EndWith(w, ResultOf(w))

WorkerStep(w) ==
    \/ SaveReview(w) /\ UNCHANGED <<session, wire>>
    \/ SaveDecision(w) /\ EndWith(w, ResultOf(w))
    \/ AbortRequest(w) /\ EndWith(w, Error)

-----------------------------------------------------------------------------
SessionStep ==
    \/ ModelAsksForTools
    \/ ModelAnswers
    \/ ModelFails
    \/ LogFails
    \/ EndTurn
    \/ \E use \in ToolUse : BlockTool(use) \/ SendCall(use)
    \/ ReadTool
    \/ ReceiveAnswer
    \/ ClientTimeout

ServiceStep ==
    \/ \E call \in in_flight : RefuseCall(call) \/ \E w \in Workers : TakeCall(w, call)
    \/ \E w \in Workers : TakeRequest(w) \/ WorkerStep(w)

AgentNext == SessionStep \/ ServiceStep

\* The loop goes on by itself: the model's client and the HTTP client both give
\* up in the end.  Of the service nothing is assumed.
AgentSpec == AgentInit /\ [][AgentNext]_agentVars /\ WF_agentVars(SessionStep)

-----------------------------------------------------------------------------
(***************************************************************************)
(* Properties.                                                             *)
(***************************************************************************)

TraceEntry == [use : ToolUse \cup {ReadUse}, result : Result]

LogEntry ==
    [event : {"agent_final_response", "max_turns_exceeded"},
     last_risk_band : RiskBand \cup {None}, trace : Seq(TraceEntry)]

\* The session's variables have their types, and each call belongs to one of its
\* tools.
AgentTypeOK ==
    /\ TypeOK
    /\ phase \in {"model", "tools", "waiting", "answered", "turns_used", "failed"}
    /\ turn \in 0 .. MaxTurns
    /\ tools_left \in 0 .. MaxTools
    /\ last_risk_band \in RiskBand \cup {None}
    /\ pending_human_confirmation \in [use : ToolUse, risk_band : HighRiskBands] \cup {None}
    /\ trace \in Seq(TraceEntry)
    /\ agent_log \in Seq(LogEntry)
    /\ in_flight \subseteq Call
    /\ \A call \in in_flight : call.id <= ThisCall
    /\ serving \in [Workers -> 0 .. ThisCall]
    /\ answer \in Waited \cup {None}
    /\ phase = "waiting" <=> answer # None

\* What the session tells of its calls: its trace while it runs, and what it
\* logged and returned when it has answered or used its turns.  A session that
\* failed tells nothing.
Account ==
    CASE phase \in {"answered", "turns_used"} -> agent_log[Len(agent_log)].trace
      [] phase = "failed" -> <<>>
      [] OTHER -> trace

Tools == {"evaluate_transaction", "assign_reviewer"}

EventOf(tool) ==
    IF tool = "evaluate_transaction" THEN "decision_evaluated" ELSE "review_assigned"

Written(tool, case_id) ==
    {i \in 1 .. Len(decision_history) :
        /\ decision_history[i].actor = Agent
        /\ decision_history[i].case_id = case_id
        /\ decision_history[i].event_type = EventOf(tool)}

Reported(tool, case_id, status) ==
    {i \in 1 .. Len(Account) :
        /\ Account[i].use.tool = tool
        /\ Account[i].use.case_id = case_id
        /\ Account[i].result.status = status}

Waiting(tool, case_id) ==
    IF phase = "waiting" /\ answer.use.tool = tool /\ answer.use.case_id = case_id THEN 1 ELSE 0

\* The session's account agrees with the audit history: what it tells to be done
\* is there, and what is there under the agent's name it tells to be done, or to
\* be an error, or is still waiting for, unless it has failed and tells nothing.
\* A call that timed out may be written or not, and after the session has ended,
\* too; a blocked one never is.
HistoryAccountedFor ==
    \A tool \in Tools, c \in Cases :
        LET done == Cardinality(Reported(tool, c, "done"))
            unsure == Cardinality(Reported(tool, c, "error")) + Waiting(tool, c)
            written == Cardinality(Written(tool, c))
        IN  /\ done <= written
            /\ phase # "failed" => written <= done + unsure

\* The band of the last evaluation that was answered before the i-th tool ran.
BandBefore(i) ==
    LET answered == {j \in 1 .. (i - 1) :
            trace[j].use.tool = "evaluate_transaction" /\ trace[j].result.status = "done"}
    IN  IF answered = {} THEN None
        ELSE trace[CHOOSE j \in answered : \A k \in answered : k <= j].result.risk_band

\* As the trace tells it: an assignment was blocked exactly when the last
\* evaluation answered before it was of high risk; a confirmation is asked for
\* exactly when some assignment was blocked, and it is the last such one.
GateFollowsTrace ==
    LET asked == {i \in 1 .. Len(trace) : trace[i].use.tool = "assign_reviewer"}
        blocked == {i \in asked : trace[i].result.status = "blocked"}
    IN  /\ blocked = {i \in asked : BandBefore(i) \in HighRiskBands}
        /\ IF blocked = {} THEN pending_human_confirmation = None
           ELSE LET last == CHOOSE i \in blocked : \A j \in blocked : j <= i
                IN  pending_human_confirmation =
                        [use |-> trace[last].use, risk_band |-> BandBefore(last)]

\* The agent never makes up a band: the one it reports, and holds the gate by, the
\* engine gave to a case that the agent had evaluated, and the audit history says so.
BandFromEngine ==
    last_risk_band # None =>
        \E i \in 1 .. Len(decision_history) :
            /\ decision_history[i].actor = Agent
            /\ decision_history[i].event_type = "decision_evaluated"
            /\ decision_history[i].record.risk_band = last_risk_band

\* However the model asks, and whether or not the service answers, a session ends.
SessionEnds == <>Ended

\* "Blocks autonomous HIGH/CRITICAL reviewer assignment pending human confirmation":
\* no case of high risk is assigned by the agent.
AgentGate ==
    \A i \in 1 .. Len(decision_history) :
        decision_history[i].actor = Agent /\ decision_history[i].event_type = "review_assigned"
            => decision_history[i].record.risk_band \notin HighRiskBands

\* "Writes every tool call + the model's rationale to an append-only agent decision
\* log": when a session has ended, the log has every call of its that the audit
\* history has.
CallsLogged ==
    Ended =>
        \A tool \in Tools, c \in Cases : Written(tool, c) # {} =>
            \E i \in DOMAIN agent_log : \E j \in DOMAIN agent_log[i].trace :
                LET use == agent_log[i].trace[j].use
                IN  use.tool = tool /\ use.case_id = c
=============================================================================
