------------------------- MODULE TriageAgentProofs -------------------------
(***************************************************************************)
(* The safety properties of the triage agent's session, for every number   *)
(* of turns, tools, cases, workers and other users.                        *)
(*                                                                         *)
(* The agent's calls are requests like those of other users, so the        *)
(* invariant of the service holds as it does without the agent.  What the  *)
(* session accounts for depends on where each of its calls is: still in    *)
(* flight, on a worker, or ended.  A call that is still open is waited for *)
(* or was traced as an error, and no call is open twice.                   *)
(***************************************************************************)
EXTENDS TriageAgent, ReviewServiceProofs, FiniteSetTheorems

-----------------------------------------------------------------------------
(***************************************************************************)
(* The invariant.                                                          *)
(***************************************************************************)

\* A session that has not ended has a turn to run, and one that waits a tool.
SessionHasRoom ==
    /\ ~Ended => turn < MaxTurns
    /\ phase = "waiting" => tools_left > 0

\* What a session logs when it ends is the trace, which is final by then.
LogHasTrace ==
    phase \in {"answered", "turns_used"} =>
        /\ Len(agent_log) > 0
        /\ agent_log[Len(agent_log)].trace = trace

\* A worker with a call of the agent has a request of the agent, and only such
\* a worker has.
WorkersServe ==
    \A w \in Workers :
        IF serving[w] = 0 THEN Busy(w) => request[w].actor # Agent
        ELSE /\ Busy(w)
             /\ request[w].actor = Agent
             /\ request[w].event_type \in {"decision_evaluated", "review_assigned"}
             /\ request[w].review = None

\* No call is sent twice, or served twice, or served and still in flight.
CallsApart ==
    /\ \A a, b \in in_flight : a.id = b.id => a = b
    /\ \A v, w \in Workers : serving[v] = serving[w] /\ serving[v] # 0 => v = w
    /\ \A call \in in_flight, w \in Workers : serving[w] # call.id

\* Of the open calls, only the one that is waited for is not in the trace, and it
\* has no answer.
OpenCallsAwaited ==
    /\ \A call \in in_flight : call.id = ThisCall =>
           /\ phase = "waiting"
           /\ answer.result = None
           /\ answer.use = call.use
    /\ \A w \in Workers : serving[w] = ThisCall =>
           /\ phase = "waiting"
           /\ answer.result = None
           /\ request[w].event_type = EventOf(answer.use.tool)
           /\ request[w].case_id = answer.use.case_id

\* A call that is waited for passed the gate, which nobody moves meanwhile.
WaitedPassedGate ==
    phase = "waiting" =>
        /\ ~Gated(answer.use)
        /\ answer.result # None => answer.result.status \in {"done", "error"}

\* The history has an evaluation by the agent that gave this band.
Evaluated(band) ==
    \E i \in 1 .. Len(decision_history) :
        /\ decision_history[i].actor = Agent
        /\ decision_history[i].event_type = "decision_evaluated"
        /\ decision_history[i].record.risk_band = band

\* The band of an answer that has not been looked at yet.
Told ==
    IF /\ phase = "waiting"
       /\ answer.result # None
       /\ answer.use.tool = "evaluate_transaction"
       /\ answer.result.status = "done"
    THEN answer.result.risk_band ELSE None

BandsEvaluated ==
    /\ last_risk_band # None => Evaluated(last_risk_band)
    /\ Told # None => Evaluated(Told)

BandFollowsTrace == last_risk_band = BandBefore(Len(trace) + 1)

\* The calls of this tool for this case that the service may still write.
OpenCalls(tool, case_id) ==
    {id \in 1 .. ThisCall :
        \/ \E call \in in_flight :
               call.id = id /\ call.use.tool = tool /\ call.use.case_id = case_id
        \/ \E w \in Workers :
               /\ serving[w] = id
               /\ request[w].event_type = EventOf(tool)
               /\ request[w].case_id = case_id}

InTrace(tool, case_id, status) ==
    {i \in 1 .. Len(trace) :
        /\ trace[i].use.tool = tool
        /\ trace[i].use.case_id = case_id
        /\ trace[i].result.status = status}

\* 1 if the answer says that the call is done and is not in the trace yet.
Unread(tool, case_id) ==
    IF /\ phase = "waiting"
       /\ answer.result # None
       /\ answer.use.tool = tool
       /\ answer.use.case_id = case_id
       /\ answer.result.status = "done"
    THEN 1 ELSE 0

\* What is written was reported as done, or its answer has just come, or it may
\* have been given up; and then it and what is still open was given up each on
\* its own.
CallsCounted(tool, case_id) ==
    LET done == Cardinality(InTrace(tool, case_id, "done"))
        error == Cardinality(InTrace(tool, case_id, "error"))
        written == Cardinality(Written(tool, case_id))
    IN  /\ done + Unread(tool, case_id) <= written
        /\ written + Cardinality(OpenCalls(tool, case_id))
               <= done + error + Waiting(tool, case_id)

AllCounted == \A tool \in Tools, c \in Cases : CallsCounted(tool, c)

AgentInvariant ==
    /\ ServiceInvariant
    /\ AgentTypeOK
    /\ SessionHasRoom
    /\ LogHasTrace
    /\ WorkersServe
    /\ CallsApart
    /\ OpenCallsAwaited
    /\ WaitedPassedGate
    /\ BandsEvaluated
    /\ BandFollowsTrace
    /\ GateFollowsTrace
    /\ AllCounted
-----------------------------------------------------------------------------
(***************************************************************************)
(* The service under the agent.                                            *)
(***************************************************************************)

\* The worker takes a call of the agent for a request of the agent's.
Agents(r, call) ==
    /\ r.case_id = call.use.case_id
    /\ r.event_type = EventOf(call.use.tool)
    /\ r.actor = Agent
    /\ r.review = None

LEMMA CallTaken ==
    ASSUME AgentTypeOK, NEW w \in Workers, NEW call \in in_flight, TakeCall(w, call)
    PROVE  /\ ~Busy(w)
           /\ UNCHANGED tables
           /\ \E r : Agents(r, call) /\ request' = [request EXCEPT ![w] = r]
<1>1. CASE /\ call.use.tool = "evaluate_transaction"
           /\ \E verdict \in Verdicts : EvaluateCase(w, Agent, call.use.case_id, verdict)
    BY <1>1 DEF EvaluateCase, Admits, Plan, Agents, EventOf, TakeCall
<1>2. CASE /\ call.use.tool = "assign_reviewer"
           /\ AssignReview(w, Agent, call.use.case_id, call.use.reviewer_id)
    BY <1>2 DEF AssignReview, Admits, Plan, Agents, EventOf, TakeCall
<1>3. QED BY <1>1, <1>2 DEF TakeCall

\* So a call of the agent is planned as anybody's request is.
LEMMA CallIsPlanned ==
    ASSUME ServiceInvariant, AgentTypeOK, NEW w \in Workers, NEW call \in in_flight,
           TakeCall(w, call)
    PROVE  Planned(w)
<1>1. /\ Agent \in AuthContext
      /\ call.use \in ToolUse
    BY AgentAssumption DEF AgentTypeOK, Call
<1>2. /\ call.use.case_id \in Cases
      /\ call.use.tool = "assign_reviewer" => call.use.reviewer_id \in UserIds
    BY <1>1 DEF ToolUse
<1>3. Handle(w, Agent, call.use.case_id)
    BY <1>2 DEF TakeCall, Handle
<1>4. QED BY <1>1, <1>2, <1>3, HandleIsPlanned DEF ServiceInvariant

\* The agent changes the tables of the service by its handlers only.
LEMMA AgentStepMoves ==
    ASSUME ServiceInvariant, AgentTypeOK, [AgentNext]_agentVars
    PROVE  [Moves]_vars
<1>1. SessionStep => UNCHANGED vars
    BY DEF SessionStep, ModelAsksForTools, ModelAnswers, ModelFails, LogFails, EndTurn, BlockTool,
           SendCall, ReadTool, ReceiveAnswer, ClientTimeout
<1>2. ASSUME NEW call \in in_flight, RefuseCall(call)
      PROVE  UNCHANGED vars
    BY <1>2 DEF RefuseCall
<1>3. ASSUME NEW call \in in_flight, NEW w \in Workers, TakeCall(w, call)
      PROVE  Moves
    BY <1>3, CallIsPlanned DEF Moves
<1>4. ASSUME NEW w \in Workers, TakeRequest(w)
      PROVE  Moves
  <2>1. PICK user \in AuthContexts, c \in Cases : Handle(w, user, c)
    BY <1>4 DEF TakeRequest
  <2>2. user \in AuthContext
    BY ServiceAssumption
  <2>3. QED BY <2>1, <2>2, HandleIsPlanned DEF ServiceInvariant, Moves
<1>5. ASSUME NEW w \in Workers, WorkerStep(w)
      PROVE  Moves
    BY <1>5 DEF WorkerStep, Moves
<1>6. UNCHANGED agentVars => UNCHANGED vars
    BY DEF agentVars
<1>7. QED BY <1>1, <1>2, <1>3, <1>4, <1>5, <1>6 DEF AgentNext, ServiceStep

-----------------------------------------------------------------------------
(***************************************************************************)
(* Types.                                                                  *)
(***************************************************************************)

LEMMA AnswerWaited ==
    ASSUME AgentTypeOK, phase = "waiting"
    PROVE  /\ answer \in Waited
           /\ answer.use \in ToolUse
           /\ answer.result # None => answer.result \in Result
BY DEF AgentTypeOK, Waited

LEMMA ResultTypes ==
    /\ Error \in Result
    /\ Blocked \in Result
    /\ \A band \in RiskBand \cup {None} : Done(band) \in Result
    /\ ReadUse \notin ToolUse
BY DEF Error, Blocked, Done, Result, ReadUse, ToolUse

LEMMA TraceGrows ==
    ASSUME AgentTypeOK, NEW e \in TraceEntry, trace' = Append(trace, e)
    PROVE  /\ trace' \in Seq(TraceEntry)
           /\ Len(trace) \in Nat
           /\ Len(trace') = Len(trace) + 1
           /\ ThisCall' = ThisCall + 1
           /\ trace'[Len(trace) + 1] = e
           /\ \A i \in 1 .. Len(trace) : trace'[i] = trace[i]
<1>1. trace \in Seq(TraceEntry)
    BY DEF AgentTypeOK
<1>2. QED BY <1>1 DEF ThisCall

LEMMA LogGrows ==
    ASSUME AgentTypeOK, NEW event \in {"agent_final_response", "max_turns_exceeded"},
           NEW band \in RiskBand \cup {None}, Log(event, band)
    PROVE  /\ agent_log' \in Seq(LogEntry)
           /\ Len(agent_log') > 0
           /\ agent_log'[Len(agent_log')].trace = trace
<1>. DEFINE e == [event |-> event, last_risk_band |-> band, trace |-> trace]
<1>1. trace \in Seq(TraceEntry) /\ agent_log \in Seq(LogEntry)
    BY DEF AgentTypeOK
<1>2. e \in LogEntry /\ e.trace = trace
    BY <1>1 DEF LogEntry
<1>3. agent_log' = Append(agent_log, e)
    BY DEF Log
<1>. HIDE DEF e
<1>4. QED BY <1>1, <1>2, <1>3

\* A response leaves what is waited for, or completes it.
LEMMA RespondTyped ==
    ASSUME AgentTypeOK, NEW id, NEW result \in Result, Respond(id, result)
    PROVE  /\ answer' \in Waited \cup {None}
           /\ answer' # None <=> answer # None
<1>1. CASE phase = "waiting" /\ id = ThisCall
  <2>1. answer \in Waited
    BY <1>1, AnswerWaited
  <2>2. answer' = [answer EXCEPT !.result = result]
    BY <1>1 DEF Respond
  <2>3. answer' \in Waited
    BY <2>1, <2>2 DEF Waited
  <2>4. QED BY <2>1, <2>3, AgentAssumption
<1>2. CASE ~(phase = "waiting" /\ id = ThisCall)
    BY <1>2 DEF Respond, AgentTypeOK
<1>3. QED BY <1>1, <1>2

LEMMA SessionTyped ==
    ASSUME AgentTypeOK, SessionHasRoom, SessionStep, TypeOK'
    PROVE  AgentTypeOK'
<1>. USE AgentAssumption
<1>1. CASE ModelAsksForTools
    BY <1>1 DEF ModelAsksForTools, AgentTypeOK, wire, ThisCall
<1>2. CASE ModelAnswers \/ ModelFails \/ LogFails
  <2>1. agent_log' \in Seq(LogEntry)
    BY <1>2, LogGrows DEF ModelAnswers, ModelFails, LogFails, AgentTypeOK
  <2>2. QED BY <1>2, <2>1 DEF ModelAnswers, ModelFails, LogFails, AgentTypeOK, wire, ThisCall
<1>3. CASE EndTurn
  <2>1. agent_log' \in Seq(LogEntry)
    BY <1>3, LogGrows DEF EndTurn, AgentTypeOK
  <2>2. turn' \in 0 .. MaxTurns
    BY <1>3 DEF EndTurn, AgentTypeOK, SessionHasRoom, Ended
  <2>3. QED BY <1>3, <2>1, <2>2 DEF EndTurn, AgentTypeOK, wire, ThisCall
<1>4. ASSUME NEW use \in ToolUse, BlockTool(use) PROVE AgentTypeOK'
  <2>1. [use |-> use, result |-> Blocked] \in TraceEntry
    BY ResultTypes DEF TraceEntry
  <2>2. trace' \in Seq(TraceEntry) /\ ThisCall \in Nat /\ ThisCall' = ThisCall + 1
    BY <1>4, <2>1, TraceGrows DEF BlockTool, Traced, ThisCall
  <2>3. in_flight' \subseteq Call /\ \A call \in in_flight' : call.id <= ThisCall'
    BY <1>4, <2>2 DEF BlockTool, wire, AgentTypeOK, Call
  <2>4. serving' \in [Workers -> 0 .. ThisCall']
    BY <1>4, <2>2 DEF BlockTool, wire, AgentTypeOK
  <2>5. QED BY <1>4, <2>2, <2>3, <2>4 DEF BlockTool, Traced, Gated, AgentTypeOK, wire
<1>5. ASSUME NEW use \in ToolUse, SendCall(use) PROVE AgentTypeOK'
  <2>1. ThisCall \in Nat \ {0} /\ ThisCall' = ThisCall
    BY <1>5 DEF SendCall, ThisCall, AgentTypeOK
  <2>2. [id |-> ThisCall, use |-> use] \in Call
    BY <2>1 DEF Call
  <2>3. [use |-> use, result |-> None] \in Waited
    BY DEF Waited
  <2>4. QED BY <1>5, <2>1, <2>2, <2>3 DEF SendCall, AgentTypeOK
<1>6. CASE ReadTool
  <2>1. [use |-> ReadUse, result |-> Done(None)] \in TraceEntry
    BY ResultTypes DEF TraceEntry
  <2>2. trace' \in Seq(TraceEntry) /\ ThisCall \in Nat /\ ThisCall' = ThisCall + 1
    BY <1>6, <2>1, TraceGrows DEF ReadTool, Traced, ThisCall
  <2>3. in_flight' \subseteq Call /\ \A call \in in_flight' : call.id <= ThisCall'
    BY <1>6, <2>2 DEF ReadTool, wire, AgentTypeOK, Call
  <2>4. serving' \in [Workers -> 0 .. ThisCall']
    BY <1>6, <2>2 DEF ReadTool, wire, AgentTypeOK
  <2>5. QED BY <1>6, <2>2, <2>3, <2>4 DEF ReadTool, Traced, AgentTypeOK, wire
<1>7. CASE ReceiveAnswer \/ ClientTimeout
  <2>1. PICK result \in Result : Traced(answer.use, result)
    BY <1>7, AnswerWaited, ResultTypes DEF ReceiveAnswer, ClientTimeout
  <2>2. phase = "waiting" /\ phase' = "tools" /\ answer' = None
    BY <1>7 DEF ReceiveAnswer, ClientTimeout
  <2>3. [use |-> answer.use, result |-> result] \in TraceEntry
    BY <2>2, AnswerWaited DEF TraceEntry
  <2>4. trace' \in Seq(TraceEntry) /\ ThisCall \in Nat /\ ThisCall' = ThisCall + 1
    BY <2>1, <2>3, TraceGrows DEF Traced, ThisCall
  <2>5. in_flight' \subseteq Call /\ \A call \in in_flight' : call.id <= ThisCall'
    BY <1>7, <2>4 DEF ReceiveAnswer, ClientTimeout, AgentTypeOK, Call
  <2>6. serving' \in [Workers -> 0 .. ThisCall']
    BY <1>7, <2>4 DEF ReceiveAnswer, ClientTimeout, AgentTypeOK
  <2>7. last_risk_band' \in RiskBand \cup {None}
    BY <1>7, <2>2, AnswerWaited DEF ReceiveAnswer, ClientTimeout, AgentTypeOK, Result
  <2>8. tools_left' \in 0 .. MaxTools
    BY <2>1, <2>2 DEF Traced, AgentTypeOK, SessionHasRoom
  <2>9. QED
      BY <1>7, <2>2, <2>4, <2>5, <2>6, <2>7, <2>8 DEF ReceiveAnswer, ClientTimeout, AgentTypeOK
<1>8. QED
    BY <1>1, <1>2, <1>3, <1>4, <1>5, <1>6, <1>7 DEF SessionStep

LEMMA ServiceTyped ==
    ASSUME AgentTypeOK, TypeOK, WorkersServe, ServiceStep, TypeOK'
    PROVE  AgentTypeOK'
<1>1. ASSUME NEW call \in in_flight, RefuseCall(call) PROVE AgentTypeOK'
  <2>1. answer' \in Waited \cup {None} /\ (answer' # None <=> answer # None)
    BY <1>1, RespondTyped, ResultTypes DEF RefuseCall
  <2>2. QED BY <1>1, <2>1 DEF RefuseCall, AgentTypeOK, session, ThisCall
<1>2. ASSUME NEW call \in in_flight, NEW w \in Workers, TakeCall(w, call) PROVE AgentTypeOK'
  <2>1. call.id \in 0 .. ThisCall
    BY DEF AgentTypeOK, Call, ThisCall
  <2>2. QED BY <1>2, <2>1 DEF TakeCall, AgentTypeOK, session, ThisCall
<1>3. ASSUME NEW w \in Workers, TakeRequest(w) PROVE AgentTypeOK'
    BY <1>3 DEF TakeRequest, AgentTypeOK, session, wire, ThisCall
<1>4. ASSUME NEW w \in Workers, WorkerStep(w) PROVE AgentTypeOK'
  <2>1. CASE SaveReview(w) /\ UNCHANGED <<session, wire>>
    BY <2>1 DEF AgentTypeOK, session, wire, ThisCall
  <2>2. CASE \E result \in Result : EndWith(w, result)
    <3>1. PICK result \in Result : EndWith(w, result)
      BY <2>2
    <3>2. answer' \in Waited \cup {None} /\ (answer' # None <=> answer # None)
      BY <3>1, RespondTyped DEF EndWith, AgentTypeOK
    <3>3. serving' \in [Workers -> 0 .. ThisCall]
      BY <3>1 DEF EndWith, AgentTypeOK, ThisCall
    <3>4. QED BY <3>1, <3>2, <3>3 DEF EndWith, AgentTypeOK, session, ThisCall
  <2>3. SaveDecision(w) => ResultOf(w) \in Result
    <3>1. SaveDecision(w) => request[w].decision.risk_band \in RiskBand
      BY BusyRequest DEF SaveDecision, Request, DecisionRecord
    <3>2. QED BY <3>1, ResultTypes DEF ResultOf
  <2>4. QED BY <1>4, <2>1, <2>2, <2>3, ResultTypes DEF WorkerStep
<1>5. QED BY <1>1, <1>2, <1>3, <1>4 DEF ServiceStep

LEMMA StepAgentTyped ==
    ASSUME AgentInvariant, [AgentNext]_agentVars
    PROVE  AgentTypeOK'
<1>1. TypeOK'
    BY AgentStepMoves, StepInvariant DEF AgentInvariant, ServiceInvariant
<1>2. CASE UNCHANGED agentVars
    BY <1>1, <1>2 DEF AgentInvariant, AgentTypeOK, agentVars, session, wire, ThisCall
<1>3. QED
    BY <1>1, <1>2, SessionTyped, ServiceTyped
    DEF AgentInvariant, ServiceInvariant, AgentNext

-----------------------------------------------------------------------------
(***************************************************************************)
(* The session by itself.                                                  *)
(***************************************************************************)

LEMMA ServiceKeepsSession == ServiceStep => UNCHANGED session
BY DEF ServiceStep, RefuseCall, TakeCall, TakeRequest, WorkerStep, EndWith

LEMMA SessionKeepsService == SessionStep => UNCHANGED <<vars, serving>>
BY DEF SessionStep, ModelAsksForTools, ModelAnswers, ModelFails, LogFails, EndTurn, BlockTool,
       SendCall, ReadTool, ReceiveAnswer, ClientTimeout, wire

LEMMA StepSessionHasRoom ==
    ASSUME AgentInvariant, [AgentNext]_agentVars
    PROVE  SessionHasRoom'
<1>. USE DEF SessionHasRoom, Ended
<1>1. CASE UNCHANGED session
    BY <1>1 DEF session, AgentInvariant
<1>2. CASE SessionStep
    BY <1>2 DEF AgentInvariant, AgentTypeOK, SessionStep, ModelAsksForTools, ModelAnswers,
       ModelFails, LogFails, EndTurn, BlockTool, SendCall, ReadTool, ReceiveAnswer, ClientTimeout
<1>3. QED BY <1>1, <1>2, ServiceKeepsSession DEF AgentNext, agentVars

LEMMA StepLogHasTrace ==
    ASSUME AgentInvariant, [AgentNext]_agentVars
    PROVE  LogHasTrace'
<1>1. CASE UNCHANGED session
    BY <1>1 DEF session, AgentInvariant, LogHasTrace
<1>2. CASE SessionStep
  <2>1. CASE ModelAnswers
    BY <2>1, LogGrows DEF ModelAnswers, LogHasTrace, AgentInvariant, AgentTypeOK
  <2>2. CASE EndTurn
    BY <2>2, LogGrows DEF EndTurn, LogHasTrace, AgentInvariant, AgentTypeOK
  <2>3. CASE ~(ModelAnswers \/ EndTurn)
    <3>1. phase' \in {"tools", "failed", "waiting"}
      BY <1>2, <2>3
      DEF SessionStep, ModelAsksForTools, ModelFails, LogFails, BlockTool, SendCall, ReadTool,
          ReceiveAnswer, ClientTimeout
    <3>2. QED BY <3>1 DEF LogHasTrace
  <2>4. QED BY <2>1, <2>2, <2>3
<1>3. QED BY <1>1, <1>2, ServiceKeepsSession DEF AgentNext, agentVars

\* A response tells the call that is waited for from the others.
LEMMA RespondTells ==
    ASSUME AgentTypeOK, NEW id, NEW result, Respond(id, result)
    PROVE  /\ phase = "waiting" /\ id = ThisCall =>
                  answer'.use = answer.use /\ answer'.result = result
           /\ ~(phase = "waiting" /\ id = ThisCall) => answer' = answer
<1>1. phase = "waiting" => answer \in Waited
    BY AnswerWaited
<1>2. QED BY <1>1 DEF Respond, Waited

\* How the service ends a call: with an error, or with what it has saved.
LEMMA ServiceAnswers ==
    ASSUME AgentTypeOK, ServiceStep, phase = "waiting"
    PROVE  /\ answer'.use = answer.use
           /\ \/ answer'.result = answer.result
              \/ answer'.result.status \in {"done", "error"}
<1>. USE DEF Error, Done, ResultOf
<1>1. ASSUME NEW call \in in_flight, RefuseCall(call)
      PROVE  /\ answer'.use = answer.use
             /\ answer'.result = answer.result \/ answer'.result.status \in {"done", "error"}
    BY <1>1, RespondTells DEF RefuseCall
<1>2. ASSUME NEW w \in Workers, NEW result, EndWith(w, result),
             result.status \in {"done", "error"}
      PROVE  /\ answer'.use = answer.use
             /\ answer'.result = answer.result \/ answer'.result.status \in {"done", "error"}
    BY <1>2, RespondTells DEF EndWith
<1>3. QED
    BY <1>1, <1>2 DEF ServiceStep, TakeCall, TakeRequest, WorkerStep, wire

LEMMA StepWaitedPassedGate ==
    ASSUME AgentInvariant, [AgentNext]_agentVars
    PROVE  WaitedPassedGate'
<1>. USE DEF AgentInvariant, WaitedPassedGate, Gated
<1>1. CASE UNCHANGED agentVars
    BY <1>1 DEF agentVars, session, wire
<1>2. CASE SessionStep
    BY <1>2 DEF SessionStep, ModelAsksForTools, ModelAnswers, ModelFails, LogFails, EndTurn, BlockTool,
                SendCall, ReadTool, ReceiveAnswer, ClientTimeout
<1>3. CASE ServiceStep
    BY <1>3, ServiceAnswers, ServiceKeepsSession DEF session
<1>4. QED BY <1>1, <1>2, <1>3 DEF AgentNext

-----------------------------------------------------------------------------
(***************************************************************************)
(* Where each call of the agent is.                                        *)
(***************************************************************************)

\* What a worker takes from somebody else is not of the agent.
LEMMA RequestTaken ==
    ASSUME NEW w \in Workers, TakeRequest(w)
    PROVE  /\ ~Busy(w)
           /\ UNCHANGED <<tables, session, wire>>
           /\ \E r : r.actor # Agent /\ request' = [request EXCEPT ![w] = r]
<1>1. PICK user \in AuthContexts, c \in Cases : Handle(w, user, c)
    BY DEF TakeRequest
<1>2. user # Agent
    BY AgentAssumption
<1>3. ~Busy(w) /\ UNCHANGED tables /\ \E r : r.actor = user /\ request' = [request EXCEPT ![w] = r]
    BY <1>1 DEF Handle, EvaluateCase, AssignReview, StartReview, SubmitReview, ReopenReview,
                Admits, Plan
<1>4. QED BY <1>2, <1>3 DEF TakeRequest

\* The handler on this worker ends, with its decision saved or without.
LEMMA HandlerEnds ==
    ASSUME TypeOK, NEW w \in Workers, SaveDecision(w) \/ AbortRequest(w)
    PROVE  request' = [request EXCEPT ![w] = NoRequest] /\ request'[w] = NoRequest
BY DEF SaveDecision, AbortRequest, TypeOK

\* A worker that has a review still to save has no call of the agent.
LEMMA ReviewNotAgents ==
    ASSUME WorkersServe, NEW w \in Workers, SaveReview(w)
    PROVE  serving[w] = 0
BY DEF WorkersServe, SaveReview

LEMMA StepWorkersServe ==
    ASSUME AgentInvariant, [AgentNext]_agentVars
    PROVE  WorkersServe'
<1>. USE DEF AgentInvariant, Busy
<1>0. TypeOK /\ serving \in [Workers -> 0 .. ThisCall] /\ request \in [Workers -> Request \cup {NoRequest}]
    BY DEF AgentTypeOK, TypeOK
<1>1. CASE UNCHANGED <<request, serving>>
    BY <1>1 DEF WorkersServe
<1>2. ASSUME NEW call \in in_flight, NEW w \in Workers, TakeCall(w, call) PROVE WorkersServe'
  <2>1. PICK r : Agents(r, call) /\ request' = [request EXCEPT ![w] = r]
    BY <1>2, CallTaken
  <2>2. serving' = [serving EXCEPT ![w] = call.id] /\ call.id # 0 /\ call.use \in ToolUse
    BY <1>2 DEF TakeCall, AgentTypeOK, Call
  <2>3. r.event_type \in {"decision_evaluated", "review_assigned"} /\ r # NoRequest
    BY <2>1, <2>2 DEF Agents, EventOf, ToolUse, NoRequest
  <2>4. QED BY <1>0, <2>1, <2>2, <2>3 DEF WorkersServe, Agents
<1>3. ASSUME NEW w \in Workers, TakeRequest(w) PROVE WorkersServe'
    BY <1>0, <1>3, RequestTaken DEF WorkersServe, wire
<1>4. ASSUME NEW w \in Workers, SaveReview(w), UNCHANGED wire PROVE WorkersServe'
  <2>1. serving[w] = 0 /\ request[w].actor # Agent
    BY <1>4, ReviewNotAgents DEF WorkersServe, SaveReview
  <2>2. request[w] \in Request /\ request' = [request EXCEPT ![w].review = None]
    BY <1>0, <1>4, BusyRequest DEF SaveReview
  <2>3. request'[w].actor = request[w].actor
    BY <1>0, <2>2 DEF Request
  <2>4. QED BY <1>0, <1>4, <2>1, <2>2, <2>3 DEF WorkersServe, wire
<1>5. ASSUME NEW w \in Workers, SaveDecision(w) \/ AbortRequest(w),
             serving' = [serving EXCEPT ![w] = 0]
      PROVE  WorkersServe'
    BY <1>0, <1>5, HandlerEnds DEF WorkersServe
<1>6. QED
    BY <1>1, <1>2, <1>3, <1>4, <1>5, SessionKeepsService
    DEF AgentNext, ServiceStep, RefuseCall, WorkerStep, EndWith, agentVars, vars, wire

LEMMA CallIds ==
    ASSUME AgentTypeOK
    PROVE  /\ ThisCall \in Nat \ {0}
           /\ \A call \in in_flight :
                  call.id \in 1 .. ThisCall /\ call.use \in ToolUse
           /\ serving \in [Workers -> 0 .. ThisCall]
BY DEF AgentTypeOK, ThisCall, Call

\* A step that traces something closes the place of the next call.
LEMMA TracingSteps ==
    ASSUME AgentTypeOK, SessionStep
    PROVE  \/ ThisCall' = ThisCall /\ UNCHANGED trace /\ phase # "waiting"
           \/ ThisCall' = ThisCall + 1 /\ phase' = "tools" /\ UNCHANGED in_flight
<1>1. ASSUME NEW use, NEW result, Traced(use, result)
      PROVE  ThisCall' = ThisCall + 1
    BY <1>1 DEF Traced, ThisCall, AgentTypeOK
<1>2. QED
    BY <1>1 DEF SessionStep, ModelAsksForTools, ModelAnswers, ModelFails, LogFails, EndTurn, BlockTool,
                SendCall, ReadTool, ReceiveAnswer, ClientTimeout, ThisCall, wire

LEMMA StepCallsApart ==
    ASSUME AgentInvariant, [AgentNext]_agentVars
    PROVE  CallsApart'
<1>. USE CallIds DEF AgentInvariant
<1>1. CASE UNCHANGED <<in_flight, serving>>
    BY <1>1 DEF CallsApart
<1>2. ASSUME NEW use \in ToolUse, SendCall(use) PROVE CallsApart'
  <2>1. /\ \A call \in in_flight : call.id # ThisCall
        /\ \A w \in Workers : serving[w] # ThisCall
    BY <1>2 DEF SendCall, OpenCallsAwaited
  <2>2. QED BY <1>2, <2>1 DEF SendCall, CallsApart
<1>3. ASSUME NEW call \in in_flight, NEW w \in Workers, TakeCall(w, call) PROVE CallsApart'
  <2>1. /\ in_flight' = in_flight \ {call}
        /\ serving' = [serving EXCEPT ![w] = call.id]
    BY <1>3 DEF TakeCall
  <2>2. QED BY <2>1 DEF CallsApart
<1>4. ASSUME in_flight' \subseteq in_flight,
             \A w \in Workers : serving'[w] \in {0, serving[w]}
      PROVE  CallsApart'
    BY <1>4 DEF CallsApart
<1>5. SessionStep => UNCHANGED <<in_flight, serving>> \/ \E use \in ToolUse : SendCall(use)
    BY DEF SessionStep, ModelAsksForTools, ModelAnswers, ModelFails, LogFails, EndTurn, BlockTool,
           ReadTool, ReceiveAnswer, ClientTimeout, wire
<1>6. QED
    BY <1>1, <1>2, <1>3, <1>4, <1>5
    DEF AgentNext, ServiceStep, RefuseCall, TakeRequest, WorkerStep, EndWith, agentVars, wire

LEMMA StepOpenCallsAwaited ==
    ASSUME AgentInvariant, [AgentNext]_agentVars
    PROVE  OpenCallsAwaited'
<1>. USE CallIds DEF AgentInvariant
<1>0. TypeOK
    BY DEF AgentTypeOK
<1>1. CASE UNCHANGED agentVars
    BY <1>1 DEF OpenCallsAwaited, agentVars, session, wire, vars, ThisCall
<1>2. CASE SessionStep
  <2>0. UNCHANGED <<request, serving>>
    BY <1>2, SessionKeepsService DEF vars
  <2>1. CASE ThisCall' = ThisCall + 1 /\ phase' = "tools" /\ UNCHANGED in_flight
    BY <2>0, <2>1 DEF OpenCallsAwaited
  <2>2. ASSUME NEW use \in ToolUse, SendCall(use) PROVE OpenCallsAwaited'
    <3>1. /\ \A call \in in_flight : call.id # ThisCall
          /\ \A w \in Workers : serving[w] # ThisCall
      BY <2>2 DEF SendCall, OpenCallsAwaited
    <3>2. ThisCall' = ThisCall
      BY <2>2 DEF SendCall, ThisCall
    <3>3. QED BY <2>2, <3>1, <3>2 DEF SendCall, OpenCallsAwaited
  <2>3. CASE /\ ThisCall' = ThisCall /\ UNCHANGED trace /\ phase # "waiting"
             /\ ~\E use \in ToolUse : SendCall(use)
    <3>1. UNCHANGED in_flight
      BY <1>2, <2>3
      DEF SessionStep, ModelAsksForTools, ModelAnswers, ModelFails, LogFails, EndTurn, BlockTool,
          ReadTool, ReceiveAnswer, ClientTimeout, wire
    <3>2. QED BY <2>0, <2>3, <3>1 DEF OpenCallsAwaited
  <2>4. QED BY <1>2, <2>1, <2>2, <2>3, TracingSteps
<1>3. ASSUME ServiceStep PROVE OpenCallsAwaited'
  <2>0. UNCHANGED session /\ ThisCall' = ThisCall
    BY <1>3, ServiceKeepsSession DEF session, ThisCall
  <2>1. ASSUME NEW call \in in_flight, RefuseCall(call) PROVE OpenCallsAwaited'
    <3>1. UNCHANGED <<request, serving>> /\ in_flight' = in_flight \ {call}
      BY <2>1 DEF RefuseCall, vars
    <3>2. CASE call.id = ThisCall
      BY <2>0, <3>1, <3>2 DEF CallsApart, OpenCallsAwaited
    <3>3. CASE call.id # ThisCall
      <4>1. answer' = answer
        BY <2>1, <3>3, RespondTells DEF RefuseCall
      <4>2. QED BY <2>0, <3>1, <4>1 DEF OpenCallsAwaited, session
    <3>4. QED BY <3>2, <3>3
  <2>2. ASSUME NEW call \in in_flight, NEW w \in Workers, TakeCall(w, call)
        PROVE  OpenCallsAwaited'
    <3>1. PICK r : Agents(r, call) /\ request' = [request EXCEPT ![w] = r]
      BY <2>2, CallTaken
    <3>2. /\ in_flight' = in_flight \ {call}
          /\ serving' = [serving EXCEPT ![w] = call.id]
          /\ answer' = answer
      BY <2>2 DEF TakeCall
    <3>3. request'[w] = r
      BY <1>0, <3>1 DEF TypeOK
    <3>4. \A v \in Workers : v # w => request'[v] = request[v] /\ serving'[v] = serving[v]
      BY <1>0, <3>1, <3>2 DEF TypeOK
    <3>5. serving'[w] = call.id
      BY <3>2
    <3>6. call.id = ThisCall =>
              /\ phase = "waiting"
              /\ answer.result = None
              /\ r.event_type = EventOf(answer.use.tool)
              /\ r.case_id = answer.use.case_id
      BY <3>1 DEF OpenCallsAwaited, Agents
    <3>7. \A v \in Workers : serving'[v] = ThisCall =>
              /\ phase = "waiting"
              /\ answer.result = None
              /\ request'[v].event_type = EventOf(answer.use.tool)
              /\ request'[v].case_id = answer.use.case_id
      BY <3>3, <3>4, <3>5, <3>6 DEF OpenCallsAwaited
    <3>8. QED BY <2>0, <3>2, <3>7 DEF OpenCallsAwaited, session, EventOf
  <2>3. ASSUME NEW w \in Workers, TakeRequest(w) PROVE OpenCallsAwaited'
    <3>1. PICK r : request' = [request EXCEPT ![w] = r]
      BY <2>3, RequestTaken
    <3>2. serving[w] = 0 /\ UNCHANGED wire
      BY <2>3, RequestTaken DEF WorkersServe
    <3>3. QED BY <1>0, <2>0, <3>1, <3>2 DEF OpenCallsAwaited, session, wire, TypeOK
  <2>4. ASSUME NEW w \in Workers, SaveReview(w), UNCHANGED wire PROVE OpenCallsAwaited'
    <3>1. PICK r : request' = [request EXCEPT ![w] = r]
      BY <2>4 DEF SaveReview
    <3>2. serving[w] = 0
      BY <2>4, ReviewNotAgents
    <3>3. QED BY <1>0, <2>0, <2>4, <3>1, <3>2 DEF OpenCallsAwaited, session, wire, TypeOK
  <2>5. ASSUME NEW w \in Workers, NEW result, SaveDecision(w) \/ AbortRequest(w),
               EndWith(w, result)
        PROVE  OpenCallsAwaited'
    <3>1. /\ request' = [request EXCEPT ![w] = NoRequest]
          /\ serving' = [serving EXCEPT ![w] = 0]
          /\ in_flight' = in_flight
      BY <1>0, <2>5, HandlerEnds DEF EndWith
    <3>2. CASE serving[w] = ThisCall
      BY <1>0, <2>0, <3>1, <3>2 DEF CallsApart, OpenCallsAwaited, TypeOK
    <3>3. CASE serving[w] # ThisCall
      <4>1. answer' = answer
        BY <2>5, <3>3, RespondTells DEF EndWith
      <4>2. QED BY <1>0, <2>0, <3>1, <4>1 DEF OpenCallsAwaited, session, TypeOK
    <3>4. QED BY <3>2, <3>3
  <2>6. QED
      BY <1>3, <2>1, <2>2, <2>3, <2>4, <2>5 DEF ServiceStep, WorkerStep
<1>4. QED BY <1>1, <1>2, <1>3 DEF AgentNext

-----------------------------------------------------------------------------
(***************************************************************************)
(* The bands the agent goes by.                                            *)
(***************************************************************************)

LEMMA AgentHistoryGrows ==
    ASSUME ServiceInvariant, AgentTypeOK, [AgentNext]_agentVars
    PROVE  Extends(decision_history', decision_history)
BY AgentStepMoves, HistoriesGrow DEF ServiceInvariant

LEMMA EvaluatedKept ==
    ASSUME Extends(decision_history', decision_history), NEW band, Evaluated(band)
    PROVE  Evaluated(band)'
BY DEF Evaluated, Extends

\* The band that an answer tells is of the evaluation that was saved with it.
LEMMA AnswerTellsSavedBand ==
    ASSUME AgentInvariant, NEW w \in Workers, SaveDecision(w), EndWith(w, ResultOf(w))
    PROVE  Told' \in {Told, None} \/ Evaluated(Told)'
<1>. USE DEF AgentInvariant
<1>0. UNCHANGED session /\ TypeOK
    BY DEF EndWith, AgentTypeOK
<1>1. CASE serving[w] = 0 \/ ~(phase = "waiting" /\ serving[w] = ThisCall)
  <2>1. answer' = answer
    BY <1>1, RespondTells DEF EndWith
  <2>2. QED BY <1>0, <2>1 DEF Told, session
<1>2. CASE serving[w] # 0 /\ phase = "waiting" /\ serving[w] = ThisCall
  <2>1. PICK r : r = request[w]
    OBVIOUS
  <2>2. answer'.use = answer.use /\ answer'.result = ResultOf(w)
    BY <1>2, RespondTells DEF EndWith
  <2>3. r.event_type = EventOf(answer.use.tool) /\ r.actor = Agent
    BY <1>2, <2>1 DEF OpenCallsAwaited, WorkersServe
  <2>4. CASE answer.use.tool = "evaluate_transaction"
    <3>1. r.event_type = "decision_evaluated" /\ answer'.result = Done(r.decision.risk_band)
      BY <2>1, <2>2, <2>3, <2>4 DEF EventOf, ResultOf
    <3>2. PICK n : n = Len(decision_history) + 1
      OBVIOUS
    <3>3. /\ n \in 1 .. Len(decision_history')
          /\ decision_history'[n] = [case_id |-> r.case_id, event_type |-> r.event_type,
                                     actor |-> r.actor, record |-> r.decision]
      BY <1>0, <2>1, <3>2, DecisionRecorded DEF Extends
    <3>4. Told' = r.decision.risk_band \/ Told' = None
      BY <3>1 DEF Told, Done
    <3>5. \A band : band = r.decision.risk_band => Evaluated(band)'
      BY <2>3, <3>1, <3>3 DEF Evaluated
    <3>6. QED BY <3>4, <3>5 DEF Evaluated
  <2>5. CASE answer.use.tool # "evaluate_transaction"
    BY <2>2, <2>5 DEF Told
  <2>6. QED BY <2>4, <2>5
<1>3. QED BY <1>1, <1>2

LEMMA StepBandsEvaluated ==
    ASSUME AgentInvariant, [AgentNext]_agentVars
    PROVE  BandsEvaluated'
<1>. USE DEF AgentInvariant
<1>1. Extends(decision_history', decision_history)
    BY AgentHistoryGrows
<1>2. Told' \in {Told, None} \/ Evaluated(Told)'
  <2>1. CASE UNCHANGED agentVars
    BY <2>1 DEF Told, agentVars, session, wire
  <2>2. CASE SessionStep
    BY <2>2 DEF SessionStep, ModelAsksForTools, ModelAnswers, ModelFails, LogFails, EndTurn, BlockTool,
                SendCall, ReadTool, ReceiveAnswer, ClientTimeout, Told, AgentTypeOK
  <2>3. ASSUME NEW call \in in_flight, RefuseCall(call) PROVE Told' \in {Told, None}
    BY <2>3, RespondTells DEF RefuseCall, Told, session, Error
  <2>4. CASE UNCHANGED <<session, answer>>
    BY <2>4 DEF Told, session
  <2>5. ASSUME NEW w \in Workers, EndWith(w, Error) PROVE Told' \in {Told, None}
    BY <2>5, RespondTells DEF EndWith, Told, session, Error
  <2>6. QED
      BY <2>1, <2>2, <2>3, <2>4, <2>5, AnswerTellsSavedBand
      DEF AgentNext, ServiceStep, TakeCall, TakeRequest, WorkerStep, wire
<1>3. last_risk_band' \in {last_risk_band, Told}
  <2>1. UNCHANGED session => last_risk_band' = last_risk_band
    BY DEF session
  <2>2. SessionStep => last_risk_band' \in {last_risk_band, Told}
    BY DEF SessionStep, ModelAsksForTools, ModelAnswers, ModelFails, LogFails, EndTurn, BlockTool,
           SendCall, ReadTool, ReceiveAnswer, ClientTimeout, Told
  <2>3. QED BY <2>1, <2>2, ServiceKeepsSession DEF AgentNext, agentVars
<1>4. \A band : Evaluated(band) => Evaluated(band)'
    BY <1>1, EvaluatedKept
<1>5. Told' # None => Evaluated(Told)'
  <2>1. Told' = Told /\ Told # None => Evaluated(Told)'
    <3>1. Told # None => \E band : band = Told /\ Evaluated(band)'
      BY <1>4 DEF BandsEvaluated
    <3>2. QED BY <3>1 DEF Evaluated
  <2>2. QED BY <1>2, <2>1
<1>6. last_risk_band' # None => Evaluated(last_risk_band)'
  <2>1. last_risk_band' # None => \E band : band = last_risk_band' /\ Evaluated(band)'
    BY <1>3, <1>4 DEF BandsEvaluated
  <2>2. QED BY <2>1 DEF Evaluated
<1>7. QED BY <1>5, <1>6 DEF BandsEvaluated

-----------------------------------------------------------------------------
(***************************************************************************)
(* The gate and the trace.                                                 *)
(***************************************************************************)

\* A set of positions that is not empty has a last one: one that leaves the least
\* after it.
LEMMA LastExists ==
    ASSUME NEW n \in Nat, NEW A \in SUBSET (1 .. n), A # {}
    PROVE  \E m \in A : \A k \in A : k <= m
<1>. DEFINE after(m) == {k \in A : k > m}
            T == {after(m) : m \in A}
<1>0. \A k \in A : k \in Int
    OBVIOUS
<1>1. IsFiniteSet(1 .. n)
    BY FS_Interval
<1>2. \A B \in SUBSET A : IsFiniteSet(B)
    BY <1>1, FS_Subset
<1>3. T \subseteq FiniteSubsetsOf(A) /\ T # {}
    BY <1>2 DEF FiniteSubsetsOf
<1>4. IsWellFoundedOn(StrictSubsetOrdering(A), FiniteSubsetsOf(A))
    BY FS_StrictSubsetOrderingWellFounded
<1>5. PICK least \in T : \A B \in T : <<B, least>> \notin StrictSubsetOrdering(A)
  <2>. HIDE DEF T
  <2>1. QED BY <1>3, <1>4, WFMin
<1>6. PICK m \in A : least = after(m)
    BY <1>5
<1>7. ASSUME NEW k \in A, k > m PROVE FALSE
  <2>1. after(k) \in T /\ after(k) \subseteq A /\ after(m) \subseteq A
    OBVIOUS
  <2>2. after(k) \subseteq after(m) /\ k \in after(m) /\ k \notin after(k)
    <3>1. \A i, j : j \in after(i) <=> j \in A /\ j > i
      OBVIOUS
    <3>2. \A j \in A : j > k => j > m
      BY <1>0, <1>7
    <3>3. k > m /\ ~(k > k)
      BY <1>0, <1>7
    <3>. HIDE DEF after, T
    <3>4. QED BY <3>1, <3>2, <3>3
  <2>3. <<after(k), after(m)>> \in StrictSubsetOrdering(A)
    <3>. HIDE DEF after
    <3>1. QED BY <2>1, <2>2 DEF StrictSubsetOrdering
  <2>4. QED BY <1>5, <1>6, <2>1, <2>3
<1>8. \A k \in A : k <= m
    BY <1>0, <1>7
<1>9. QED BY <1>8

LEMMA LastChosen ==
    ASSUME NEW n \in Nat, NEW A \in SUBSET (1 .. n), NEW m \in A, \A k \in A : k <= m
    PROVE  (CHOOSE j \in A : \A k \in A : k <= j) = m
<1>. DEFINE c == CHOOSE j \in A : \A k \in A : k <= j
<1>1. c \in A /\ \A k \in A : k <= c
    OBVIOUS
<1>. HIDE DEF c
<1>2. c = m
    BY <1>1
<1>3. QED BY <1>2 DEF c

\* The evaluations answered before the i-th tool ran.
AnsweredBefore(i) ==
    {j \in 1 .. (i - 1) :
        trace[j].use.tool = "evaluate_transaction" /\ trace[j].result.status = "done"}

LEMMA BandIsLast ==
    ASSUME NEW i \in Nat, NEW m \in AnsweredBefore(i), \A k \in AnsweredBefore(i) : k <= m
    PROVE  BandBefore(i) = trace[m].result.risk_band
<1>1. PICK A : A = AnsweredBefore(i)
    OBVIOUS
<1>2. A \in SUBSET (1 .. i) /\ A # {}
    BY <1>1 DEF AnsweredBefore
<1>3. (CHOOSE j \in A : \A k \in A : k <= j) = m
    BY <1>1, <1>2, LastChosen
<1>4. BandBefore(i) = trace[CHOOSE j \in A : \A k \in A : k <= j].result.risk_band
    BY <1>1, <1>2 DEF BandBefore, AnsweredBefore
<1>5. QED BY <1>3, <1>4

LEMMA NoBandBefore ==
    ASSUME NEW i, AnsweredBefore(i) = {}
    PROVE  BandBefore(i) = None
BY DEF BandBefore, AnsweredBefore

LEMMA SameBandBefore ==
    ASSUME UNCHANGED trace, NEW i
    PROVE  BandBefore(i)' = BandBefore(i)
<1>. DEFINE of(A) == IF A = {} THEN None
                     ELSE trace[CHOOSE k \in A : \A l \in A : l <= k].result.risk_band
<1>1. AnsweredBefore(i)' = AnsweredBefore(i)
    BY DEF AnsweredBefore
<1>2. BandBefore(i) = of(AnsweredBefore(i)) /\ BandBefore(i)' = of(AnsweredBefore(i)')
    BY DEF BandBefore, AnsweredBefore
<1>. HIDE DEF of
<1>3. QED BY <1>1, <1>2

\* What comes into the trace later does not count.
LEMMA BandBeforeKept ==
    ASSUME AgentTypeOK, NEW e \in TraceEntry, trace' = Append(trace, e),
           NEW i \in 1 .. Len(trace) + 1
    PROVE  BandBefore(i)' = BandBefore(i)
<1>1. \A j \in 1 .. (i - 1) : trace'[j] = trace[j]
    BY TraceGrows
<1>2. AnsweredBefore(i)' = AnsweredBefore(i)
    BY <1>1 DEF AnsweredBefore
<1>3. CASE AnsweredBefore(i) = {}
  <2>1. (AnsweredBefore(i) = {})'
    BY <1>2, <1>3
  <2>2. BandBefore(i)' = None
    BY <2>1 DEF BandBefore, AnsweredBefore
  <2>3. QED BY <1>3, <2>2, NoBandBefore
<1>4. CASE AnsweredBefore(i) # {}
  <2>1. PICK A : A = AnsweredBefore(i)
    OBVIOUS
  <2>2. A \in SUBSET (1 .. i) /\ i \in Nat
    BY <2>1, TraceGrows DEF AnsweredBefore
  <2>3. PICK m \in A : \A k \in A : k <= m
    BY <1>4, <2>1, <2>2, LastExists
  <2>4. BandBefore(i) = trace[m].result.risk_band
    BY <2>1, <2>2, <2>3, BandIsLast
  <2>5. (CHOOSE j \in A : \A k \in A : k <= j) = m
    BY <2>2, <2>3, LastChosen
  <2>6. BandBefore(i)' = trace'[CHOOSE j \in A : \A k \in A : k <= j].result.risk_band
    <3>. DEFINE of(B) == IF B = {} THEN None
                         ELSE trace'[CHOOSE j \in B : \A k \in B : k <= j].result.risk_band
    <3>1. BandBefore(i)' = of(AnsweredBefore(i)')
      BY DEF BandBefore, AnsweredBefore
    <3>2. AnsweredBefore(i)' = A
      BY <1>2, <2>1
    <3>3. of(A) = trace'[CHOOSE j \in A : \A k \in A : k <= j].result.risk_band
      BY <1>4, <2>1
    <3>. HIDE DEF of
    <3>4. QED BY <3>1, <3>2, <3>3
  <2>7. m \in 1 .. (i - 1)
    BY <2>1 DEF AnsweredBefore
  <2>8. QED BY <1>1, <2>4, <2>5, <2>6, <2>7
<1>5. QED BY <1>3, <1>4

\* The band of the session after one more tool.
BandAfter(e) ==
    IF e.use.tool = "evaluate_transaction" /\ e.result.status = "done"
    THEN e.result.risk_band ELSE last_risk_band

LEMMA BandTraced ==
    ASSUME AgentTypeOK, BandFollowsTrace, NEW e \in TraceEntry, trace' = Append(trace, e),
           last_risk_band' = BandAfter(e)
    PROVE  BandFollowsTrace'
<1>1. PICK n : n = Len(trace) + 1
    OBVIOUS
<1>2. n \in Nat \ {0} /\ Len(trace') = n /\ trace'[n] = e
    BY <1>1, TraceGrows
<1>3. BandBefore(n)' = BandBefore(n) /\ last_risk_band = BandBefore(n)
    BY <1>1, <1>2, BandBeforeKept DEF BandFollowsTrace
<1>4. SUFFICES BandBefore(n + 1)' = last_risk_band'
    BY <1>2 DEF BandFollowsTrace, BandBefore
<1>5. CASE e.use.tool = "evaluate_transaction" /\ e.result.status = "done"
  <2>1. PICK A : A = AnsweredBefore(n + 1)'
    OBVIOUS
  <2>2. A \in SUBSET (1 .. n) /\ n \in A /\ \A k \in A : k <= n
    BY <1>2, <1>5, <2>1 DEF AnsweredBefore
  <2>3. (CHOOSE j \in A : \A k \in A : k <= j) = n
    BY <1>2, <2>2, LastChosen
  <2>4. BandBefore(n + 1)' = trace'[CHOOSE j \in A : \A k \in A : k <= j].result.risk_band
    BY <2>1, <2>2 DEF BandBefore, AnsweredBefore
  <2>5. QED BY <1>2, <1>5, <2>3, <2>4 DEF BandAfter
<1>6. CASE ~(e.use.tool = "evaluate_transaction" /\ e.result.status = "done")
  <2>1. AnsweredBefore(n + 1)' = AnsweredBefore(n)'
    BY <1>2, <1>6 DEF AnsweredBefore
  <2>2. BandBefore(n + 1)' = BandBefore(n)'
    <3>. DEFINE of(A) == IF A = {} THEN None
                         ELSE trace'[CHOOSE j \in A : \A k \in A : k <= j].result.risk_band
    <3>1. BandBefore(n + 1)' = of(AnsweredBefore(n + 1)')
      BY DEF BandBefore, AnsweredBefore
    <3>2. BandBefore(n)' = of(AnsweredBefore(n)')
      BY DEF BandBefore, AnsweredBefore
    <3>. HIDE DEF of
    <3>3. QED BY <2>1, <3>1, <3>2
  <2>3. QED BY <1>3, <1>6, <2>2 DEF BandAfter
<1>7. QED BY <1>5, <1>6

AskedAt == {i \in 1 .. Len(trace) : trace[i].use.tool = "assign_reviewer"}

BlockedAt == {i \in AskedAt : trace[i].result.status = "blocked"}

\* GateFollowsTrace, position by position.
GateAtEach ==
    /\ \A i \in AskedAt : i \in BlockedAt <=> BandBefore(i) \in HighRiskBands
    /\ BlockedAt = {} => pending_human_confirmation = None
    /\ \A i \in BlockedAt : (\A j \in BlockedAt : j <= i) =>
           pending_human_confirmation = [use |-> trace[i].use, risk_band |-> BandBefore(i)]

LEMMA GateSplit ==
    ASSUME AgentTypeOK, GateFollowsTrace
    PROVE  GateAtEach
<1>1. PICK A : A = BlockedAt
    OBVIOUS
<1>2. A \in SUBSET (1 .. Len(trace)) /\ Len(trace) \in Nat
    BY <1>1 DEF BlockedAt, AskedAt, AgentTypeOK
<1>3. A = {i \in AskedAt : BandBefore(i) \in HighRiskBands}
    BY <1>1 DEF GateFollowsTrace, BlockedAt, AskedAt
<1>4. A = {} => pending_human_confirmation = None
    BY <1>1 DEF GateFollowsTrace, BlockedAt, AskedAt
<1>5. ASSUME NEW i \in A, \A j \in A : j <= i
      PROVE  pending_human_confirmation = [use |-> trace[i].use, risk_band |-> BandBefore(i)]
  <2>. DEFINE last == CHOOSE j \in A : \A k \in A : k <= j
  <2>1. last = i
    BY <1>2, <1>5, LastChosen
  <2>2. pending_human_confirmation =
            [use |-> trace[last].use, risk_band |-> BandBefore(last)]
    BY <1>1, <1>5 DEF GateFollowsTrace, BlockedAt, AskedAt
  <2>. HIDE DEF last
  <2>3. QED BY <2>1, <2>2
<1>6. QED BY <1>1, <1>3, <1>4, <1>5 DEF GateAtEach

LEMMA GateJoined ==
    ASSUME AgentTypeOK', GateAtEach'
    PROVE  GateFollowsTrace'
<1>1. PICK A : A = BlockedAt'
    OBVIOUS
<1>2. A \in SUBSET (1 .. Len(trace')) /\ Len(trace') \in Nat
    BY <1>1 DEF BlockedAt, AskedAt, AgentTypeOK
<1>3. A = {i \in AskedAt' : BandBefore(i)' \in HighRiskBands}
    BY <1>1 DEF GateAtEach, BlockedAt
<1>4. A = {} => pending_human_confirmation' = None
    BY <1>1 DEF GateAtEach
<1>. DEFINE last == CHOOSE j \in A : \A k \in A : k <= j
<1>5. A # {} => pending_human_confirmation' =
                    [use |-> trace'[last].use, risk_band |-> BandBefore(last)']
  <2>. SUFFICES ASSUME A # {}
                PROVE  pending_human_confirmation' =
                           [use |-> trace'[last].use, risk_band |-> BandBefore(last)']
      OBVIOUS
  <2>1. PICK i \in A : \A j \in A : j <= i
    BY <1>2, LastExists
  <2>2. last = i
    BY <1>2, <2>1, LastChosen
  <2>3. pending_human_confirmation' = [use |-> trace'[i].use, risk_band |-> BandBefore(i)']
    BY <1>1, <2>1 DEF GateAtEach
  <2>. HIDE DEF last
  <2>4. QED BY <2>2, <2>3
<1>6. QED BY <1>1, <1>3, <1>4, <1>5 DEF GateFollowsTrace, BlockedAt, AskedAt

\* One more tool ran: what the gate did with it agrees with the band until then.
LEMMA GateTraced ==
    ASSUME AgentTypeOK, BandFollowsTrace, GateFollowsTrace, AgentTypeOK',
           NEW e \in TraceEntry, trace' = Append(trace, e),
           e.use.tool = "assign_reviewer" =>
               (e.result.status = "blocked" <=> last_risk_band \in HighRiskBands),
           pending_human_confirmation' =
               IF e.use.tool = "assign_reviewer" /\ e.result.status = "blocked"
               THEN [use |-> e.use, risk_band |-> last_risk_band]
               ELSE pending_human_confirmation
    PROVE  GateFollowsTrace'
<1>1. PICK n : n = Len(trace) + 1
    OBVIOUS
<1>2. /\ n \in Nat \ {0} /\ Len(trace') = n /\ trace'[n] = e
      /\ \A i \in 1 .. (n - 1) : trace'[i] = trace[i]
    BY <1>1, TraceGrows
<1>3. \A i \in 1 .. n : BandBefore(i)' = BandBefore(i)
    BY <1>1, BandBeforeKept
<1>4. BandBefore(n) = last_risk_band
    BY <1>1 DEF BandFollowsTrace
<1>5. AskedAt = {i \in 1 .. (n - 1) : trace[i].use.tool = "assign_reviewer"}
    BY <1>1, <1>2 DEF AskedAt, AgentTypeOK
<1>6. /\ AskedAt' \subseteq 1 .. n
      /\ \A i \in 1 .. (n - 1) : i \in AskedAt' <=> i \in AskedAt
      /\ n \in AskedAt' <=> e.use.tool = "assign_reviewer"
  <2>1. AskedAt' = {i \in 1 .. n : trace'[i].use.tool = "assign_reviewer"}
    BY <1>2 DEF AskedAt
  <2>2. \A i \in 1 .. (n - 1) : i \in 1 .. n
    BY <1>2
  <2>3. n \in 1 .. n
    BY <1>2
  <2>4. QED BY <1>2, <1>5, <2>1, <2>2, <2>3
<1>7. /\ \A i \in 1 .. (n - 1) : i \in BlockedAt' <=> i \in BlockedAt
      /\ n \in BlockedAt' <=> e.use.tool = "assign_reviewer" /\ e.result.status = "blocked"
    BY <1>2, <1>6 DEF BlockedAt
<1>8. /\ \A i \in AskedAt : i \in 1 .. (n - 1)
      /\ \A i \in AskedAt' : i \in 1 .. (n - 1) \/ i = n
      /\ \A i \in 1 .. (n - 1) : i \in 1 .. n /\ i < n /\ ~(n <= i)
      /\ n \in 1 .. n
    BY <1>2, <1>5, <1>6
<1>9. GateAtEach
    BY GateSplit
<1>10. \A i \in AskedAt' : i \in BlockedAt' <=> BandBefore(i)' \in HighRiskBands
  <2>1. ASSUME NEW i \in 1 .. (n - 1), i \in AskedAt'
        PROVE  i \in BlockedAt' <=> BandBefore(i)' \in HighRiskBands
    <3>1. i \in AskedAt /\ BandBefore(i)' = BandBefore(i)
      BY <1>3, <1>6, <1>8, <2>1
    <3>2. QED BY <1>7, <1>9, <3>1 DEF GateAtEach
  <2>2. n \in AskedAt' => (n \in BlockedAt' <=> BandBefore(n)' \in HighRiskBands)
    BY <1>3, <1>4, <1>6, <1>7, <1>8
  <2>3. QED BY <1>8, <2>1, <2>2
<1>11. CASE e.use.tool = "assign_reviewer" /\ e.result.status = "blocked"
  <2>1. \A i \in BlockedAt' : (\A j \in BlockedAt' : j <= i) => i = n
    <3>1. n \in BlockedAt' /\ BlockedAt' \subseteq AskedAt'
      BY <1>7, <1>11 DEF BlockedAt
    <3>2. QED BY <1>8, <3>1
  <2>2. BlockedAt' # {}
    BY <1>7, <1>11
  <2>3. pending_human_confirmation' = [use |-> trace'[n].use, risk_band |-> BandBefore(n)']
    BY <1>2, <1>3, <1>4, <1>8, <1>11
  <2>4. QED BY <1>10, <2>1, <2>2, <2>3, GateJoined DEF GateAtEach
<1>12. CASE ~(e.use.tool = "assign_reviewer" /\ e.result.status = "blocked")
  <2>1. BlockedAt' = BlockedAt
    <3>1. \A i \in BlockedAt' : i \in BlockedAt
      BY <1>7, <1>8, <1>12 DEF BlockedAt
    <3>2. \A i \in BlockedAt : i \in BlockedAt'
      BY <1>7, <1>8 DEF BlockedAt
    <3>3. QED BY <3>1, <3>2
  <2>2. \A i \in BlockedAt : trace'[i] = trace[i] /\ BandBefore(i)' = BandBefore(i)
    BY <1>2, <1>3, <1>8 DEF BlockedAt
  <2>3. pending_human_confirmation' = pending_human_confirmation
    BY <1>12
  <2>4. QED BY <1>9, <1>10, <2>1, <2>2, <2>3, GateJoined DEF GateAtEach
<1>13. QED BY <1>11, <1>12

\* A tool of the session ran, and the gate did its part.
ToolRan(e) ==
    /\ trace' = Append(trace, e)
    /\ last_risk_band' = BandAfter(e)
    /\ e.use.tool = "assign_reviewer" =>
           (e.result.status = "blocked" <=> last_risk_band \in HighRiskBands)
    /\ pending_human_confirmation' =
           IF e.use.tool = "assign_reviewer" /\ e.result.status = "blocked"
           THEN [use |-> e.use, risk_band |-> last_risk_band]
           ELSE pending_human_confirmation

LEMMA StepRunsTool ==
    ASSUME AgentInvariant, [AgentNext]_agentVars
    PROVE  \/ UNCHANGED <<trace, last_risk_band, pending_human_confirmation>>
           \/ \E e \in TraceEntry : ToolRan(e)
<1>. USE DEF AgentInvariant
<1>1. UNCHANGED session => UNCHANGED <<trace, last_risk_band, pending_human_confirmation>>
    BY DEF session
<1>2. ASSUME NEW use \in ToolUse, BlockTool(use)
      PROVE  \E e \in TraceEntry : ToolRan(e)
  <2>. DEFINE e == [use |-> use, result |-> Blocked]
  <2>1. e \in TraceEntry
    BY ResultTypes DEF TraceEntry
  <2>2. ToolRan(e)
    BY <1>2 DEF BlockTool, Traced, Gated, ToolRan, BandAfter, Blocked
  <2>3. QED BY <2>1, <2>2
<1>3. ASSUME ReadTool
      PROVE  \E e \in TraceEntry : ToolRan(e)
  <2>. DEFINE e == [use |-> ReadUse, result |-> Done(None)]
  <2>1. e \in TraceEntry
    BY ResultTypes DEF TraceEntry
  <2>2. ToolRan(e)
    BY <1>3 DEF ReadTool, Traced, ToolRan, BandAfter, ReadUse
  <2>3. QED BY <2>1, <2>2
<1>4. ASSUME ReceiveAnswer
      PROVE  \E e \in TraceEntry : ToolRan(e)
  <2>. DEFINE e == [use |-> answer.use, result |-> answer.result]
  <2>1. e \in TraceEntry
    BY <1>4, AnswerWaited DEF ReceiveAnswer, TraceEntry
  <2>2. ~Gated(e.use) /\ e.result.status \in {"done", "error"}
    BY <1>4 DEF ReceiveAnswer, WaitedPassedGate
  <2>3. /\ trace' = Append(trace, e)
        /\ last_risk_band' = BandAfter(e)
        /\ UNCHANGED pending_human_confirmation
    BY <1>4 DEF ReceiveAnswer, Traced, BandAfter
  <2>4. ToolRan(e)
    BY <2>2, <2>3 DEF ToolRan, Gated
  <2>5. QED BY <2>1, <2>4
<1>5. ASSUME ClientTimeout
      PROVE  \E e \in TraceEntry : ToolRan(e)
  <2>. DEFINE e == [use |-> answer.use, result |-> Error]
  <2>1. e \in TraceEntry
    BY <1>5, AnswerWaited, ResultTypes DEF ClientTimeout, TraceEntry
  <2>2. ~Gated(e.use)
    BY <1>5 DEF ClientTimeout, WaitedPassedGate
  <2>3. ToolRan(e)
    BY <1>5, <2>2 DEF ClientTimeout, Traced, ToolRan, Gated, BandAfter, Error
  <2>4. QED BY <2>1, <2>3
<1>6. SessionStep =>
          \/ UNCHANGED <<trace, last_risk_band, pending_human_confirmation>>
          \/ \E use \in ToolUse : BlockTool(use)
          \/ ReadTool \/ ReceiveAnswer \/ ClientTimeout
    BY DEF SessionStep, ModelAsksForTools, ModelAnswers, ModelFails, LogFails, EndTurn, SendCall
<1>7. QED
    BY <1>1, <1>2, <1>3, <1>4, <1>5, <1>6, ServiceKeepsSession DEF AgentNext, agentVars

LEMMA StepBandFollowsTrace ==
    ASSUME AgentInvariant, [AgentNext]_agentVars
    PROVE  BandFollowsTrace'
<1>1. CASE UNCHANGED <<trace, last_risk_band, pending_human_confirmation>>
  <2>1. PICK n : n = Len(trace) + 1
    OBVIOUS
  <2>2. BandBefore(n)' = BandBefore(n)
    BY <1>1, SameBandBefore
  <2>3. last_risk_band = BandBefore(n)
    BY <2>1 DEF AgentInvariant, BandFollowsTrace
  <2>4. BandFollowsTrace' <=> last_risk_band' = BandBefore(n)'
    BY <1>1, <2>1 DEF BandFollowsTrace, BandBefore
  <2>5. QED BY <1>1, <2>2, <2>3, <2>4
<1>2. ASSUME NEW e \in TraceEntry, ToolRan(e) PROVE BandFollowsTrace'
    BY <1>2, BandTraced DEF AgentInvariant, ToolRan
<1>3. QED BY <1>1, <1>2, StepRunsTool

LEMMA StepGateFollowsTrace ==
    ASSUME AgentInvariant, [AgentNext]_agentVars
    PROVE  GateFollowsTrace'
<1>1. CASE UNCHANGED <<trace, last_risk_band, pending_human_confirmation>>
  <2>1. ASSUME NEW i PROVE BandBefore(i)' = BandBefore(i)
    BY <1>1, SameBandBefore
  <2>2. AskedAt' = AskedAt /\ BlockedAt' = BlockedAt
    BY <1>1 DEF AskedAt, BlockedAt
  <2>3. GateAtEach
    BY GateSplit DEF AgentInvariant
  <2>4. GateAtEach'
    BY <1>1, <2>1, <2>2, <2>3 DEF GateAtEach
  <2>5. QED BY <2>4, GateJoined, StepAgentTyped
<1>2. ASSUME NEW e \in TraceEntry, ToolRan(e) PROVE GateFollowsTrace'
    BY <1>2, GateTraced, StepAgentTyped DEF AgentInvariant, ToolRan
<1>3. QED BY <1>1, <1>2, StepRunsTool

-----------------------------------------------------------------------------
(***************************************************************************)
(* Counting the calls.                                                     *)
(***************************************************************************)

LEMMA Counted ==
    ASSUME NEW n \in Nat, NEW A \in SUBSET (1 .. n)
    PROVE  IsFiniteSet(A) /\ Cardinality(A) \in Nat
<1>1. IsFiniteSet(1 .. n)
    BY FS_Interval
<1>2. IsFiniteSet(A)
    BY <1>1, FS_Subset
<1>3. QED BY <1>2, FS_CardinalityType

\* A call for this tool and this case.
Concerns(use, tool, case_id) == use.tool = tool /\ use.case_id = case_id

One(condition) == IF condition THEN 1 ELSE 0

LEMMA CountIsNat ==
    ASSUME AgentTypeOK, NEW tool, NEW c
    PROVE  /\ \A status : /\ IsFiniteSet(InTrace(tool, c, status))
                          /\ Cardinality(InTrace(tool, c, status)) \in Nat
           /\ IsFiniteSet(Written(tool, c)) /\ Cardinality(Written(tool, c)) \in Nat
           /\ IsFiniteSet(OpenCalls(tool, c)) /\ Cardinality(OpenCalls(tool, c)) \in Nat
<1>1. Len(trace) \in Nat /\ Len(decision_history) \in Nat /\ ThisCall \in Nat
    BY CallIds DEF AgentTypeOK, TypeOK
<1>2. \A status : InTrace(tool, c, status) \in SUBSET (1 .. Len(trace))
    BY DEF InTrace
<1>3. Written(tool, c) \in SUBSET (1 .. Len(decision_history))
    BY DEF Written
<1>4. OpenCalls(tool, c) \in SUBSET (1 .. ThisCall)
    BY DEF OpenCalls
<1>5. QED BY <1>1, <1>2, <1>3, <1>4, Counted

LEMMA TraceCounts ==
    ASSUME AgentTypeOK, NEW tool, NEW c, NEW status, NEW e \in TraceEntry,
           trace' = Append(trace, e)
    PROVE  Cardinality(InTrace(tool, c, status)') =
               Cardinality(InTrace(tool, c, status))
                   + One(Concerns(e.use, tool, c) /\ e.result.status = status)
<1>1. PICK n : n = Len(trace) + 1
    OBVIOUS
<1>2. /\ n \in Nat \ {0} /\ Len(trace) = n - 1 /\ Len(trace') = n /\ trace'[n] = e
      /\ \A i \in 1 .. (n - 1) : trace'[i] = trace[i]
    BY <1>1, TraceGrows
<1>3. /\ \A i : i \in 1 .. n <=> i \in 1 .. (n - 1) \/ i = n
      /\ n \notin 1 .. (n - 1)
    BY <1>2
<1>4. PICK A : A = InTrace(tool, c, status)
    OBVIOUS
<1>5. A = {i \in 1 .. (n - 1) : Concerns(trace[i].use, tool, c) /\ trace[i].result.status = status}
    BY <1>2, <1>4 DEF InTrace, Concerns
<1>6. InTrace(tool, c, status)' =
          {i \in 1 .. n : Concerns(trace'[i].use, tool, c) /\ trace'[i].result.status = status}
    BY <1>2 DEF InTrace, Concerns
<1>7. IsFiniteSet(A) /\ Cardinality(A) \in Nat /\ n \notin A
  <2>1. IsFiniteSet(A) /\ Cardinality(A) \in Nat
    BY <1>4, CountIsNat
  <2>2. n \notin A
    BY <1>3, <1>5
  <2>3. QED BY <2>1, <2>2
<1>8. CASE Concerns(e.use, tool, c) /\ e.result.status = status
  <2>1. InTrace(tool, c, status)' = A \cup {n}
    BY <1>2, <1>3, <1>5, <1>6, <1>8
  <2>2. QED BY <1>4, <1>7, <1>8, <2>1, FS_AddElement DEF One
<1>9. CASE ~(Concerns(e.use, tool, c) /\ e.result.status = status)
  <2>1. InTrace(tool, c, status)' = A
    BY <1>2, <1>3, <1>5, <1>6, <1>9
  <2>2. QED BY <1>4, <1>7, <1>9, <2>1 DEF One
<1>10. QED BY <1>8, <1>9

\* A handler that ends well writes its event: the agent's, if it serves the agent.
LEMMA WrittenCounts ==
    ASSUME AgentTypeOK, WorkersServe, NEW tool \in Tools, NEW c, NEW w \in Workers,
           SaveDecision(w)
    PROVE  Cardinality(Written(tool, c)') =
               Cardinality(Written(tool, c))
                   + One(/\ serving[w] # 0
                         /\ request[w].event_type = EventOf(tool)
                         /\ request[w].case_id = c)
<1>. DEFINE counts == /\ serving[w] # 0
                      /\ request[w].event_type = EventOf(tool)
                      /\ request[w].case_id = c
<1>0. TypeOK
    BY DEF AgentTypeOK
<1>1. PICK n : n = Len(decision_history) + 1
    OBVIOUS
<1>2. PICK event : event = [case_id |-> request[w].case_id,
                            event_type |-> request[w].event_type,
                            actor |-> request[w].actor, record |-> request[w].decision]
    OBVIOUS
<1>3. /\ n \in Nat \ {0} /\ Len(decision_history) = n - 1
      /\ Len(decision_history') = n /\ decision_history'[n] = event
      /\ \A i \in 1 .. (n - 1) : decision_history'[i] = decision_history[i]
    BY <1>0, <1>1, <1>2, DecisionRecorded DEF Extends
<1>4. /\ \A i : i \in 1 .. n <=> i \in 1 .. (n - 1) \/ i = n
      /\ n \notin 1 .. (n - 1)
    BY <1>3
<1>5. counts <=>
          event.actor = Agent /\ event.case_id = c /\ event.event_type = EventOf(tool)
    BY <1>2 DEF WorkersServe, SaveDecision
<1>6. PICK A : A = Written(tool, c)
    OBVIOUS
<1>7. A = {i \in 1 .. (n - 1) :
              /\ decision_history[i].actor = Agent
              /\ decision_history[i].case_id = c
              /\ decision_history[i].event_type = EventOf(tool)}
    BY <1>3, <1>6 DEF Written
<1>8. Written(tool, c)' =
          {i \in 1 .. n :
              /\ decision_history'[i].actor = Agent
              /\ decision_history'[i].case_id = c
              /\ decision_history'[i].event_type = EventOf(tool)}
    BY <1>3 DEF Written, EventOf
<1>9. IsFiniteSet(A) /\ Cardinality(A) \in Nat /\ n \notin A
  <2>1. IsFiniteSet(A) /\ Cardinality(A) \in Nat
    BY <1>6, CountIsNat
  <2>2. n \notin A
    BY <1>4, <1>7
  <2>3. QED BY <2>1, <2>2
<1>. HIDE DEF counts
<1>10. CASE counts
  <2>1. Written(tool, c)' = A \cup {n}
    BY <1>3, <1>4, <1>5, <1>7, <1>8, <1>10
  <2>2. QED BY <1>6, <1>9, <1>10, <2>1, FS_AddElement DEF One, counts
<1>11. CASE ~counts
  <2>1. Written(tool, c)' = A
    BY <1>3, <1>4, <1>5, <1>7, <1>8, <1>11
  <2>2. QED BY <1>6, <1>9, <1>11, <2>1 DEF One, counts
<1>12. QED BY <1>10, <1>11

\* A step that moves no call of the agent.
LEMMA OpenCallsStay ==
    ASSUME AgentTypeOK, NEW tool, NEW c,
           ThisCall' \in {ThisCall, ThisCall + 1},
           UNCHANGED <<in_flight, serving>>,
           \A w \in Workers : serving[w] # 0 =>
               /\ request'[w].event_type = request[w].event_type
               /\ request'[w].case_id = request[w].case_id
    PROVE  OpenCalls(tool, c)' = OpenCalls(tool, c)
<1>. DEFINE flies(id) == \E call \in in_flight :
                call.id = id /\ call.use.tool = tool /\ call.use.case_id = c
            served(id) == \E w \in Workers :
                /\ serving[w] = id
                /\ request[w].event_type = EventOf(tool)
                /\ request[w].case_id = c
            served1(id) == \E w \in Workers :
                /\ serving[w] = id
                /\ request'[w].event_type = EventOf(tool)
                /\ request'[w].case_id = c
<1>1. OpenCalls(tool, c) = {id \in 1 .. ThisCall : flies(id) \/ served(id)}
    BY DEF OpenCalls
<1>2. OpenCalls(tool, c)' = {id \in 1 .. ThisCall' : flies(id) \/ served1(id)}
    BY DEF OpenCalls, EventOf
<1>3. /\ \A id : flies(id) => id \in 1 .. ThisCall
      /\ \A id : id # 0 => (served1(id) <=> served(id))
      /\ \A id : id # 0 /\ served(id) => id \in 1 .. ThisCall
      /\ \A id \in 1 .. ThisCall : id \in 1 .. ThisCall' /\ id # 0
      /\ 0 \notin 1 .. ThisCall'
  <2>1. \A id : flies(id) => id \in 1 .. ThisCall
    BY CallIds
  <2>2. \A id : id # 0 => (served1(id) <=> served(id))
    OBVIOUS
  <2>3. \A id : id # 0 /\ served(id) => id \in 1 .. ThisCall
    BY CallIds
  <2>4. /\ \A id \in 1 .. ThisCall : id \in 1 .. ThisCall' /\ id # 0
        /\ 0 \notin 1 .. ThisCall'
    BY CallIds
  <2>5. QED BY <2>1, <2>2, <2>3, <2>4
<1>. HIDE DEF flies, served, served1
<1>4. QED BY <1>1, <1>2, <1>3

LEMMA OpenCallsSent ==
    ASSUME AgentTypeOK, OpenCallsAwaited, NEW tool, NEW c, NEW use \in ToolUse, SendCall(use)
    PROVE  Cardinality(OpenCalls(tool, c)') =
               Cardinality(OpenCalls(tool, c)) + One(Concerns(use, tool, c))
<1>1. PICK A : A = OpenCalls(tool, c)
    OBVIOUS
<1>2. /\ in_flight' = in_flight \cup {[id |-> ThisCall, use |-> use]}
      /\ UNCHANGED <<serving, request>>
      /\ ThisCall' = ThisCall
    BY DEF SendCall, ThisCall, vars
<1>3. \A id : id \in OpenCalls(tool, c)' <=>
                  id \in A \/ (id = ThisCall /\ Concerns(use, tool, c))
  <2>1. \A id : (\E call \in in_flight' :
                     call.id = id /\ call.use.tool = tool /\ call.use.case_id = c)
                <=> \/ \E call \in in_flight :
                           call.id = id /\ call.use.tool = tool /\ call.use.case_id = c
                    \/ id = ThisCall /\ Concerns(use, tool, c)
    <3>1. PICK new : new = [id |-> ThisCall, use |-> use]
      OBVIOUS
    <3>2. in_flight' = in_flight \cup {new} /\ new.id = ThisCall /\ new.use = use
      BY <1>2, <3>1
    <3>3. QED BY <3>2 DEF Concerns
  <2>2. ThisCall \in 1 .. ThisCall
    BY CallIds
  <2>3. QED BY <1>1, <1>2, <2>1, <2>2 DEF OpenCalls, EventOf
<1>4. ThisCall \notin A
    BY <1>1 DEF OpenCalls, OpenCallsAwaited, SendCall
<1>5. IsFiniteSet(A) /\ Cardinality(A) \in Nat
    BY <1>1, CountIsNat
<1>6. CASE Concerns(use, tool, c)
  <2>1. OpenCalls(tool, c)' = A \cup {ThisCall}
    BY <1>3, <1>6
  <2>2. QED BY <1>1, <1>4, <1>5, <1>6, <2>1, FS_AddElement DEF One
<1>7. CASE ~Concerns(use, tool, c)
  <2>1. OpenCalls(tool, c)' = A
    BY <1>3, <1>7
  <2>2. QED BY <1>1, <1>5, <1>7, <2>1 DEF One
<1>8. QED BY <1>6, <1>7

LEMMA OpenCallsRefused ==
    ASSUME AgentTypeOK, CallsApart, NEW tool, NEW c, NEW call \in in_flight, RefuseCall(call)
    PROVE  Cardinality(OpenCalls(tool, c)') =
               Cardinality(OpenCalls(tool, c)) - One(Concerns(call.use, tool, c))
<1>1. PICK A : A = OpenCalls(tool, c)
    OBVIOUS
<1>2. /\ in_flight' = in_flight \ {call}
      /\ UNCHANGED <<serving, request>>
      /\ ThisCall' = ThisCall
    BY DEF RefuseCall, ThisCall, vars, session
<1>3. /\ \A id : id \in OpenCalls(tool, c)' => id \in A
      /\ \A id \in A : id # call.id => id \in OpenCalls(tool, c)'
    BY <1>1, <1>2 DEF OpenCalls, EventOf
<1>4. call.id \in OpenCalls(tool, c)' => FALSE
    BY <1>2, CallIds DEF OpenCalls, CallsApart
<1>5. call.id \in A <=> Concerns(call.use, tool, c)
    BY <1>1, CallIds DEF OpenCalls, CallsApart, Concerns
<1>6. OpenCalls(tool, c)' = A \ {call.id}
    BY <1>3, <1>4
<1>7. IsFiniteSet(A) /\ Cardinality(A) \in Nat
    BY <1>1, CountIsNat
<1>8. Cardinality(A \ {call.id}) = IF call.id \in A THEN Cardinality(A) - 1 ELSE Cardinality(A)
    BY <1>7, FS_RemoveElement
<1>9. QED BY <1>1, <1>5, <1>6, <1>7, <1>8 DEF One

LEMMA OpenCallsTaken ==
    ASSUME AgentTypeOK, WorkersServe, CallsApart, NEW tool \in Tools, NEW c,
           NEW call \in in_flight, NEW w \in Workers, TakeCall(w, call)
    PROVE  OpenCalls(tool, c)' = OpenCalls(tool, c)
<1>1. PICK r : Agents(r, call) /\ request' = [request EXCEPT ![w] = r]
    BY CallTaken
<1>2. /\ in_flight' = in_flight \ {call}
      /\ serving' = [serving EXCEPT ![w] = call.id]
      /\ ThisCall' = ThisCall
    BY DEF TakeCall, ThisCall, session
<1>3. /\ request'[w] = r /\ serving'[w] = call.id
      /\ \A v \in Workers : v # w => request'[v] = request[v] /\ serving'[v] = serving[v]
    BY <1>1, <1>2, CallIds DEF AgentTypeOK, TypeOK
<1>4. serving[w] = 0 /\ call.id # 0
    BY CallTaken, CallIds DEF WorkersServe
<1>5. r.case_id = call.use.case_id
      /\ (r.event_type = EventOf(tool) <=> call.use.tool = tool)
    BY <1>1, CallIds DEF Agents, EventOf, Tools, ToolUse
<1>6. ASSUME NEW id \in 1 .. ThisCall
      PROVE  id \in OpenCalls(tool, c)' <=> id \in OpenCalls(tool, c)
  <2>1. CASE id = call.id
    <3>1. id \in OpenCalls(tool, c)' <=> r.event_type = EventOf(tool) /\ r.case_id = c
      BY <1>2, <1>3, <2>1 DEF OpenCalls, CallsApart, EventOf
    <3>2. id \in OpenCalls(tool, c) <=> call.use.tool = tool /\ call.use.case_id = c
      BY <2>1 DEF OpenCalls, CallsApart
    <3>3. QED BY <1>5, <3>1, <3>2
  <2>2. CASE id # call.id
    <3>1. \A v \in Workers : serving'[v] = id <=> v # w /\ serving[v] = id
      BY <1>3, <1>4, <2>2
    <3>2. (\E v \in Workers :
               serving'[v] = id /\ request'[v].event_type = EventOf(tool) /\ request'[v].case_id = c)
          <=> (\E v \in Workers :
               serving[v] = id /\ request[v].event_type = EventOf(tool) /\ request[v].case_id = c)
      BY <1>3, <1>4, <2>2, <3>1
    <3>3. (\E a \in in_flight' : a.id = id /\ a.use.tool = tool /\ a.use.case_id = c)
          <=> (\E a \in in_flight : a.id = id /\ a.use.tool = tool /\ a.use.case_id = c)
      BY <1>2, <2>2
    <3>4. QED BY <1>2, <3>2, <3>3 DEF OpenCalls, EventOf
  <2>3. QED BY <2>1, <2>2
<1>7. OpenCalls(tool, c) \subseteq 1 .. ThisCall /\ OpenCalls(tool, c)' \subseteq 1 .. ThisCall
    BY <1>2 DEF OpenCalls
<1>8. QED BY <1>6, <1>7

LEMMA OpenCallsEnded ==
    ASSUME AgentTypeOK, WorkersServe, CallsApart, NEW tool, NEW c, NEW w \in Workers,
           SaveDecision(w) \/ AbortRequest(w), NEW result, EndWith(w, result)
    PROVE  Cardinality(OpenCalls(tool, c)') =
               Cardinality(OpenCalls(tool, c))
                   - One(/\ serving[w] # 0
                         /\ request[w].event_type = EventOf(tool)
                         /\ request[w].case_id = c)
<1>. DEFINE counts == /\ serving[w] # 0
                      /\ request[w].event_type = EventOf(tool)
                      /\ request[w].case_id = c
<1>1. PICK A : A = OpenCalls(tool, c)
    OBVIOUS
<1>2. /\ request' = [request EXCEPT ![w] = NoRequest]
      /\ serving' = [serving EXCEPT ![w] = 0]
      /\ in_flight' = in_flight
      /\ ThisCall' = ThisCall
    BY HandlerEnds DEF EndWith, AgentTypeOK, ThisCall, session
<1>3. /\ serving'[w] = 0
      /\ \A v \in Workers : v # w => request'[v] = request[v] /\ serving'[v] = serving[v]
    BY <1>2, CallIds DEF AgentTypeOK, TypeOK
<1>4. ASSUME NEW id \in 1 .. ThisCall
      PROVE  id \in OpenCalls(tool, c)' <=> id \in A /\ id # serving[w]
  <2>1. id # 0
    BY CallIds
  <2>2. CASE id # serving[w]
    <3>1. \A v \in Workers : (serving'[v] = id <=> serving[v] = id) /\ (serving[v] = id => v # w)
      BY <1>3, <2>1, <2>2
    <3>2. QED BY <1>1, <1>2, <1>3, <2>2, <3>1 DEF OpenCalls, EventOf
  <2>3. CASE id = serving[w]
    <3>1. \A v \in Workers : serving'[v] # id
      BY <1>3, <2>1, <2>3 DEF CallsApart
    <3>2. \A call \in in_flight : call.id # id
      BY <2>3 DEF CallsApart
    <3>3. QED BY <1>2, <2>3, <3>1, <3>2 DEF OpenCalls
  <2>4. QED BY <2>2, <2>3
<1>5. A \subseteq 1 .. ThisCall /\ OpenCalls(tool, c)' \subseteq 1 .. ThisCall
    BY <1>1, <1>2 DEF OpenCalls
<1>6. OpenCalls(tool, c)' = A \ {serving[w]}
    BY <1>4, <1>5
<1>7. serving[w] \in A <=> counts
  <2>1. serving[w] # 0 <=> serving[w] \in 1 .. ThisCall
    BY CallIds
  <2>2. CASE serving[w] # 0
    <3>1. \A v \in Workers : serving[v] = serving[w] <=> v = w
      BY <2>2 DEF CallsApart
    <3>2. \A call \in in_flight : call.id # serving[w]
      BY DEF CallsApart
    <3>3. QED BY <1>1, <2>1, <2>2, <3>1, <3>2 DEF OpenCalls
  <2>3. CASE serving[w] = 0
    BY <1>1, <2>1, <2>3 DEF OpenCalls
  <2>4. QED BY <2>2, <2>3
<1>8. IsFiniteSet(A) /\ Cardinality(A) \in Nat
    BY <1>1, CountIsNat
<1>. HIDE DEF counts
<1>9. Cardinality(A \ {serving[w]}) =
          IF serving[w] \in A THEN Cardinality(A) - 1 ELSE Cardinality(A)
    BY <1>8, FS_RemoveElement
<1>10. QED BY <1>1, <1>6, <1>7, <1>8, <1>9 DEF One, counts

\* The numbers of one tool and case, and the step from one state to the next.
LEMMA CountsMove ==
    ASSUME AgentTypeOK, AgentTypeOK', NEW tool, NEW c,
           CallsCounted(tool, c),
           NEW d \in {0, 1}, NEW f \in {0, 1}, NEW s \in {0, 1}, NEW o \in {0, 1}, NEW g \in {0, 1},
           Cardinality(InTrace(tool, c, "done")') = Cardinality(InTrace(tool, c, "done")) + d,
           Cardinality(InTrace(tool, c, "error")') = Cardinality(InTrace(tool, c, "error")) + f,
           Cardinality(Written(tool, c)') = Cardinality(Written(tool, c)) + s,
           Cardinality(OpenCalls(tool, c)') = Cardinality(OpenCalls(tool, c)) + o - g,
           d + Unread(tool, c)' <= Unread(tool, c) + s,
           s + o + Waiting(tool, c) <= d + f + g + Waiting(tool, c)'
    PROVE  CallsCounted(tool, c)'
<1>1. /\ Cardinality(InTrace(tool, c, "done")) \in Nat
      /\ Cardinality(InTrace(tool, c, "error")) \in Nat
      /\ Cardinality(Written(tool, c)) \in Nat
      /\ Cardinality(OpenCalls(tool, c)) \in Nat
    BY CountIsNat
<1>2. /\ Unread(tool, c) \in {0, 1} /\ Unread(tool, c)' \in {0, 1}
      /\ Waiting(tool, c) \in {0, 1} /\ Waiting(tool, c)' \in {0, 1}
    BY DEF Unread, Waiting
<1>3. /\ Cardinality(InTrace(tool, c, "done")) + Unread(tool, c) <= Cardinality(Written(tool, c))
      /\ Cardinality(Written(tool, c)) + Cardinality(OpenCalls(tool, c))
             <= Cardinality(InTrace(tool, c, "done")) + Cardinality(InTrace(tool, c, "error"))
                    + Waiting(tool, c)
    BY DEF CallsCounted
<1>4. /\ Cardinality(InTrace(tool, c, "done")') + Unread(tool, c)'
             <= Cardinality(Written(tool, c)')
      /\ Cardinality(Written(tool, c)') + Cardinality(OpenCalls(tool, c)')
             <= Cardinality(InTrace(tool, c, "done")') + Cardinality(InTrace(tool, c, "error")')
                    + Waiting(tool, c)'
    BY <1>1, <1>2, <1>3
<1>5. QED BY <1>4 DEF CallsCounted

LEMMA SameTraceCounts ==
    ASSUME NEW tool, NEW c, UNCHANGED trace
    PROVE  \A status : InTrace(tool, c, status)' = InTrace(tool, c, status)
BY DEF InTrace

LEMMA SameHistoryCounts ==
    ASSUME NEW tool, NEW c, UNCHANGED decision_history
    PROVE  Written(tool, c)' = Written(tool, c)
BY DEF Written, EventOf

\* A response that comes or does not: what is done and unread is in one place.
LEMMA RespondCounts ==
    ASSUME AgentTypeOK, UNCHANGED session, NEW id, NEW result \in Result, Respond(id, result),
           NEW tool, NEW c
    PROVE  /\ Waiting(tool, c)' = Waiting(tool, c)
           /\ Unread(tool, c)' =
                  IF phase = "waiting" /\ id = ThisCall
                  THEN One(Concerns(answer.use, tool, c) /\ result.status = "done")
                  ELSE Unread(tool, c)
<1>1. result # None
    BY AgentAssumption
<1>2. phase' = phase
    BY DEF session
<1>3. CASE phase = "waiting" /\ id = ThisCall
    BY <1>1, <1>2, <1>3, RespondTells DEF Waiting, Unread, One, Concerns
<1>4. CASE ~(phase = "waiting" /\ id = ThisCall)
  <2>1. answer' = answer
    BY <1>4, RespondTells
  <2>2. QED BY <1>2, <1>4, <2>1 DEF Waiting, Unread
<1>5. QED BY <1>3, <1>4

\* The session's own steps: what it stops waiting for it traces.
LEMMA SessionCounts ==
    ASSUME AgentInvariant, SessionStep, AgentTypeOK', NEW tool \in Tools, NEW c \in Cases
    PROVE  CallsCounted(tool, c)'
<1>. USE DEF AgentInvariant
<1>0. CallsCounted(tool, c)
    BY DEF AllCounted
<1>1. Written(tool, c)' = Written(tool, c)
    BY SessionKeepsService, SameHistoryCounts DEF vars, tables
<1>2. UNCHANGED <<serving, request>>
    BY SessionKeepsService DEF vars
<1>3. /\ \A status : Cardinality(InTrace(tool, c, status)) \in Nat
      /\ Cardinality(Written(tool, c)) \in Nat
      /\ Cardinality(OpenCalls(tool, c)) \in Nat
    BY CountIsNat
<1>4. CASE /\ phase # "waiting" /\ phase' # "waiting"
           /\ UNCHANGED <<trace, in_flight>>
  <2>1. OpenCalls(tool, c)' = OpenCalls(tool, c)
    BY <1>2, <1>4, OpenCallsStay DEF ThisCall
  <2>2. Unread(tool, c)' = Unread(tool, c) /\ Waiting(tool, c)' = Waiting(tool, c)
        /\ Unread(tool, c) = 0 /\ Waiting(tool, c) = 0
    BY <1>4 DEF Unread, Waiting
  <2>3. QED BY <1>0, <1>1, <1>3, <1>4, <2>1, <2>2, SameTraceCounts, CountsMove
<1>5. ASSUME NEW use \in ToolUse, SendCall(use) PROVE CallsCounted(tool, c)'
  <2>1. Cardinality(OpenCalls(tool, c)') =
            Cardinality(OpenCalls(tool, c)) + One(Concerns(use, tool, c))
    BY <1>5, OpenCallsSent
  <2>2. /\ Unread(tool, c) = 0 /\ Waiting(tool, c) = 0
        /\ Unread(tool, c)' = 0 /\ Waiting(tool, c)' = One(Concerns(use, tool, c))
    BY <1>5 DEF SendCall, Unread, Waiting, One, Concerns
  <2>3. UNCHANGED trace
    BY <1>5 DEF SendCall
  <2>4. One(Concerns(use, tool, c)) \in {0, 1}
    BY DEF One
  <2>5. QED BY <1>0, <1>1, <1>3, <2>1, <2>2, <2>3, <2>4, SameTraceCounts, CountsMove
<1>6. ASSUME NEW e \in TraceEntry, trace' = Append(trace, e), UNCHANGED in_flight,
             phase' # "waiting",
             \/ phase # "waiting" /\ ~(Concerns(e.use, tool, c) /\ e.result.status \in {"done", "error"})
             \/ /\ phase = "waiting" /\ e.use = answer.use /\ e.result.status \in {"done", "error"}
                /\ e.result.status = "done" => answer.result # None /\ e.result = answer.result
      PROVE  CallsCounted(tool, c)'
  <2>. DEFINE d == One(Concerns(e.use, tool, c) /\ e.result.status = "done")
              f == One(Concerns(e.use, tool, c) /\ e.result.status = "error")
  <2>1. OpenCalls(tool, c)' = OpenCalls(tool, c)
    BY <1>2, <1>6, OpenCallsStay, TraceGrows
  <2>2. /\ Cardinality(InTrace(tool, c, "done")') = Cardinality(InTrace(tool, c, "done")) + d
        /\ Cardinality(InTrace(tool, c, "error")') = Cardinality(InTrace(tool, c, "error")) + f
    BY <1>6, TraceCounts
  <2>3. Unread(tool, c)' = 0 /\ Waiting(tool, c)' = 0
    BY <1>6 DEF Unread, Waiting
  <2>4. d <= Unread(tool, c) /\ Waiting(tool, c) <= d + f
    BY <1>6 DEF Unread, Waiting, One, Concerns
  <2>5. d \in {0, 1} /\ f \in {0, 1} /\ Unread(tool, c) \in {0, 1} /\ Waiting(tool, c) \in {0, 1}
    BY DEF One, Unread, Waiting
  <2>. HIDE DEF d, f
  <2>6. QED BY <1>0, <1>1, <1>3, <2>1, <2>2, <2>3, <2>4, <2>5, CountsMove
<1>7. ASSUME NEW use \in ToolUse, BlockTool(use) PROVE CallsCounted(tool, c)'
  <2>. DEFINE e == [use |-> use, result |-> Blocked]
  <2>1. e \in TraceEntry /\ e.result.status = "blocked"
    BY ResultTypes DEF TraceEntry, Blocked
  <2>2. /\ trace' = Append(trace, e) /\ UNCHANGED in_flight
        /\ phase # "waiting" /\ phase' # "waiting"
    BY <1>7 DEF BlockTool, Traced, wire
  <2>. HIDE DEF e
  <2>3. QED BY <1>6, <2>1, <2>2
<1>8. ASSUME ReadTool PROVE CallsCounted(tool, c)'
  <2>. DEFINE e == [use |-> ReadUse, result |-> Done(None)]
  <2>1. e \in TraceEntry /\ ~Concerns(e.use, tool, c)
    BY ResultTypes DEF TraceEntry, Concerns, ReadUse, Tools
  <2>2. /\ trace' = Append(trace, e) /\ UNCHANGED in_flight
        /\ phase # "waiting" /\ phase' # "waiting"
    BY <1>8 DEF ReadTool, Traced, wire
  <2>. HIDE DEF e
  <2>3. QED BY <1>6, <2>1, <2>2
<1>9. ASSUME ReceiveAnswer PROVE CallsCounted(tool, c)'
  <2>. DEFINE e == [use |-> answer.use, result |-> answer.result]
  <2>1. e \in TraceEntry /\ e.use = answer.use /\ e.result = answer.result
    BY <1>9, AnswerWaited DEF ReceiveAnswer, TraceEntry
  <2>2. e.result.status \in {"done", "error"}
    BY <1>9 DEF ReceiveAnswer, WaitedPassedGate
  <2>3. /\ trace' = Append(trace, e) /\ UNCHANGED in_flight
        /\ phase = "waiting" /\ phase' # "waiting" /\ answer.result # None
    BY <1>9 DEF ReceiveAnswer, Traced
  <2>. HIDE DEF e
  <2>4. QED BY <1>6, <2>1, <2>2, <2>3
<1>10. ASSUME ClientTimeout PROVE CallsCounted(tool, c)'
  <2>. DEFINE e == [use |-> answer.use, result |-> Error]
  <2>1. e \in TraceEntry /\ e.use = answer.use /\ e.result.status = "error"
    BY <1>10, AnswerWaited, ResultTypes DEF ClientTimeout, TraceEntry, Error
  <2>2. /\ trace' = Append(trace, e) /\ UNCHANGED in_flight
        /\ phase = "waiting" /\ phase' # "waiting"
    BY <1>10 DEF ClientTimeout, Traced
  <2>. HIDE DEF e
  <2>3. QED BY <1>6, <2>1, <2>2
<1>11. ModelAsksForTools \/ ModelAnswers \/ ModelFails \/ LogFails \/ EndTurn =>
           /\ phase # "waiting" /\ phase' # "waiting"
           /\ UNCHANGED <<trace, in_flight>>
    BY DEF ModelAsksForTools, ModelAnswers, ModelFails, LogFails, EndTurn, wire
<1>12. QED
    BY <1>4, <1>5, <1>7, <1>8, <1>9, <1>10, <1>11 DEF SessionStep

\* The service's steps: a call that ends well is written, and then told.
LEMMA ServiceCounts ==
    ASSUME AgentInvariant, ServiceStep, AgentTypeOK', NEW tool \in Tools, NEW c \in Cases
    PROVE  CallsCounted(tool, c)'
<1>. USE DEF AgentInvariant
<1>0. CallsCounted(tool, c)
    BY DEF AllCounted
<1>1. UNCHANGED session /\ ThisCall' = ThisCall
    BY ServiceKeepsSession DEF session, ThisCall
<1>2. \A status : InTrace(tool, c, status)' = InTrace(tool, c, status)
    BY <1>1, SameTraceCounts DEF session
<1>3. /\ \A status : Cardinality(InTrace(tool, c, status)) \in Nat
      /\ Cardinality(Written(tool, c)) \in Nat
      /\ Cardinality(OpenCalls(tool, c)) \in Nat
    BY CountIsNat
<1>4. Unread(tool, c) \in {0, 1} /\ Waiting(tool, c) \in {0, 1}
    BY DEF Unread, Waiting
<1>5. CASE /\ OpenCalls(tool, c)' = OpenCalls(tool, c)
           /\ UNCHANGED <<decision_history, answer>>
  <2>1. Written(tool, c)' = Written(tool, c)
    BY <1>5, SameHistoryCounts
  <2>2. Unread(tool, c)' = Unread(tool, c) /\ Waiting(tool, c)' = Waiting(tool, c)
    BY <1>1, <1>5 DEF Unread, Waiting, session
  <2>3. QED BY <1>0, <1>2, <1>3, <1>4, <1>5, <2>1, <2>2, CountsMove
<1>6. ASSUME NEW call \in in_flight, RefuseCall(call) PROVE CallsCounted(tool, c)'
  <2>. DEFINE s == One(Concerns(call.use, tool, c))
  <2>1. Cardinality(OpenCalls(tool, c)') = Cardinality(OpenCalls(tool, c)) + 0 - s
    BY <1>3, <1>6, OpenCallsRefused DEF One
  <2>2. Written(tool, c)' = Written(tool, c)
    BY <1>6, SameHistoryCounts DEF RefuseCall, vars, tables
  <2>3. Unread(tool, c)' <= Unread(tool, c) /\ Waiting(tool, c)' = Waiting(tool, c)
    BY <1>1, <1>4, <1>6, RespondCounts, ResultTypes DEF RefuseCall, Error, One
  <2>4. s \in {0, 1} /\ Unread(tool, c)' \in {0, 1}
    BY DEF One, Unread
  <2>. HIDE DEF s
  <2>5. QED BY <1>0, <1>2, <1>3, <1>4, <2>1, <2>2, <2>3, <2>4, CountsMove
<1>7. ASSUME NEW call \in in_flight, NEW w \in Workers, TakeCall(w, call)
      PROVE  CallsCounted(tool, c)'
  <2>1. UNCHANGED <<decision_history, answer>>
    BY <1>7, CallTaken DEF TakeCall, tables
  <2>2. QED BY <1>5, <1>7, <2>1, OpenCallsTaken
<1>8. ASSUME NEW w \in Workers, TakeRequest(w) PROVE CallsCounted(tool, c)'
  <2>1. PICK r : request' = [request EXCEPT ![w] = r]
    BY <1>8, RequestTaken
  <2>2. ~Busy(w) /\ UNCHANGED tables /\ UNCHANGED wire
    BY <1>8, RequestTaken
  <2>3. serving[w] = 0
    BY <2>2 DEF WorkersServe
  <2>4. \A v \in Workers : serving[v] # 0 => request'[v] = request[v]
    BY <2>1, <2>3 DEF AgentTypeOK, TypeOK
  <2>5. OpenCalls(tool, c)' = OpenCalls(tool, c)
    BY <1>1, <2>2, <2>4, OpenCallsStay DEF wire
  <2>6. QED BY <1>5, <2>2, <2>5 DEF wire, tables
<1>9. ASSUME NEW w \in Workers, SaveReview(w), UNCHANGED wire PROVE CallsCounted(tool, c)'
  <2>1. PICK r : request' = [request EXCEPT ![w] = r]
    BY <1>9 DEF SaveReview
  <2>2. serving[w] = 0
    BY <1>9, ReviewNotAgents
  <2>3. \A v \in Workers : serving[v] # 0 => request'[v] = request[v]
    BY <2>1, <2>2 DEF AgentTypeOK, TypeOK
  <2>4. OpenCalls(tool, c)' = OpenCalls(tool, c)
    BY <1>1, <1>9, <2>3, OpenCallsStay DEF wire
  <2>5. QED BY <1>5, <1>9, <2>4 DEF wire, SaveReview
<1>10. ASSUME NEW w \in Workers, SaveDecision(w) \/ AbortRequest(w), NEW result \in Result,
              EndWith(w, result), AbortRequest(w) => result.status # "done"
       PROVE  CallsCounted(tool, c)'
  <2>. DEFINE mine == /\ serving[w] # 0
                      /\ request[w].event_type = EventOf(tool)
                      /\ request[w].case_id = c
              told == phase = "waiting" /\ serving[w] # 0 /\ serving[w] = ThisCall
  <2>1. Cardinality(OpenCalls(tool, c)') = Cardinality(OpenCalls(tool, c)) + 0 - One(mine)
    BY <1>3, <1>10, OpenCallsEnded DEF One
  <2>2. One(mine) \in {0, 1}
    BY DEF One
  <2>3. /\ Waiting(tool, c)' = Waiting(tool, c)
        /\ Unread(tool, c)' = IF told
                              THEN One(Concerns(answer.use, tool, c) /\ result.status = "done")
                              ELSE Unread(tool, c)
    <3>1. CASE serving[w] # 0
      BY <1>1, <1>10, <3>1, RespondCounts DEF EndWith
    <3>2. CASE serving[w] = 0
      BY <1>1, <1>10, <3>2 DEF EndWith, Unread, Waiting, session
    <3>3. QED BY <3>1, <3>2
  <2>4. told => (Concerns(answer.use, tool, c) => mine)
    BY DEF OpenCallsAwaited, Concerns
  <2>5. Unread(tool, c)' \in {0, 1}
    BY DEF Unread
  <2>. HIDE DEF mine
  <2>6. CASE SaveDecision(w)
    <3>1. Cardinality(Written(tool, c)') = Cardinality(Written(tool, c)) + One(mine)
      BY <2>6, WrittenCounts DEF mine
    <3>2. Unread(tool, c)' <= Unread(tool, c) + One(mine)
      BY <1>4, <2>3, <2>4 DEF One
    <3>3. One(mine) + 0 + Waiting(tool, c) <= 0 + 0 + One(mine) + Waiting(tool, c)'
      BY <1>4, <2>2, <2>3
    <3>4. QED BY <1>0, <1>2, <1>3, <1>4, <2>1, <2>2, <2>5, <3>1, <3>2, <3>3, CountsMove
  <2>7. CASE AbortRequest(w)
    <3>1. Written(tool, c)' = Written(tool, c)
      BY <2>7, SameHistoryCounts DEF AbortRequest, tables
    <3>2. Unread(tool, c)' <= Unread(tool, c)
      BY <1>4, <1>10, <2>3, <2>7 DEF One
    <3>3. 0 + 0 + Waiting(tool, c) <= 0 + 0 + One(mine) + Waiting(tool, c)'
      BY <1>4, <2>2, <2>3
    <3>4. QED BY <1>0, <1>2, <1>3, <1>4, <2>1, <2>2, <2>5, <3>1, <3>2, <3>3, CountsMove
  <2>8. QED BY <1>10, <2>6, <2>7
<1>11. ASSUME NEW w \in Workers, WorkerStep(w) PROVE CallsCounted(tool, c)'
  <2>1. SaveDecision(w) => ResultOf(w) \in Result
    <3>1. SaveDecision(w) => request[w].decision.risk_band \in RiskBand
      BY BusyRequest DEF SaveDecision, Request, DecisionRecord, AgentTypeOK
    <3>2. QED BY <3>1, ResultTypes DEF ResultOf
  <2>2. ~(SaveDecision(w) /\ AbortRequest(w))
    <3>1. SaveDecision(w) => Len(decision_history') = Len(decision_history) + 1
      BY DecisionRecorded DEF AgentTypeOK
    <3>2. AbortRequest(w) => Len(decision_history') = Len(decision_history)
      BY DEF AbortRequest, tables
    <3>3. Len(decision_history) \in Nat
      BY DEF AgentTypeOK, TypeOK
    <3>4. QED BY <3>1, <3>2, <3>3
  <2>3. Error \in Result /\ Error.status # "done"
    BY ResultTypes DEF Error
  <2>4. QED BY <1>9, <1>10, <1>11, <2>1, <2>2, <2>3 DEF WorkerStep
<1>12. QED BY <1>6, <1>7, <1>8, <1>11 DEF ServiceStep

LEMMA StepAllCounted ==
    ASSUME AgentInvariant, [AgentNext]_agentVars
    PROVE  AllCounted'
<1>1. AgentTypeOK'
    BY StepAgentTyped
<1>2. ASSUME NEW tool \in Tools, NEW c \in Cases
      PROVE  CallsCounted(tool, c)'
  <2>1. CASE UNCHANGED agentVars
    <3>1. /\ InTrace(tool, c, "done")' = InTrace(tool, c, "done")
          /\ InTrace(tool, c, "error")' = InTrace(tool, c, "error")
      BY <2>1, SameTraceCounts DEF agentVars, session
    <3>2. Written(tool, c)' = Written(tool, c)
      BY <2>1, SameHistoryCounts DEF agentVars, vars, tables
    <3>3. OpenCalls(tool, c)' = OpenCalls(tool, c)
      BY <2>1 DEF OpenCalls, ThisCall, EventOf, agentVars, vars, session, wire
    <3>4. Unread(tool, c)' = Unread(tool, c) /\ Waiting(tool, c)' = Waiting(tool, c)
      BY <2>1 DEF Unread, Waiting, agentVars, session, wire
    <3>5. QED BY <3>1, <3>2, <3>3, <3>4 DEF AgentInvariant, AllCounted, CallsCounted
  <2>2. QED BY <1>1, <2>1, SessionCounts, ServiceCounts DEF AgentNext
<1>3. QED BY <1>2 DEF AllCounted, Tools

-----------------------------------------------------------------------------
(***************************************************************************)
(* The session.                                                            *)
(***************************************************************************)

LEMMA InitAgentInvariant == AgentInit => AgentInvariant
<1>. SUFFICES ASSUME AgentInit PROVE AgentInvariant
    OBVIOUS
<1>. USE DEF AgentInit
<1>1. ServiceInvariant
    BY InitInvariant
<1>2. AgentTypeOK
  <2>1. TypeOK
    BY <1>1 DEF ServiceInvariant
  <2>2. ThisCall = 1 /\ trace \in Seq(TraceEntry) /\ agent_log \in Seq(LogEntry)
    BY DEF ThisCall
  <2>3. QED BY <2>1, <2>2, AgentAssumption DEF AgentTypeOK
<1>3. SessionHasRoom /\ LogHasTrace /\ WaitedPassedGate
    BY AgentAssumption DEF SessionHasRoom, LogHasTrace, WaitedPassedGate, Ended
<1>4. WorkersServe /\ CallsApart
    BY DEF WorkersServe, CallsApart, Init, Busy
<1>5. OpenCallsAwaited
    BY DEF OpenCallsAwaited, ThisCall
<1>6. BandsEvaluated
    BY DEF BandsEvaluated, Told
<1>7. BandFollowsTrace
    BY DEF BandFollowsTrace, BandBefore
<1>8. GateFollowsTrace
    BY DEF GateFollowsTrace
<1>9. AllCounted
  <2>. SUFFICES ASSUME NEW tool \in Tools, NEW c \in Cases PROVE CallsCounted(tool, c)
      BY DEF AllCounted
  <2>1. InTrace(tool, c, "done") = {} /\ InTrace(tool, c, "error") = {}
    BY DEF InTrace
  <2>2. Written(tool, c) = {}
    BY DEF Written, Init
  <2>3. OpenCalls(tool, c) = {}
    BY DEF OpenCalls, ThisCall
  <2>4. Unread(tool, c) = 0 /\ Waiting(tool, c) = 0
    BY DEF Unread, Waiting
  <2>5. /\ Cardinality(InTrace(tool, c, "done")) = 0
        /\ Cardinality(InTrace(tool, c, "error")) = 0
        /\ Cardinality(Written(tool, c)) = 0
        /\ Cardinality(OpenCalls(tool, c)) = 0
    BY <2>1, <2>2, <2>3, FS_EmptySet
  <2>6. QED BY <2>4, <2>5 DEF CallsCounted
<1>10. QED
    BY <1>1, <1>2, <1>3, <1>4, <1>5, <1>6, <1>7, <1>8, <1>9 DEF AgentInvariant

LEMMA StepAgentInvariant ==
    ASSUME AgentInvariant, [AgentNext]_agentVars
    PROVE  AgentInvariant'
<1>1. ServiceInvariant'
    BY AgentStepMoves, StepInvariant DEF AgentInvariant
<1>2. AgentTypeOK' /\ SessionHasRoom' /\ LogHasTrace'
    BY StepAgentTyped, StepSessionHasRoom, StepLogHasTrace
<1>3. WorkersServe' /\ CallsApart' /\ OpenCallsAwaited'
    BY StepWorkersServe, StepCallsApart, StepOpenCallsAwaited
<1>4. WaitedPassedGate' /\ BandsEvaluated'
    BY StepWaitedPassedGate, StepBandsEvaluated
<1>5. BandFollowsTrace' /\ GateFollowsTrace' /\ AllCounted'
    BY StepBandFollowsTrace, StepGateFollowsTrace, StepAllCounted
<1>6. QED BY <1>1, <1>2, <1>3, <1>4, <1>5 DEF AgentInvariant

\* The invariant holds of a session and the service under it.  The service's own
\* invariant is part of it: what run_agent adds to the traffic breaks none of the
\* rules that the handlers keep among other users.
THEOREM AgentIsInvariant == AgentSpec => []AgentInvariant
<1>1. AgentInvariant /\ [AgentNext]_agentVars => AgentInvariant'
    BY StepAgentInvariant
<1>2. QED BY <1>1, InitAgentInvariant, PTL DEF AgentSpec

\* The session of run_agent, and the calls of its tools, are of their types.
THEOREM AgentTyped == AgentSpec => []AgentTypeOK
<1>1. AgentInvariant => AgentTypeOK
    BY DEF AgentInvariant
<1>2. QED BY <1>1, AgentIsInvariant, PTL

\* What run_agent traces, and logs at its end, agrees with the audit history,
\* whatever calls it gave up and however late the service got to them.  Of a session
\* that failed, whose trace is lost, it says only that it claims nothing.
THEOREM AgentAccounts == AgentSpec => []HistoryAccountedFor
<1>1. ASSUME AgentInvariant PROVE HistoryAccountedFor
  <2>. USE DEF AgentInvariant
  <2>1. CASE phase = "failed"
    <3>1. \A tool, c, status : Reported(tool, c, status) = {}
      BY <2>1 DEF Account, Reported
    <3>2. \A tool \in Tools, c \in Cases : Cardinality(Written(tool, c)) \in Nat
      BY <1>1, CountIsNat
    <3>3. \A tool \in Tools, c \in Cases :
              Cardinality(Reported(tool, c, "done")) <= Cardinality(Written(tool, c))
      BY <3>1, <3>2, FS_EmptySet
    <3>4. QED BY <2>1, <3>3 DEF HistoryAccountedFor
  <2>2. CASE phase # "failed"
    <3>1. Account = trace
      BY <1>1, <2>2 DEF Account, LogHasTrace, AgentTypeOK
    <3>2. ASSUME NEW tool, NEW c, NEW status
          PROVE  Reported(tool, c, status) = InTrace(tool, c, status)
      BY <3>1 DEF Reported, InTrace
    <3>. SUFFICES ASSUME NEW tool \in Tools, NEW c \in Cases
                  PROVE  /\ Cardinality(InTrace(tool, c, "done")) <= Cardinality(Written(tool, c))
                         /\ Cardinality(Written(tool, c))
                                <= Cardinality(InTrace(tool, c, "done"))
                                   + (Cardinality(InTrace(tool, c, "error")) + Waiting(tool, c))
      BY <3>2 DEF HistoryAccountedFor
    <3>3. CallsCounted(tool, c)
      BY <1>1 DEF AllCounted
    <3>4. /\ Cardinality(InTrace(tool, c, "done")) \in Nat
          /\ Cardinality(InTrace(tool, c, "error")) \in Nat
          /\ Cardinality(Written(tool, c)) \in Nat
          /\ Cardinality(OpenCalls(tool, c)) \in Nat
      BY <1>1, CountIsNat
    <3>5. Unread(tool, c) \in Nat /\ Waiting(tool, c) \in Nat
      BY DEF Unread, Waiting
    <3>6. QED BY <3>3, <3>4, <3>5 DEF CallsCounted
  <2>3. QED BY <2>1, <2>2
<1>2. QED BY <1>1, AgentIsInvariant, PTL

\* _blocked_tool_call blocks an assignment exactly when the last evaluation that
\* was answered before it gave a high band, and what run_agent asks a human to
\* confirm is the last assignment it blocked.
THEOREM AgentGateFollows == AgentSpec => []GateFollowsTrace
<1>1. AgentInvariant => GateFollowsTrace
    BY DEF AgentInvariant
<1>2. QED BY <1>1, AgentIsInvariant, PTL

\* The band that run_agent goes by is of an evaluation that save_decision recorded
\* under its name.
THEOREM AgentBandsFromEngine == AgentSpec => []BandFromEngine
<1>1. AgentInvariant => BandFromEngine
    BY DEF AgentInvariant, BandsEvaluated, Evaluated, BandFromEngine
<1>2. QED BY <1>1, AgentIsInvariant, PTL

\* What the agent has the service write is audited like anybody's request: under
\* its session, too, the tables of save_decision and save_review implement the
\* append-only ledger.
THEOREM AgentIsAudited == AgentSpec => DecisionsAudited /\ ReviewsAudited
<1>1. AgentInit => DecisionLedger!Init /\ ReviewLedger!Init
    BY DEF AgentInit, Init, DecisionLedger!Init, ReviewLedger!Init
<1>2. AgentInvariant /\ [AgentNext]_agentVars =>
          /\ [DecisionLedger!RecordEvent]_(DecisionLedger!vars)
          /\ [ReviewLedger!RecordEvent]_(ReviewLedger!vars)
    BY AgentStepMoves, DecisionsRecorded, ReviewsRecorded DEF AgentInvariant
<1>3. QED
    BY <1>1, <1>2, AgentIsInvariant, PTL
    DEF AgentSpec, DecisionsAudited, ReviewsAudited, DecisionLedger!Spec, ReviewLedger!Spec
=============================================================================
