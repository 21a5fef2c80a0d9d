------------------------ MODULE ReviewServiceProofs ------------------------
(***************************************************************************)
(* The safety properties of the review service, for every number of        *)
(* handlers, cases, users and requests.                                    *)
(*                                                                         *)
(* A handler writes what it planned from a row it read earlier, so each    *)
(* invariant of the tables is strengthened with what it says of the        *)
(* planned writes.  SoundPlan collects what every handler guarantees of    *)
(* the plan at the moment it makes it.  The abstract specifications that   *)
(* the service implements follow from it, those that need one handler at a *)
(* time after that, and what the reports say of the tables at the end.     *)
(***************************************************************************)
EXTENDS ReviewReports, ReviewRecordProofs, SequenceTheorems, FunctionTheorems, FiniteSetTheorems

\* A request is told from no request by its event.
LEMMA BusyRequest ==
    ASSUME TypeOK, NEW w \in Workers, Busy(w)
    PROVE  request[w] \in Request
BY DEF TypeOK, Busy

LEMMA NoRequestIsNone == NoRequest \notin Request
<1>1. \A r \in Request : r.event_type # "none"
    BY DEF Request, DecisionEvent
<1>2. QED BY <1>1 DEF NoRequest

-----------------------------------------------------------------------------
(***************************************************************************)
(* What a handler plans.                                                   *)
(***************************************************************************)

\* The planned decision row is well-typed and consistent; it is a first state
\* of a case or follows the row that was read; a completion is of a case under
\* review, in the name of the user who submits it, and comes with its review;
\* nothing else completes a case or stores a review.
SoundPlan(c, event, user, review, decision) ==
    /\ event \in DecisionEvent
    /\ decision \in DecisionRecord
    /\ Consistent(decision)
    /\ review \in ReviewRecord \cup {None}
    /\ IF event = "decision_evaluated" THEN Lifecycle!Evaluated(View(decision))
       ELSE /\ decisions[c] # None
            /\ Lifecycle!Follows(View(decisions[c]), View(decision))
    /\ IF event = "review_completed"
       THEN /\ decision.review_status = "completed"
            /\ decision.assigned_reviewer_id = user.user_id
            /\ decisions[c].review_required
            /\ review # None
            /\ review = Adjudication(user, decision)
       ELSE /\ decision.review_status # "completed"
            /\ review = None

\* The fields of the view of a row.
LEMMA ViewOfRow ==
    ASSUME NEW row \in DecisionRecord
    PROVE  View(row) =
             [stage |-> Stage(row),
              cycle |-> row.review_cycle_id,
              reviewer |-> row.assigned_reviewer_id,
              decision |-> row.decision,
              risk_band |-> row.risk_band]
<1>1. row # None
    BY ServiceAssumption
<1>2. QED BY <1>1 DEF View

LEMMA EvaluateIsSound ==
    ASSUME TypeOK, NEW user \in AuthContext, NEW c \in Cases, NEW verdict \in Verdicts
    PROVE  SoundPlan(c, "decision_evaluated", user, None, Fresh(verdict))
<1>. DEFINE row == Fresh(verdict)
<1>1. verdict \in Verdict
    BY ServiceAssumption
<1>2. row \in DecisionRecord /\ Consistent(row)
    BY <1>1, FreshRow
<1>3. /\ row.review_cycle_id = 1
      /\ row.assigned_reviewer_id = None
      /\ row.review_status \in {"pending", "not_required"}
    BY DEF Fresh
<1>. HIDE DEF row
<1>4. Lifecycle!Evaluated(View(row))
  <2>1. ~row.review_required => row.decision = "approved" /\ row.risk_band = "low"
    BY <1>2, <1>3 DEF Consistent, ActiveStatus
  <2>2. Stage(row) \in {"waiting", "closed"} /\ (Stage(row) = "closed" => ~row.review_required)
    BY <1>3 DEF Stage
  <2>3. QED BY <1>2, <1>3, <2>1, <2>2, ViewOfRow DEF Lifecycle!Evaluated
<1>5. QED BY <1>2, <1>3, <1>4 DEF SoundPlan, DecisionEvent, row

\* A consistent row under review is open, and waits unless it is in review.
LEMMA OpenRow ==
    ASSUME NEW row \in DecisionRecord, Consistent(row), row.review_required
    PROVE  Stage(row) \in {"waiting", "working"}
BY DEF Stage

LEMMA RowRead ==
    ASSUME TypeOK, RowsConsistent, NEW c \in Cases, decisions[c] # None
    PROVE  decisions[c] \in DecisionRecord /\ Consistent(decisions[c])
BY DEF TypeOK, RowsConsistent

LEMMA AssignIsSound ==
    ASSUME TypeOK, RowsConsistent, NEW user \in AuthContext, NEW c \in Cases,
           NEW reviewer_id \in UserIds, UnderReview(c)
    PROVE  SoundPlan(c, "review_assigned", user, None, Assigned(decisions[c], reviewer_id))
<1>. DEFINE old == decisions[c]
            new == Assigned(old, reviewer_id)
<1>1. old \in DecisionRecord /\ Consistent(old) /\ old.review_required /\ old # None
    BY RowRead DEF UnderReview
<1>2. new \in DecisionRecord /\ Consistent(new)
    BY <1>1, AssignedRow
<1>3. /\ new.review_required = old.review_required
      /\ new.review_status = "assigned"
      /\ new.review_cycle_id = old.review_cycle_id
      /\ new.assigned_reviewer_id = reviewer_id
      /\ new.decision = old.decision
      /\ new.risk_band = old.risk_band
    BY <1>1 DEF Assigned, DecisionRecord
<1>. HIDE DEF new
<1>4. Stage(new) = "waiting" /\ Stage(old) \in {"waiting", "working"}
    BY <1>1, <1>3, OpenRow DEF Stage
<1>5. Lifecycle!Follows(View(old), View(new))
  <2>1. View(old) = [stage |-> Stage(old), cycle |-> old.review_cycle_id,
                     reviewer |-> old.assigned_reviewer_id,
                     decision |-> old.decision, risk_band |-> old.risk_band]
    BY <1>1, ViewOfRow
  <2>2. View(new) = [stage |-> "waiting", cycle |-> old.review_cycle_id,
                     reviewer |-> reviewer_id,
                     decision |-> old.decision, risk_band |-> old.risk_band]
    BY <1>2, <1>3, <1>4, ViewOfRow
  <2>3. Lifecycle!Assigned(View(old), View(new))
    BY <1>4, <2>1, <2>2, NoneAssumption DEF Lifecycle!Assigned, Lifecycle!Open, Lifecycle!Keeps
  <2>4. QED BY <2>3 DEF Lifecycle!Follows
<1>6. QED BY <1>1, <1>2, <1>3, <1>5 DEF SoundPlan, DecisionEvent, new

LEMMA StartIsSound ==
    ASSUME TypeOK, RowsConsistent, NEW user \in AuthContext, NEW c \in Cases,
           UnderReview(c), MayReview(user, c)
    PROVE  SoundPlan(c, "review_started", user, None, Started(decisions[c], user.user_id))
<1>. DEFINE old == decisions[c]
            new == Started(old, user.user_id)
<1>0. user.user_id \in UserIds
    BY ServiceAssumption DEF AuthContext
<1>1. old \in DecisionRecord /\ Consistent(old) /\ old.review_required /\ old # None
    BY RowRead DEF UnderReview
<1>2. new \in DecisionRecord /\ Consistent(new)
    BY <1>0, <1>1, StartedRow
<1>3. /\ new.review_required = old.review_required
      /\ new.review_status = "in_review"
      /\ new.review_cycle_id = old.review_cycle_id
      /\ new.assigned_reviewer_id = user.user_id
      /\ new.decision = old.decision
      /\ new.risk_band = old.risk_band
    BY <1>1 DEF Started, DecisionRecord
<1>. HIDE DEF new
<1>4. Stage(new) = "working" /\ Stage(old) \in {"waiting", "working"}
    BY <1>1, <1>3, OpenRow DEF Stage
<1>5. Lifecycle!Follows(View(old), View(new))
  <2>1. View(old) = [stage |-> Stage(old), cycle |-> old.review_cycle_id,
                     reviewer |-> old.assigned_reviewer_id,
                     decision |-> old.decision, risk_band |-> old.risk_band]
    BY <1>1, ViewOfRow
  <2>2. View(new) = [stage |-> "working", cycle |-> old.review_cycle_id,
                     reviewer |-> user.user_id,
                     decision |-> old.decision, risk_band |-> old.risk_band]
    BY <1>2, <1>3, <1>4, ViewOfRow
  <2>3. old.assigned_reviewer_id \in {None, user.user_id}
    BY DEF MayReview
  <2>4. Lifecycle!Started(View(old), View(new))
    BY <1>0, <1>4, <2>1, <2>2, <2>3, NoneAssumption DEF Lifecycle!Started, Lifecycle!Open, Lifecycle!Keeps
  <2>5. QED BY <2>4 DEF Lifecycle!Follows
<1>6. QED BY <1>1, <1>2, <1>3, <1>5 DEF SoundPlan, DecisionEvent, new

LEMMA SubmitIsSound ==
    ASSUME TypeOK, RowsConsistent, NEW user \in AuthContext, NEW c \in Cases,
           NEW submission \in Submissions, UnderReview(c), MayReview(user, c),
           submission.final_decision # "human_review_required"
    PROVE  SoundPlan(c, "review_completed", user,
                     [reviewer_id |-> user.user_id, outcome |-> submission.outcome,
                      final_decision |-> submission.final_decision],
                     Finalized(decisions[c], user.user_id, submission))
<1>. DEFINE old == decisions[c]
            new == Finalized(old, user.user_id, submission)
            review == [reviewer_id |-> user.user_id, outcome |-> submission.outcome,
                       final_decision |-> submission.final_decision]
<1>0. user.user_id \in UserIds /\ submission \in Submission
    BY ServiceAssumption DEF AuthContext
<1>1. old \in DecisionRecord /\ Consistent(old) /\ old.review_required /\ old # None
    BY RowRead DEF UnderReview
<1>2. new \in DecisionRecord /\ Consistent(new)
    BY <1>0, <1>1, FinalizedRow
<1>3. old.assigned_reviewer_id \in {None, user.user_id}
    BY DEF MayReview
<1>4. /\ new.review_required = FALSE
      /\ new.review_status = "completed"
      /\ new.review_cycle_id = old.review_cycle_id
      /\ new.assigned_reviewer_id = user.user_id
      /\ new.decision = submission.final_decision
      /\ new.final_reviewer_outcome = submission.outcome
      /\ new.risk_band = old.risk_band
    BY <1>1, <1>3 DEF Finalized, DecisionRecord
<1>. HIDE DEF new
<1>5. Stage(new) = "settled" /\ Stage(old) \in {"waiting", "working"}
    BY <1>1, <1>4, OpenRow DEF Stage
<1>6. Lifecycle!Follows(View(old), View(new))
  <2>1. View(old) = [stage |-> Stage(old), cycle |-> old.review_cycle_id,
                     reviewer |-> old.assigned_reviewer_id,
                     decision |-> old.decision, risk_band |-> old.risk_band]
    BY <1>1, ViewOfRow
  <2>2. View(new) = [stage |-> "settled", cycle |-> old.review_cycle_id,
                     reviewer |-> user.user_id,
                     decision |-> submission.final_decision, risk_band |-> old.risk_band]
    BY <1>2, <1>4, <1>5, ViewOfRow
  <2>3. Lifecycle!Settled(View(old), View(new))
    BY <1>0, <1>3, <1>5, <2>1, <2>2, NoneAssumption DEF Lifecycle!Settled, Lifecycle!Open, Lifecycle!Keeps
  <2>4. QED BY <2>3 DEF Lifecycle!Follows
<1>7. review \in ReviewRecord /\ review # None /\ review = Adjudication(user, new)
    BY <1>0, <1>4, ServiceAssumption DEF ReviewRecord, Submission, Adjudication
<1>8. QED BY <1>1, <1>2, <1>4, <1>6, <1>7 DEF SoundPlan, DecisionEvent, new

LEMMA ReopenIsSound ==
    ASSUME TypeOK, RowsConsistent, NEW user \in AuthContext, NEW c \in Cases,
           NEW reason \in ReopenReasons,
           decisions[c] # None, decisions[c].review_status = "completed"
    PROVE  SoundPlan(c, "case_reopened", user, None, Reopened(decisions[c], reason))
<1>. DEFINE old == decisions[c]
            new == Reopened(old, reason)
<1>1. old \in DecisionRecord /\ Consistent(old)
    BY RowRead
<1>2. new \in DecisionRecord /\ Consistent(new)
    BY <1>1, ReopenedRow
<1>3. /\ new.review_required = TRUE
      /\ new.review_status = "reopened"
      /\ new.review_cycle_id = old.review_cycle_id + 1
      /\ new.assigned_reviewer_id = None
      /\ new.decision = "human_review_required"
      /\ new.risk_band = old.risk_band
    BY <1>1 DEF Reopened, DecisionRecord
<1>. HIDE DEF new
<1>4. Stage(new) = "waiting"
    BY <1>3 DEF Stage
<1>5. Stage(old) = "settled"
    BY <1>1 DEF Stage, Consistent, ActiveStatus
<1>6. Lifecycle!Follows(View(old), View(new))
  <2>1. View(old) = [stage |-> Stage(old), cycle |-> old.review_cycle_id,
                     reviewer |-> old.assigned_reviewer_id,
                     decision |-> old.decision, risk_band |-> old.risk_band]
    BY <1>1, ViewOfRow
  <2>2. View(new) = [stage |-> "waiting", cycle |-> old.review_cycle_id + 1,
                     reviewer |-> None,
                     decision |-> "human_review_required", risk_band |-> old.risk_band]
    BY <1>2, <1>3, <1>4, ViewOfRow
  <2>3. Lifecycle!Reopened(View(old), View(new))
    BY <1>5, <2>1, <2>2 DEF Lifecycle!Reopened, Lifecycle!Keeps
  <2>4. QED BY <2>3 DEF Lifecycle!Follows
<1>7. QED BY <1>1, <1>2, <1>3, <1>6 DEF SoundPlan, DecisionEvent, new

-----------------------------------------------------------------------------
(***************************************************************************)
(* Steps.                                                                  *)
(***************************************************************************)

\* A handler takes a request and makes a sound plan of its writes.
Planned(w) ==
    \E user \in AuthContext, c \in Cases, event \in DecisionEvent,
       review \in ReviewRecord \cup {None}, decision \in DecisionRecord :
        /\ SoundPlan(c, event, user, review, decision)
        /\ Plan(w, c, event, user, review, decision)

LEMMA HandleIsPlanned ==
    ASSUME TypeOK, RowsConsistent, NEW w \in Workers, NEW user \in AuthContext,
           NEW c \in Cases, Handle(w, user, c)
    PROVE  Planned(w)
<1>1. SUFFICES ASSUME NEW event, NEW review, NEW decision,
                      SoundPlan(c, event, user, review, decision),
                      Plan(w, c, event, user, review, decision)
               PROVE  Planned(w)
  <2>1. CASE \E verdict \in Verdicts : EvaluateCase(w, user, c, verdict)
    BY <2>1, EvaluateIsSound DEF EvaluateCase
  <2>2. CASE \E reviewer_id \in UserIds : AssignReview(w, user, c, reviewer_id)
    BY <2>2, AssignIsSound DEF AssignReview
  <2>3. CASE StartReview(w, user, c)
    BY <2>3, StartIsSound DEF StartReview
  <2>4. CASE \E submission \in Submissions : SubmitReview(w, user, c, submission)
    BY <2>4, SubmitIsSound DEF SubmitReview
  <2>5. CASE \E reason \in ReopenReasons : ReopenReview(w, user, c, reason)
    BY <2>5, ReopenIsSound DEF ReopenReview
  <2>6. QED BY <2>1, <2>2, <2>3, <2>4, <2>5 DEF Handle
<1>2. /\ event \in DecisionEvent
      /\ review \in ReviewRecord \cup {None}
      /\ decision \in DecisionRecord
    BY <1>1 DEF SoundPlan
<1>3. QED BY <1>1, <1>2 DEF Planned

\* The steps of the service, a handler's decision taken for its plan.
Moves ==
    \E w \in Workers : Planned(w) \/ SaveReview(w) \/ SaveDecision(w) \/ AbortRequest(w)

LEMMA NextMoves ==
    ASSUME TypeOK, RowsConsistent, [Next]_vars
    PROVE  [Moves]_vars
<1>1. AuthContexts \subseteq AuthContext
    BY ServiceAssumption
<1>2. QED BY <1>1, HandleIsPlanned DEF Next, Moves

LEMMA InitTypeOK == Init => TypeOK
BY DEF Init, TypeOK

LEMMA StepTypeOK == TypeOK /\ RowsConsistent /\ [Moves]_vars => TypeOK'
<1>. SUFFICES ASSUME TypeOK, RowsConsistent, [Moves]_vars PROVE TypeOK'
    OBVIOUS
<1>1. CASE UNCHANGED vars
    BY <1>1 DEF TypeOK, vars, tables
<1>2. ASSUME NEW w \in Workers, Planned(w) PROVE TypeOK'
  <2>1. PICK user \in AuthContext, c \in Cases, event \in DecisionEvent,
             review \in ReviewRecord \cup {None}, decision \in DecisionRecord :
                 Plan(w, c, event, user, review, decision)
    BY <1>2 DEF Planned
  <2>2. [case_id |-> c, event_type |-> event, actor |-> user,
         review |-> review, decision |-> decision] \in Request
    BY ServiceAssumption DEF Request
  <2>3. QED BY <2>1, <2>2 DEF TypeOK, Plan, tables
<1>3. ASSUME NEW w \in Workers, SaveReview(w) PROVE TypeOK'
  <2>1. request[w] \in Request /\ request[w].review # None
    BY <1>3, BusyRequest DEF SaveReview
  <2>2. [case_id |-> request[w].case_id, event_type |-> "review_submitted",
         actor |-> request[w].actor, record |-> request[w].review] \in ReviewEntry
    BY <2>1 DEF Request, ReviewEntry
  <2>3. [request[w] EXCEPT !.review = None] \in Request
    BY <2>1 DEF Request
  <2>4. reviews' \in [Cases -> ReviewRecord \cup {None}]
    BY <1>3, <2>1 DEF SaveReview, TypeOK, Request
  <2>5. review_history' \in Seq(ReviewEntry)
    BY <1>3, <2>2 DEF SaveReview, TypeOK
  <2>6. request' \in [Workers -> Request \cup {NoRequest}]
    BY <1>3, <2>3 DEF SaveReview, TypeOK
  <2>7. QED BY <1>3, <2>4, <2>5, <2>6 DEF SaveReview, TypeOK
<1>4. ASSUME NEW w \in Workers, SaveDecision(w) PROVE TypeOK'
  <2>1. request[w] \in Request
    BY <1>4, BusyRequest DEF SaveDecision
  <2>2. [case_id |-> request[w].case_id, event_type |-> request[w].event_type,
         actor |-> request[w].actor, record |-> request[w].decision] \in DecisionEntry
    BY <2>1 DEF Request, DecisionEntry
  <2>3. decisions' \in [Cases -> DecisionRecord \cup {None}]
    BY <1>4, <2>1 DEF SaveDecision, TypeOK, Request
  <2>4. decision_history' \in Seq(DecisionEntry)
    BY <1>4, <2>2 DEF SaveDecision, TypeOK
  <2>5. QED BY <1>4, <2>3, <2>4 DEF SaveDecision, TypeOK
<1>5. ASSUME NEW w \in Workers, AbortRequest(w) PROVE TypeOK'
    BY <1>5 DEF AbortRequest, TypeOK, tables
<1>6. QED BY <1>1, <1>2, <1>3, <1>4, <1>5 DEF Moves

-----------------------------------------------------------------------------
(***************************************************************************)
(* The histories only grow, so what they have once justified they justify  *)
(* for ever.                                                               *)
(***************************************************************************)

Extends(new, old) ==
    /\ Len(old) \in Nat /\ Len(new) \in Nat /\ Len(old) <= Len(new)
    /\ \A j \in 1 .. Len(old) : new[j] = old[j]

LEMMA AppendExtends ==
    ASSUME NEW S, NEW h \in Seq(S), NEW x \in S
    PROVE  /\ Extends(Append(h, x), h)
           /\ Len(Append(h, x)) = Len(h) + 1
           /\ Append(h, x)[Len(h) + 1] = x
BY DEF Extends

LEMMA SameExtends == ASSUME NEW S, NEW h \in Seq(S) PROVE Extends(h, h)
BY DEF Extends

LEMMA DecisionRecorded ==
    ASSUME TypeOK, NEW w \in Workers, SaveDecision(w)
    PROVE  LET event == [case_id |-> request[w].case_id,
                         event_type |-> request[w].event_type,
                         actor |-> request[w].actor, record |-> request[w].decision]
           IN  /\ request[w] \in Request
               /\ event \in DecisionEntry
               /\ Extends(decision_history', decision_history)
               /\ Len(decision_history') = Len(decision_history) + 1
               /\ decision_history'[Len(decision_history) + 1] = event
<1>1. request[w] \in Request
    BY BusyRequest DEF SaveDecision
<1>. DEFINE event == [case_id |-> request[w].case_id,
                      event_type |-> request[w].event_type,
                      actor |-> request[w].actor, record |-> request[w].decision]
<1>2. event \in DecisionEntry
    BY <1>1 DEF Request, DecisionEntry
<1>. HIDE DEF event
<1>3. decision_history' = Append(decision_history, event)
    BY DEF SaveDecision, event
<1>4. decision_history \in Seq(DecisionEntry)
    BY DEF TypeOK
<1>5. QED BY <1>1, <1>2, <1>3, <1>4, AppendExtends DEF event

LEMMA ReviewRecorded ==
    ASSUME TypeOK, NEW w \in Workers, SaveReview(w)
    PROVE  LET event == [case_id |-> request[w].case_id,
                         event_type |-> "review_submitted",
                         actor |-> request[w].actor, record |-> request[w].review]
           IN  /\ request[w] \in Request
               /\ event \in ReviewEntry
               /\ Extends(review_history', review_history)
               /\ Len(review_history') = Len(review_history) + 1
               /\ review_history'[Len(review_history) + 1] = event
<1>1. request[w] \in Request /\ request[w].review # None
    BY BusyRequest DEF SaveReview
<1>. DEFINE event == [case_id |-> request[w].case_id,
                      event_type |-> "review_submitted",
                      actor |-> request[w].actor, record |-> request[w].review]
<1>2. event \in ReviewEntry
    BY <1>1 DEF Request, ReviewEntry
<1>. HIDE DEF event
<1>3. review_history' = Append(review_history, event)
    BY DEF SaveReview, event
<1>4. review_history \in Seq(ReviewEntry)
    BY DEF TypeOK
<1>5. QED BY <1>1, <1>2, <1>3, <1>4, AppendExtends DEF event

LEMMA HistoriesGrow ==
    ASSUME TypeOK, RowsConsistent, [Moves]_vars
    PROVE  /\ Extends(decision_history', decision_history)
           /\ Extends(review_history', review_history)
<1>0. /\ Extends(decision_history, decision_history)
      /\ Extends(review_history, review_history)
    BY SameExtends DEF TypeOK
<1>1. CASE UNCHANGED tables
    BY <1>0, <1>1 DEF tables
<1>2. ASSUME NEW w \in Workers, SaveReview(w)
      PROVE  /\ Extends(decision_history', decision_history)
             /\ Extends(review_history', review_history)
    BY <1>0, <1>2, ReviewRecorded DEF SaveReview
<1>3. ASSUME NEW w \in Workers, SaveDecision(w)
      PROVE  /\ Extends(decision_history', decision_history)
             /\ Extends(review_history', review_history)
    BY <1>0, <1>3, DecisionRecorded DEF SaveDecision
<1>4. QED
    BY <1>1, <1>2, <1>3 DEF Moves, Planned, Plan, AbortRequest, vars

LEMMA BasisKept ==
    ASSUME Extends(decision_history', decision_history),
           NEW c, NEW event_type, NEW decision, NEW n \in Nat, NEW m \in Nat,
           n <= Len(decision_history), n <= m,
           HasBasis(c, event_type, decision, n)
    PROVE  HasBasis(c, event_type, decision, m)'
<1>1. CASE event_type = "decision_evaluated"
    BY <1>1 DEF HasBasis
<1>2. CASE event_type # "decision_evaluated"
  <2>1. PICK j \in 1 .. n :
            /\ decision_history[j].case_id = c
            /\ Lifecycle!Follows(View(decision_history[j].record), View(decision))
    BY <1>2 DEF HasBasis
  <2>2. j \in 1 .. m /\ decision_history'[j] = decision_history[j]
    BY DEF Extends
  <2>3. QED BY <1>2, <2>1, <2>2 DEF HasBasis
<1>3. QED BY <1>1, <1>2

LEMMA AdjudicatedKept ==
    ASSUME Extends(review_history', review_history),
           NEW c, NEW user, NEW decision, Adjudicated(c, user, decision)
    PROVE  Adjudicated(c, user, decision)'
<1>1. PICK j \in 1 .. Len(review_history) :
          /\ review_history[j].case_id = c
          /\ review_history[j].actor = user
          /\ review_history[j].record = Adjudication(user, decision)
    BY DEF Adjudicated
<1>2. j \in 1 .. Len(review_history') /\ review_history'[j] = review_history[j]
    BY DEF Extends
<1>3. decision.assigned_reviewer_id = user.user_id
    BY DEF Adjudicated
<1>4. QED BY <1>1, <1>2, <1>3 DEF Adjudicated

LEMMA SafeKept ==
    ASSUME Extends(decision_history', decision_history),
           Extends(review_history', review_history),
           NEW r, SafeToWrite(r)
    PROVE  SafeToWrite(r)'
<1>1. HasBasis(r.case_id, r.event_type, r.decision, Len(decision_history))'
  <2>1. /\ Len(decision_history) \in Nat /\ Len(decision_history') \in Nat
        /\ Len(decision_history) <= Len(decision_history')
    BY DEF Extends
  <2>2. \A m \in Nat : Len(decision_history) <= m =>
            HasBasis(r.case_id, r.event_type, r.decision, m)'
    BY <2>1, BasisKept DEF SafeToWrite
  <2>3. QED BY <2>1, <2>2 DEF HasBasis
<1>2. r.event_type = "review_completed" /\ r.review = None =>
          Adjudicated(r.case_id, r.actor, r.decision)'
    BY AdjudicatedKept DEF SafeToWrite
<1>3. QED BY <1>1, <1>2 DEF SafeToWrite

-----------------------------------------------------------------------------
(***************************************************************************)
(* The inductive invariant: one lemma for each of its parts.               *)
(***************************************************************************)

LEMMA InitInvariant == Init => ServiceInvariant
<1>. SUFFICES ASSUME Init PROVE ServiceInvariant
    OBVIOUS
<1>1. TypeOK
    BY InitTypeOK
<1>2. RowsConsistent /\ RowsRecorded
    BY DEF Init, RowsConsistent, RowsRecorded
<1>3. PendingWritesSafe
    BY DEF Init, PendingWritesSafe, Busy
<1>4. CompletionsAdjudicated /\ EventsHaveBasis
    BY DEF Init, CompletionsAdjudicated, EventsHaveBasis
<1>5. QED BY <1>1, <1>2, <1>3, <1>4 DEF ServiceInvariant

\* A decision row is only ever written by save_decision.
LEMMA StepRowsConsistent ==
    ASSUME ServiceInvariant, [Moves]_vars
    PROVE  RowsConsistent'
<1>. USE DEF ServiceInvariant
<1>1. CASE UNCHANGED decisions
    BY <1>1 DEF RowsConsistent
<1>2. ASSUME NEW w \in Workers, SaveDecision(w) PROVE RowsConsistent'
  <2>1. request[w] \in Request /\ Consistent(request[w].decision)
    BY <1>2, BusyRequest DEF SaveDecision, PendingWritesSafe, SafeToWrite
  <2>2. request[w].case_id \in Cases
    BY <2>1 DEF Request
  <2>3. decisions' = [decisions EXCEPT ![request[w].case_id] = request[w].decision]
    BY <1>2 DEF SaveDecision
  <2>4. QED BY <2>1, <2>2, <2>3 DEF RowsConsistent, TypeOK
<1>3. QED
    BY <1>1, <1>2
    DEF Moves, Planned, Plan, SaveReview, AbortRequest, vars, tables

LEMMA StepRowsRecorded ==
    ASSUME ServiceInvariant, [Moves]_vars
    PROVE  RowsRecorded'
<1>. USE DEF ServiceInvariant
<1>1. Extends(decision_history', decision_history)
    BY HistoriesGrow
<1>2. ASSUME NEW c \in Cases, decisions[c] # None, decisions'[c] = decisions[c]
      PROVE  \E j \in 1 .. Len(decision_history') :
                 decision_history'[j].case_id = c /\ decision_history'[j].record = decisions'[c]
    BY <1>1, <1>2 DEF RowsRecorded, Extends
<1>3. CASE UNCHANGED decisions
    BY <1>2, <1>3 DEF RowsRecorded
<1>4. ASSUME NEW w \in Workers, SaveDecision(w) PROVE RowsRecorded'
  <2>. SUFFICES ASSUME NEW c \in Cases, decisions'[c] # None
                PROVE  \E j \in 1 .. Len(decision_history') :
                           /\ decision_history'[j].case_id = c
                           /\ decision_history'[j].record = decisions'[c]
    BY DEF RowsRecorded
  <2>1. decisions' = [decisions EXCEPT ![request[w].case_id] = request[w].decision]
    BY <1>4 DEF SaveDecision
  <2>2. CASE c = request[w].case_id
    <3>1. decisions'[c] = request[w].decision
      BY <2>1, <2>2 DEF TypeOK
    <3>2. /\ Len(decision_history') = Len(decision_history) + 1
          /\ decision_history'[Len(decision_history) + 1] =
                 [case_id |-> request[w].case_id, event_type |-> request[w].event_type,
                  actor |-> request[w].actor, record |-> request[w].decision]
      BY <1>4, DecisionRecorded
    <3>3. Len(decision_history) + 1 \in 1 .. Len(decision_history')
      BY <1>1, <3>2 DEF Extends
    <3>4. QED BY <2>2, <3>1, <3>2, <3>3
  <2>3. CASE c # request[w].case_id
    BY <1>2, <2>1, <2>3 DEF TypeOK
  <2>4. QED BY <2>2, <2>3
<1>5. QED
    BY <1>3, <1>4
    DEF Moves, Planned, Plan, SaveReview, AbortRequest, vars, tables

\* A new completion was the pending one of its handler, whose review is stored.
LEMMA StepCompletionsAdjudicated ==
    ASSUME ServiceInvariant, [Moves]_vars
    PROVE  CompletionsAdjudicated'
<1>. USE DEF ServiceInvariant
<1>1. /\ Extends(decision_history', decision_history)
      /\ Extends(review_history', review_history)
    BY HistoriesGrow
<1>2. ASSUME NEW i \in 1 .. Len(decision_history),
             decision_history'[i].event_type = "review_completed"
      PROVE  Adjudicated(decision_history[i].case_id, decision_history[i].actor,
                         decision_history[i].record)'
  <2>1. i \in 1 .. Len(decision_history)
    OBVIOUS
  <2>2. decision_history'[i] = decision_history[i]
    BY <1>1 DEF Extends
  <2>3. PICK e : e = decision_history[i]
    OBVIOUS
  <2>4. Adjudicated(e.case_id, e.actor, e.record)
    BY <1>2, <2>2, <2>3 DEF CompletionsAdjudicated
  <2>5. Adjudicated(e.case_id, e.actor, e.record)'
    BY <1>1, <2>4, AdjudicatedKept
  <2>6. QED BY <2>2, <2>3, <2>5 DEF Adjudicated
<1>3. CASE UNCHANGED decision_history
    BY <1>1, <1>2, <1>3 DEF CompletionsAdjudicated
<1>4. ASSUME NEW w \in Workers, SaveDecision(w) PROVE CompletionsAdjudicated'
  <2>1. PICK n : n = Len(decision_history)
    OBVIOUS
  <2>2. PICK r : r = request[w]
    OBVIOUS
  <2>3. /\ n \in Nat
        /\ Len(decision_history') = n + 1
        /\ decision_history'[n + 1] = [case_id |-> r.case_id, event_type |-> r.event_type,
                                       actor |-> r.actor, record |-> r.decision]
    BY <1>1, <1>4, <2>1, <2>2, DecisionRecorded DEF Extends
  <2>4. r.event_type = "review_completed" => Adjudicated(r.case_id, r.actor, r.decision)'
    <3>1. SafeToWrite(r) /\ r.review = None
      BY <1>4, <2>2 DEF SaveDecision, PendingWritesSafe
    <3>2. QED BY <1>1, <3>1, AdjudicatedKept DEF SafeToWrite
  <2>5. decision_history'[n + 1].event_type = "review_completed" =>
            Adjudicated(decision_history[n + 1].case_id, decision_history[n + 1].actor,
                        decision_history[n + 1].record)'
    BY <2>3, <2>4 DEF Adjudicated
  <2>6. \A i \in 1 .. Len(decision_history') : i \in 1 .. Len(decision_history) \/ i = n + 1
    BY <2>1, <2>3
  <2>7. QED BY <1>2, <2>5, <2>6 DEF CompletionsAdjudicated
<1>5. QED
    BY <1>3, <1>4
    DEF Moves, Planned, Plan, SaveReview, AbortRequest, vars, tables

LEMMA StepEventsHaveBasis ==
    ASSUME ServiceInvariant, [Moves]_vars
    PROVE  EventsHaveBasis'
<1>. USE DEF ServiceInvariant
<1>1. Extends(decision_history', decision_history)
    BY HistoriesGrow
<1>2. ASSUME NEW i \in 1 .. Len(decision_history)
      PROVE  HasBasis(decision_history[i].case_id, decision_history[i].event_type,
                      decision_history[i].record, i - 1)'
  <2>1. decision_history'[i] = decision_history[i]
    BY <1>1 DEF Extends
  <2>2. PICK e : e = decision_history[i]
    OBVIOUS
  <2>3. HasBasis(e.case_id, e.event_type, e.record, i - 1)
    BY <2>2 DEF EventsHaveBasis
  <2>4. i - 1 \in Nat /\ i - 1 <= Len(decision_history)
    BY <1>1 DEF Extends
  <2>5. HasBasis(e.case_id, e.event_type, e.record, i - 1)'
    BY <1>1, <2>3, <2>4, BasisKept
  <2>6. QED BY <2>1, <2>2, <2>5 DEF HasBasis
<1>3. CASE UNCHANGED decision_history
    BY <1>1, <1>2, <1>3 DEF EventsHaveBasis
<1>4. ASSUME NEW w \in Workers, SaveDecision(w) PROVE EventsHaveBasis'
  <2>1. PICK n : n = Len(decision_history)
    OBVIOUS
  <2>2. PICK r : r = request[w]
    OBVIOUS
  <2>3. /\ n \in Nat
        /\ Len(decision_history') = n + 1
        /\ decision_history'[n + 1] = [case_id |-> r.case_id, event_type |-> r.event_type,
                                       actor |-> r.actor, record |-> r.decision]
    BY <1>1, <1>4, <2>1, <2>2, DecisionRecorded DEF Extends
  <2>4. HasBasis(r.case_id, r.event_type, r.decision, n)
    BY <1>4, <2>1, <2>2 DEF SaveDecision, PendingWritesSafe, SafeToWrite
  <2>5. HasBasis(r.case_id, r.event_type, r.decision, n)'
    BY <1>1, <2>1, <2>3, <2>4, BasisKept
  <2>6. HasBasis(decision_history[n + 1].case_id, decision_history[n + 1].event_type,
                 decision_history[n + 1].record, (n + 1) - 1)'
    BY <2>3, <2>5 DEF HasBasis
  <2>7. \A i \in 1 .. Len(decision_history') : i \in 1 .. Len(decision_history) \/ i = n + 1
    BY <2>1, <2>3
  <2>8. QED BY <1>2, <2>6, <2>7 DEF EventsHaveBasis
<1>5. QED
    BY <1>3, <1>4
    DEF Moves, Planned, Plan, SaveReview, AbortRequest, vars, tables

\* A sound plan rests on the row that was read, and that row was recorded.
LEMMA PlanIsSafe ==
    ASSUME ServiceInvariant, NEW w \in Workers, Planned(w)
    PROVE  \E r \in Request :
               SafeToWrite(r) /\ request' = [request EXCEPT ![w] = r] /\ UNCHANGED tables
<1>. USE DEF ServiceInvariant
<1>1. PICK user \in AuthContext, c \in Cases, event \in DecisionEvent,
           review \in ReviewRecord \cup {None}, decision \in DecisionRecord :
               /\ SoundPlan(c, event, user, review, decision)
               /\ Plan(w, c, event, user, review, decision)
    BY DEF Planned
<1>. DEFINE r == [case_id |-> c, event_type |-> event, actor |-> user,
                  review |-> review, decision |-> decision]
<1>2. r \in Request
    BY ServiceAssumption DEF Request
<1>3. HasBasis(c, event, decision, Len(decision_history))
  <2>1. CASE event = "decision_evaluated"
    BY <1>1, <2>1 DEF SoundPlan, HasBasis
  <2>2. CASE event # "decision_evaluated"
    <3>1. decisions[c] # None /\ Lifecycle!Follows(View(decisions[c]), View(decision))
      BY <1>1, <2>2 DEF SoundPlan
    <3>2. PICK j \in 1 .. Len(decision_history) :
              /\ decision_history[j].case_id = c
              /\ decision_history[j].record = decisions[c]
      BY <3>1 DEF RowsRecorded
    <3>3. Lifecycle!Follows(View(decision_history[j].record), View(decision))
      BY <3>1, <3>2
    <3>4. QED BY <2>2, <3>2, <3>3 DEF HasBasis
  <2>3. QED BY <2>1, <2>2
<1>4. SafeToWrite(r)
  <2>1. /\ r.case_id = c /\ r.event_type = event /\ r.actor = user
        /\ r.review = review /\ r.decision = decision
    OBVIOUS
  <2>. HIDE DEF r
  <2>2. QED BY <1>1, <1>3, <2>1 DEF SoundPlan, SafeToWrite
<1>5. QED BY <1>1, <1>2, <1>4 DEF Plan

\* Another handler's step leaves a pending write safe; one's own plans a safe
\* write, or stores the review that the decision then rests on.
LEMMA StepPendingWritesSafe ==
    ASSUME ServiceInvariant, [Moves]_vars
    PROVE  PendingWritesSafe'
<1>. USE DEF ServiceInvariant
<1>1. /\ Extends(decision_history', decision_history)
      /\ Extends(review_history', review_history)
    BY HistoriesGrow
<1>. SUFFICES ASSUME NEW v \in Workers, request'[v] # NoRequest
              PROVE  SafeToWrite(request[v])'
    BY DEF PendingWritesSafe, Busy
<1>2. PICK r : r = request'[v]
    OBVIOUS
<1>3. SUFFICES SafeToWrite(r)'
    BY <1>2 DEF SafeToWrite, HasBasis, Adjudicated
<1>4. CASE request'[v] = request[v]
    BY <1>1, <1>2, <1>4, SafeKept DEF PendingWritesSafe, Busy
<1>5. CASE request'[v] # request[v] /\ Planned(v)
  <2>1. SafeToWrite(r)
    BY <1>2, <1>5, PlanIsSafe DEF TypeOK
  <2>2. QED BY <1>1, <2>1, SafeKept
<1>6. CASE request'[v] # request[v] /\ SaveReview(v)
  <2>1. PICK q : q = request[v]
    OBVIOUS
  <2>2. q \in Request /\ q.review # None /\ SafeToWrite(q)
    BY <1>6, <2>1, BusyRequest DEF SaveReview, PendingWritesSafe
  <2>3. SafeToWrite(q)'
    BY <1>1, <2>2, SafeKept
  <2>4. /\ r.case_id = q.case_id /\ r.event_type = q.event_type /\ r.actor = q.actor
        /\ r.review = None /\ r.decision = q.decision
    BY <1>2, <1>6, <2>1, <2>2 DEF SaveReview, TypeOK, Request
  <2>5. r.event_type = "review_completed" => Adjudicated(r.case_id, r.actor, r.decision)'
    <3>. SUFFICES ASSUME r.event_type = "review_completed"
                  PROVE  Adjudicated(r.case_id, r.actor, r.decision)'
        OBVIOUS
    <3>1. /\ q.review = Adjudication(r.actor, r.decision)
          /\ r.decision.assigned_reviewer_id = r.actor.user_id
      BY <2>2, <2>4 DEF SafeToWrite
    <3>2. PICK n : n = Len(review_history')
      OBVIOUS
    <3>3. /\ n \in 1 .. Len(review_history')
          /\ review_history'[n] = [case_id |-> q.case_id, event_type |-> "review_submitted",
                                   actor |-> q.actor, record |-> q.review]
      BY <1>1, <1>6, <2>1, <3>2, ReviewRecorded DEF Extends
    <3>4. QED BY <2>4, <3>1, <3>3 DEF Adjudicated
  <2>6. HasBasis(r.case_id, r.event_type, r.decision, Len(decision_history))'
    BY <2>3, <2>4 DEF SafeToWrite
  <2>7. Consistent(r.decision)
    BY <2>2, <2>4 DEF SafeToWrite
  <2>8. QED BY <2>4, <2>5, <2>6, <2>7 DEF SafeToWrite
<1>7. QED
  <2>1. ASSUME NEW w \in Workers, w # v,
               Planned(w) \/ SaveReview(w) \/ SaveDecision(w) \/ AbortRequest(w)
        PROVE  request'[v] = request[v]
    BY <2>1 DEF Planned, Plan, SaveReview, SaveDecision, AbortRequest, TypeOK
  <2>2. SaveDecision(v) \/ AbortRequest(v) => request'[v] = NoRequest
    BY DEF SaveDecision, AbortRequest, TypeOK
  <2>3. UNCHANGED vars => request'[v] = request[v]
    BY DEF vars
  <2>4. QED BY <1>4, <1>5, <1>6, <2>1, <2>2, <2>3 DEF Moves

-----------------------------------------------------------------------------
(***************************************************************************)
(* The theorems.                                                           *)
(***************************************************************************)

\* Whoever makes them, the moves of handlers do not lead out of the invariant.
LEMMA StepInvariant ==
    ASSUME ServiceInvariant, [Moves]_vars
    PROVE  ServiceInvariant'
<1>1. TypeOK'
    BY StepTypeOK DEF ServiceInvariant
<1>2. RowsConsistent' /\ RowsRecorded'
    BY StepRowsConsistent, StepRowsRecorded
<1>3. PendingWritesSafe' /\ CompletionsAdjudicated' /\ EventsHaveBasis'
    BY StepPendingWritesSafe, StepCompletionsAdjudicated, StepEventsHaveBasis
<1>4. QED BY <1>1, <1>2, <1>3 DEF ServiceInvariant

LEMMA NextIsMove == ServiceInvariant /\ [Next]_vars => [Moves]_vars
BY NextMoves DEF ServiceInvariant

\* The invariant holds of the service, and is inductive by itself: no handler,
\* however it overlaps with others or is cut short, leads out of it.
THEOREM ServiceIsInvariant == Spec => []ServiceInvariant
<1>1. ServiceInvariant /\ [Next]_vars => ServiceInvariant'
    BY NextIsMove, StepInvariant
<1>2. QED BY <1>1, InitInvariant, PTL DEF Spec

\* The tables and the planned writes of app/main.py hold records of their types.
THEOREM TypeCorrect == Spec => []TypeOK
<1>1. ServiceInvariant => TypeOK
    BY DEF ServiceInvariant
<1>2. QED BY <1>1, ServiceIsInvariant, PTL

\* The fields of every stored decision row agree with each other.
THEOREM RowsAreConsistent == Spec => []RowsConsistent
<1>1. ServiceInvariant => RowsConsistent
    BY DEF ServiceInvariant
<1>2. QED BY <1>1, ServiceIsInvariant, PTL

\* What an unfinished handler still has to write stays safe to write.
THEOREM PendingWritesAreSafe == Spec => []PendingWritesSafe
<1>1. ServiceInvariant => PendingWritesSafe
    BY DEF ServiceInvariant
<1>2. QED BY <1>1, ServiceIsInvariant, PTL

\* No completion of submit_review is recorded without its own stored review.
THEOREM CompletionsAreAdjudicated == Spec => []CompletionsAdjudicated
<1>1. ServiceInvariant => CompletionsAdjudicated
    BY DEF ServiceInvariant
<1>2. QED BY <1>1, ServiceIsInvariant, PTL

\* Every event of the decision history is a legal step from a recorded state.
THEOREM EventsAreBased == Spec => []EventsHaveBasis
<1>1. ServiceInvariant => EventsHaveBasis
    BY DEF ServiceInvariant
<1>2. QED BY <1>1, ServiceIsInvariant, PTL

\* A transaction of save_decision appends the row it stores to the history, and
\* nothing else touches the two.
LEMMA DecisionsRecorded ==
    ASSUME ServiceInvariant, [Moves]_vars
    PROVE  DecisionLedger!RecordEvent \/ UNCHANGED DecisionLedger!vars
<1>. USE DEF ServiceInvariant
<1>1. ASSUME NEW w \in Workers, SaveDecision(w) PROVE DecisionLedger!RecordEvent
  <2>1. request[w] \in Request
    BY <1>1, DecisionRecorded
  <2>2. PICK event : event = [case_id |-> request[w].case_id,
                              event_type |-> request[w].event_type,
                              actor |-> request[w].actor, record |-> request[w].decision]
    OBVIOUS
  <2>3. event.case_id \in Cases
    BY <2>1, <2>2 DEF Request
  <2>4. /\ Len(decision_history') = Len(decision_history) + 1
        /\ decision_history'[Len(decision_history) + 1] = event
    BY <1>1, <2>2, DecisionRecorded
  <2>5. /\ decision_history' = Append(decision_history, event)
        /\ decisions' = [decisions EXCEPT ![event.case_id] = event.record]
    BY <1>1, <2>2 DEF SaveDecision
  <2>6. QED BY <2>3, <2>4, <2>5 DEF DecisionLedger!RecordEvent
<1>2. QED
    BY <1>1
    DEF Moves, Planned, Plan, SaveReview, AbortRequest, vars, tables, DecisionLedger!vars

\* So does one of save_review.
LEMMA ReviewsRecorded ==
    ASSUME ServiceInvariant, [Moves]_vars
    PROVE  ReviewLedger!RecordEvent \/ UNCHANGED ReviewLedger!vars
<1>. USE DEF ServiceInvariant
<1>1. ASSUME NEW w \in Workers, SaveReview(w) PROVE ReviewLedger!RecordEvent
  <2>1. request[w] \in Request
    BY <1>1, ReviewRecorded
  <2>2. PICK event : event = [case_id |-> request[w].case_id,
                              event_type |-> "review_submitted",
                              actor |-> request[w].actor, record |-> request[w].review]
    OBVIOUS
  <2>3. event.case_id \in Cases
    BY <2>1, <2>2 DEF Request
  <2>4. /\ Len(review_history') = Len(review_history) + 1
        /\ review_history'[Len(review_history) + 1] = event
    BY <1>1, <2>2, ReviewRecorded
  <2>5. /\ review_history' = Append(review_history, event)
        /\ reviews' = [reviews EXCEPT ![event.case_id] = event.record]
    BY <1>1, <2>2 DEF SaveReview
  <2>6. QED BY <2>3, <2>4, <2>5 DEF ReviewLedger!RecordEvent
<1>2. QED
    BY <1>1
    DEF Moves, Planned, Plan, SaveDecision, AbortRequest, vars, tables, ReviewLedger!vars

\* The decision tables implement the append-only ledger (save_decision).
THEOREM DecisionsAreAudited == Spec => DecisionsAudited
<1>1. Init => DecisionLedger!Init
    BY DEF Init, DecisionLedger!Init
<1>2. ServiceInvariant /\ [Next]_vars => [DecisionLedger!RecordEvent]_(DecisionLedger!vars)
    BY NextIsMove, DecisionsRecorded
<1>3. QED BY <1>1, <1>2, ServiceIsInvariant, PTL DEF Spec, DecisionsAudited, DecisionLedger!Spec

\* So do the review tables (save_review).
THEOREM ReviewsAreAudited == Spec => ReviewsAudited
<1>1. Init => ReviewLedger!Init
    BY DEF Init, ReviewLedger!Init
<1>2. ServiceInvariant /\ [Next]_vars => [ReviewLedger!RecordEvent]_(ReviewLedger!vars)
    BY NextIsMove, ReviewsRecorded
<1>3. QED BY <1>1, <1>2, ServiceIsInvariant, PTL DEF Spec, ReviewsAudited, ReviewLedger!Spec

\* What is proved of any ledger, for these two.
DecisionRows == INSTANCE AuditLedgerProofs
    WITH Keys <- Cases, Null <- None, log <- decision_history, current <- decisions

ReviewRows == INSTANCE AuditLedgerProofs
    WITH Keys <- Cases, Null <- None, log <- review_history, current <- reviews

LEMMA DecisionsFollowLog == DecisionLedger!Spec => []DecisionLedger!RowsFollowLog
<1>1. DecisionLedger!Spec => DecisionRows!Spec
    BY PTL
    DEF DecisionLedger!Spec, DecisionLedger!Init, DecisionLedger!RecordEvent, DecisionLedger!vars,
        DecisionRows!Spec, DecisionRows!Init, DecisionRows!RecordEvent, DecisionRows!vars
<1>2. DecisionRows!RowsFollowLog => DecisionLedger!RowsFollowLog
    BY DEF DecisionLedger!RowsFollowLog, DecisionLedger!LatestAt,
           DecisionRows!RowsFollowLog, DecisionRows!LatestAt
<1>3. QED BY <1>1, <1>2, DecisionRows!LogDeterminesRows, PTL

LEMMA ReviewsFollowLog == ReviewLedger!Spec => []ReviewLedger!RowsFollowLog
<1>1. ReviewLedger!Spec => ReviewRows!Spec
    BY PTL
    DEF ReviewLedger!Spec, ReviewLedger!Init, ReviewLedger!RecordEvent, ReviewLedger!vars,
        ReviewRows!Spec, ReviewRows!Init, ReviewRows!RecordEvent, ReviewRows!vars
<1>2. ReviewRows!RowsFollowLog => ReviewLedger!RowsFollowLog
    BY DEF ReviewLedger!RowsFollowLog, ReviewLedger!LatestAt,
           ReviewRows!RowsFollowLog, ReviewRows!LatestAt
<1>3. QED BY <1>1, <1>2, ReviewRows!LogDeterminesRows, PTL

\* Each stored row is what the last event about its case recorded, and a case
\* without a row has no event: so the tables of the SQLite store can be rebuilt
\* from decision_history and review_history.
THEOREM TablesFollowHistories ==
    Spec => [](DecisionLedger!RowsFollowLog /\ ReviewLedger!RowsFollowLog)
<1>1. Spec => DecisionLedger!Spec
    BY DecisionsAreAudited DEF DecisionsAudited
<1>2. Spec => ReviewLedger!Spec
    BY ReviewsAreAudited DEF ReviewsAudited
<1>3. QED BY <1>1, <1>2, DecisionsFollowLog, ReviewsFollowLog, PTL

-----------------------------------------------------------------------------
(***************************************************************************)
(* With one handler at a time: a single worker, as when one process serves *)
(* one request at a time.                                                  *)
(***************************************************************************)

OneWorker == \A v, w \in Workers : v = w

\* The row that the handler read is still the stored row, so its plan still
\* follows it; once its review is saved, that review is the stored one.
FollowsStoredRow(r) ==
    /\ IF r.event_type = "decision_evaluated" THEN Lifecycle!Evaluated(View(r.decision))
       ELSE /\ decisions[r.case_id] # None
            /\ Lifecycle!Follows(View(decisions[r.case_id]), View(r.decision))
    /\ IF r.event_type = "review_completed"
       THEN /\ r.decision.review_status = "completed"
            /\ r.decision.assigned_reviewer_id = r.actor.user_id
            /\ decisions[r.case_id].review_required
            /\ (IF r.review = None THEN reviews[r.case_id] ELSE r.review)
                   = Adjudication(r.actor, r.decision)
       ELSE r.decision.review_status # "completed" /\ r.review = None

PlansFollowStoredRows == \A w \in Workers : Busy(w) => FollowsStoredRow(request[w])

SerialInvariant == ServiceInvariant /\ PlansFollowStoredRows /\ ReviewMatchesDecision

LEMMA InitSerial == Init => SerialInvariant
<1>1. Init => PlansFollowStoredRows
    BY DEF Init, PlansFollowStoredRows, Busy
<1>2. Init => ReviewMatchesDecision
    BY DEF Init, ReviewMatchesDecision
<1>3. QED BY <1>1, <1>2, InitInvariant DEF SerialInvariant

\* What a handler plans follows the row it has just read.
LEMMA PlanFollowsStoredRow ==
    ASSUME SerialInvariant, NEW w \in Workers, Planned(w)
    PROVE  \E r \in Request :
               /\ FollowsStoredRow(r)
               /\ request' = [request EXCEPT ![w] = r]
               /\ UNCHANGED tables
<1>1. PICK user \in AuthContext, c \in Cases, event \in DecisionEvent,
           review \in ReviewRecord \cup {None}, decision \in DecisionRecord :
               /\ SoundPlan(c, event, user, review, decision)
               /\ Plan(w, c, event, user, review, decision)
    BY DEF Planned
<1>. DEFINE r == [case_id |-> c, event_type |-> event, actor |-> user,
                  review |-> review, decision |-> decision]
<1>2. r \in Request
    BY ServiceAssumption DEF Request
<1>3. FollowsStoredRow(r)
  <2>1. /\ r.case_id = c /\ r.event_type = event /\ r.actor = user
        /\ r.review = review /\ r.decision = decision
    OBVIOUS
  <2>. HIDE DEF r
  <2>2. QED BY <1>1, <2>1 DEF SoundPlan, FollowsStoredRow
<1>4. QED BY <1>1, <1>2, <1>3 DEF Plan

LEMMA StepPlansFollowStoredRows ==
    ASSUME OneWorker, SerialInvariant, [Moves]_vars
    PROVE  PlansFollowStoredRows'
<1>. USE DEF SerialInvariant, ServiceInvariant
<1>. SUFFICES ASSUME NEW w \in Workers, request'[w] # NoRequest
              PROVE  FollowsStoredRow(request[w])'
    BY DEF PlansFollowStoredRows, Busy
<1>1. CASE UNCHANGED vars
    BY <1>1 DEF PlansFollowStoredRows, Busy, FollowsStoredRow, vars, tables
<1>2. CASE Planned(w)
  <2>1. PICK r \in Request :
            /\ FollowsStoredRow(r)
            /\ request' = [request EXCEPT ![w] = r]
            /\ UNCHANGED tables
    BY <1>2, PlanFollowsStoredRow
  <2>2. request'[w] = r
    BY <2>1 DEF TypeOK
  <2>3. QED BY <2>1, <2>2 DEF FollowsStoredRow, tables
<1>3. CASE SaveReview(w)
  <2>1. PICK q : q = request[w]
    OBVIOUS
  <2>2. q \in Request /\ q.review # None /\ FollowsStoredRow(q)
    BY <1>3, <2>1, BusyRequest DEF SaveReview, PlansFollowStoredRows
  <2>3. PICK r : r = request'[w]
    OBVIOUS
  <2>4. /\ r.case_id = q.case_id /\ r.event_type = q.event_type /\ r.actor = q.actor
        /\ r.review = None /\ r.decision = q.decision
    BY <1>3, <2>1, <2>2, <2>3 DEF SaveReview, TypeOK, Request
  <2>5. q.case_id \in Cases /\ decisions' = decisions /\ reviews'[q.case_id] = q.review
    BY <1>3, <2>1, <2>2 DEF SaveReview, TypeOK, Request
  <2>6. FollowsStoredRow(r)'
    BY <2>2, <2>4, <2>5 DEF FollowsStoredRow
  <2>7. QED BY <2>3, <2>6 DEF FollowsStoredRow
<1>4. SaveDecision(w) \/ AbortRequest(w) => request'[w] = NoRequest
    BY DEF SaveDecision, AbortRequest, TypeOK
<1>5. QED BY <1>1, <1>2, <1>3, <1>4 DEF Moves, OneWorker

\* A saved review is of a case that is still under review; a saved completion
\* is what the review saved before it says.
LEMMA StepReviewMatchesDecision ==
    ASSUME OneWorker, SerialInvariant, [Moves]_vars
    PROVE  ReviewMatchesDecision'
<1>. USE DEF SerialInvariant, ServiceInvariant
<1>1. CASE UNCHANGED <<decisions, reviews>>
    BY <1>1 DEF ReviewMatchesDecision
<1>2. ASSUME NEW w \in Workers, SaveReview(w) PROVE ReviewMatchesDecision'
  <2>1. PICK r : r = request[w]
    OBVIOUS
  <2>2. r \in Request /\ r.review # None /\ FollowsStoredRow(r)
    BY <1>2, <2>1, BusyRequest DEF SaveReview, PlansFollowStoredRows
  <2>3. /\ r.case_id \in Cases
        /\ decisions' = decisions
        /\ reviews' = [reviews EXCEPT ![r.case_id] = r.review]
    BY <1>2, <2>1, <2>2 DEF SaveReview, Request
  <2>4. decisions[r.case_id] # None => decisions[r.case_id].review_status # "completed"
    BY <2>2, <2>3 DEF FollowsStoredRow, RowsConsistent, Consistent, ActiveStatus
  <2>5. QED BY <2>3, <2>4 DEF ReviewMatchesDecision, TypeOK
<1>3. ASSUME NEW w \in Workers, SaveDecision(w) PROVE ReviewMatchesDecision'
  <2>1. PICK r : r = request[w]
    OBVIOUS
  <2>2. r \in Request /\ r.review = None /\ FollowsStoredRow(r)
    BY <1>3, <2>1, BusyRequest DEF SaveDecision, PlansFollowStoredRows
  <2>3. /\ r.case_id \in Cases
        /\ reviews' = reviews
        /\ decisions' = [decisions EXCEPT ![r.case_id] = r.decision]
    BY <1>3, <2>1, <2>2 DEF SaveDecision, Request
  <2>4. r.decision.review_status = "completed" =>
            reviews[r.case_id] = [reviewer_id |-> r.decision.assigned_reviewer_id,
                                  outcome |-> r.decision.final_reviewer_outcome,
                                  final_decision |-> r.decision.decision]
    BY <2>2 DEF FollowsStoredRow, Adjudication
  <2>5. QED BY <2>3, <2>4 DEF ReviewMatchesDecision, TypeOK
<1>4. QED
    BY <1>1, <1>2, <1>3 DEF Moves, Planned, Plan, AbortRequest, vars, tables

LEMMA SerialIsInvariant ==
    ASSUME OneWorker
    PROVE  Spec => []SerialInvariant
<1>1. SerialInvariant /\ [Next]_vars => SerialInvariant'
  <2>. SUFFICES ASSUME SerialInvariant, [Moves]_vars PROVE SerialInvariant'
      BY NextIsMove DEF SerialInvariant
  <2>1. PlansFollowStoredRows' /\ ReviewMatchesDecision'
    BY StepPlansFollowStoredRows, StepReviewMatchesDecision
  <2>2. ServiceInvariant'
    BY StepInvariant DEF SerialInvariant
  <2>3. QED BY <2>1, <2>2 DEF SerialInvariant
<1>2. QED BY <1>1, InitSerial, PTL DEF Spec

\* One handler at a time: a completed decision is what the stored review says.
THEOREM SerialReviewsMatch ==
    ASSUME OneWorker
    PROVE  Spec => []ReviewMatchesDecision
<1>1. SerialInvariant => ReviewMatchesDecision
    BY DEF SerialInvariant
<1>2. QED BY <1>1, SerialIsInvariant, PTL

\* One handler at a time: every case moves as the lifecycle says.
THEOREM SerialImplementsLifecycle ==
    ASSUME OneWorker
    PROVE  Spec => FollowsLifecycle
<1>. DEFINE view == [c \in Cases |-> View(decisions[c])]
<1>1. Init => Lifecycle!Init
    BY DEF Init, View, Lifecycle!Init, Lifecycle!Absent
<1>2. SerialInvariant /\ [Next]_vars => [Lifecycle!Next]_view
  <2>. SUFFICES ASSUME SerialInvariant, [Moves]_vars
                PROVE  Lifecycle!Next \/ view' = view
      BY NextIsMove DEF SerialInvariant
  <2>. USE DEF SerialInvariant, ServiceInvariant
  <2>1. CASE UNCHANGED decisions
    BY <2>1
  <2>2. ASSUME NEW w \in Workers, SaveDecision(w) PROVE Lifecycle!Next
    <3>1. PICK r : r = request[w]
      OBVIOUS
    <3>2. r \in Request /\ FollowsStoredRow(r)
      BY <2>2, <3>1, BusyRequest DEF SaveDecision, PlansFollowStoredRows
    <3>3. /\ r.case_id \in Cases
          /\ decisions' = [decisions EXCEPT ![r.case_id] = r.decision]
      BY <2>2, <3>1, <3>2 DEF SaveDecision, Request
    <3>4. decisions'[r.case_id] = r.decision
      BY <3>3 DEF TypeOK
    <3>5. view' = [view EXCEPT ![r.case_id] = view'[r.case_id]]
      BY <3>3 DEF TypeOK
    <3>6. \/ Lifecycle!Evaluated(view'[r.case_id])
          \/ Lifecycle!Follows(view[r.case_id], view'[r.case_id])
      BY <3>2, <3>3, <3>4 DEF FollowsStoredRow
    <3>7. QED BY <3>3, <3>5, <3>6 DEF Lifecycle!Next, Lifecycle!Step
  <2>3. QED
    BY <2>1, <2>2 DEF Moves, Planned, Plan, SaveReview, AbortRequest, vars, tables
<1>3. QED BY <1>1, <1>2, SerialIsInvariant, PTL DEF Spec, FollowsLifecycle, Lifecycle!Spec

-----------------------------------------------------------------------------
(***************************************************************************)
(* The reports, counted over any table of finitely many cases.             *)
(***************************************************************************)

\* A set counted class by class adds up: the pairs that Total counts are the
\* members of the set, each with its number within its class.
LEMMA TotalOfClasses ==
    ASSUME IsFiniteSet(Cases), NEW S \in SUBSET Cases, NEW K, NEW f \in [S -> K],
           NEW counts, DOMAIN counts = K,
           \A k \in K : counts[k] = Cardinality({c \in S : f[c] = k})
    PROVE  Total(counts) = Cardinality(S)
<1>. DEFINE class(k) == {c \in S : f[c] = k}
            N == Cardinality(Cases)
            P == {p \in K \X (1 .. N) : p[2] <= counts[p[1]]}
            numbering(k) == CHOOSE g : g \in Bijection(1 .. counts[k], class(k))
            h == [p \in P |-> numbering(p[1])[p[2]]]
<1>1. IsFiniteSet(S) /\ N \in Nat
    BY FS_Subset, FS_CardinalityType
<1>2. ASSUME NEW k \in K
      PROVE  /\ counts[k] \in Nat /\ counts[k] <= N
             /\ numbering(k) \in Bijection(1 .. counts[k], class(k))
  <2>1. counts[k] = Cardinality(class(k)) /\ class(k) \in SUBSET Cases
    OBVIOUS
  <2>. HIDE DEF class
  <2>2. IsFiniteSet(class(k)) /\ counts[k] <= N
    BY <2>1, FS_Subset
  <2>3. counts[k] \in Nat /\ ExistsBijection(1 .. counts[k], class(k))
    BY <2>1, <2>2, FS_CardinalityType
  <2>4. \E g : g \in Bijection(1 .. counts[k], class(k))
    BY <2>3, Fun_ExistsBij
  <2>5. QED BY <2>2, <2>3, <2>4
<1>3. ASSUME NEW k \in K
      PROVE  /\ \A i \in 1 .. counts[k] : numbering(k)[i] \in S /\ f[numbering(k)[i]] = k
             /\ \A i, j \in 1 .. counts[k] : numbering(k)[i] = numbering(k)[j] => i = j
             /\ \A c \in S : f[c] = k => \E i \in 1 .. counts[k] : numbering(k)[i] = c
  <2>1. \A c : c \in class(k) <=> c \in S /\ f[c] = k
    OBVIOUS
  <2>. HIDE DEF class, numbering
  <2>2. /\ numbering(k) \in [1 .. counts[k] -> class(k)]
        /\ \A i, j \in 1 .. counts[k] : numbering(k)[i] = numbering(k)[j] => i = j
        /\ \A c \in class(k) : \E i \in 1 .. counts[k] : numbering(k)[i] = c
    BY <1>2, Fun_BijectionProperties
  <2>3. QED BY <2>1, <2>2
<1>4. \A p \in P : p = <<p[1], p[2]>> /\ p[1] \in K /\ p[2] \in 1 .. counts[p[1]]
  <2>. HIDE DEF N
  <2>1. QED BY <1>1, <1>2
<1>5. \A k \in K : \A i \in 1 .. counts[k] : <<k, i>> \in P
  <2>. SUFFICES ASSUME NEW k \in K, NEW i \in 1 .. counts[k] PROVE <<k, i>> \in P
      OBVIOUS
  <2>. HIDE DEF N, numbering
  <2>1. counts[k] \in Nat /\ counts[k] <= N
    BY <1>2
  <2>2. i \in 1 .. N /\ i <= counts[k]
    BY <1>1, <2>1
  <2>3. QED BY <2>2
<1>. HIDE DEF numbering, P, N
<1>6. h \in [P -> S]
    BY <1>3, <1>4
<1>7. \A p, q \in P : h[p] = h[q] => p = q
  <2>. SUFFICES ASSUME NEW p \in P, NEW q \in P, h[p] = h[q] PROVE p = q
      OBVIOUS
  <2>1. f[h[p]] = p[1] /\ f[h[q]] = q[1]
    BY <1>3, <1>4
  <2>2. p[1] = q[1]
    BY <2>1
  <2>3. p[2] = q[2]
    BY <1>3, <1>4, <2>2
  <2>4. QED BY <1>4, <2>2, <2>3
<1>8. \A c \in S : \E p \in P : h[p] = c
  <2>. SUFFICES ASSUME NEW c \in S PROVE \E p \in P : h[p] = c
      OBVIOUS
  <2>1. f[c] \in K
    OBVIOUS
  <2>2. PICK i \in 1 .. counts[f[c]] : numbering(f[c])[i] = c
    BY <1>3, <2>1
  <2>3. <<f[c], i>> \in P
    BY <1>5, <2>1
  <2>4. QED BY <2>2, <2>3
<1>. HIDE DEF h
<1>9. h \in Bijection(P, S)
    BY <1>6, <1>7, <1>8, Fun_IsBij
<1>10. ExistsBijection(S, P)
    BY <1>9, Fun_ExistsBij, Fun_ExistsBijSymmetric
<1>11. Cardinality(P) = Cardinality(S)
    BY <1>1, <1>10, FS_Bijection
<1>12. Total(counts) = Cardinality(P)
    BY DEF Total, P, N
<1>13. QED BY <1>11, <1>12

\* A field of the rows of some cases, each row with a value of the field's type.
LEMMA TotalOfField ==
    ASSUME IsFiniteSet(Cases), NEW S \in SUBSET Cases, NEW K, NEW field,
           \A c \in S : decisions[c][field] \in K,
           NEW counts, DOMAIN counts = K,
           \A k \in K : counts[k] = Cardinality({c \in S : decisions[c][field] = k})
    PROVE  Total(counts) = Cardinality(S)
<1>1. PICK f : f = [c \in S |-> decisions[c][field]]
    OBVIOUS
<1>2. f \in [S -> K]
    BY <1>1
<1>3. \A k \in K : counts[k] = Cardinality({c \in S : f[c] = k})
  <2>1. \A k \in K : {c \in S : f[c] = k} = {c \in S : decisions[c][field] = k}
    BY <1>1
  <2>2. QED BY <2>1
<1>4. QED BY <1>2, <1>3, TotalOfClasses

LEMMA CountsOfParts ==
    ASSUME NEW A, NEW B, IsFiniteSet(A), IsFiniteSet(B), A \cap B = {}
    PROVE  /\ IsFiniteSet(A \cup B)
           /\ Cardinality(A) \in Nat /\ Cardinality(B) \in Nat
           /\ Cardinality(A \cup B) = Cardinality(A) + Cardinality(B)
<1>1. Cardinality(A \cap B) = 0
    BY FS_EmptySet
<1>2. /\ IsFiniteSet(A \cup B)
      /\ Cardinality(A \cup B) = Cardinality(A) + Cardinality(B) - Cardinality(A \cap B)
    BY FS_Union
<1>3. Cardinality(A) \in Nat /\ Cardinality(B) \in Nat
    BY FS_CardinalityType
<1>4. QED BY <1>1, <1>2, <1>3

\* What the rows say of each other is what the reports need to agree.
LEMMA ReportsAgree ==
    ASSUME IsFiniteSet(Cases), TypeOK, RowsConsistent
    PROVE  ReportsReconcile
<1>. DEFINE with(field, value) == {c \in Listed : decisions[c][field] = value}
            open(status) == {c \in Active : decisions[c].review_status = status}
<1>1. \A c \in Listed : c \in Cases /\ decisions[c] \in DecisionRecord /\ Consistent(decisions[c])
    BY DEF Listed, TypeOK, RowsConsistent
<1>2. \A S \in SUBSET Cases : IsFiniteSet(S) /\ Cardinality(S) \in Nat
    BY FS_Subset, FS_CardinalityType
<1>3. Listed \in SUBSET Cases /\ Active \in SUBSET Listed /\ Active \in SUBSET Cases
    BY DEF Listed, Active
<1>4. /\ \A field, value : with(field, value) \in SUBSET Listed
      /\ \A status : open(status) \in SUBSET Listed
    BY <1>3
<1>5. /\ \A field, value : IsFiniteSet(with(field, value)) /\ Cardinality(with(field, value)) \in Nat
      /\ \A status : IsFiniteSet(open(status)) /\ Cardinality(open(status)) \in Nat
      /\ IsFiniteSet(Active) /\ IsFiniteSet(Listed)
    BY <1>2, <1>3, <1>4
<1>6. QueueMetrics.pending_count + QueueMetrics.assigned_count
          + QueueMetrics.in_review_count + QueueMetrics.reopened_count
      = QueueMetrics.active_review_count
  <2>1. Active = ((open("pending") \cup open("assigned")) \cup open("in_review")) \cup open("reopened")
    BY <1>1, <1>3 DEF Active, Consistent, ActiveStatus
  <2>2. /\ open("pending") \cap open("assigned") = {}
        /\ (open("pending") \cup open("assigned")) \cap open("in_review") = {}
        /\ ((open("pending") \cup open("assigned")) \cup open("in_review")) \cap open("reopened") = {}
    OBVIOUS
  <2>3. /\ QueueMetrics.pending_count = Cardinality(open("pending"))
        /\ QueueMetrics.assigned_count = Cardinality(open("assigned"))
        /\ QueueMetrics.in_review_count = Cardinality(open("in_review"))
        /\ QueueMetrics.reopened_count = Cardinality(open("reopened"))
        /\ QueueMetrics.active_review_count = Cardinality(Active)
    BY DEF QueueMetrics, ActiveTally
  <2>. HIDE DEF with, open
  <2>4. /\ IsFiniteSet(open("pending") \cup open("assigned"))
        /\ Cardinality(open("pending") \cup open("assigned"))
               = Cardinality(open("pending")) + Cardinality(open("assigned"))
    BY <1>5, <2>2, CountsOfParts
  <2>5. /\ IsFiniteSet((open("pending") \cup open("assigned")) \cup open("in_review"))
        /\ Cardinality((open("pending") \cup open("assigned")) \cup open("in_review"))
               = Cardinality(open("pending") \cup open("assigned")) + Cardinality(open("in_review"))
    BY <1>5, <2>2, <2>4, CountsOfParts
  <2>6. Cardinality(Active)
            = Cardinality((open("pending") \cup open("assigned")) \cup open("in_review"))
                  + Cardinality(open("reopened"))
    BY <1>5, <2>1, <2>2, <2>5, CountsOfParts
  <2>7. QED BY <2>3, <2>4, <2>5, <2>6
<1>7. SummaryReport.active_review_count + SummaryReport.completed_review_count
          + Cardinality({c \in Listed : decisions[c].review_status = "not_required"})
      = SummaryReport.total_decisions
  <2>1. Listed = (Active \cup with("review_status", "completed"))
                     \cup with("review_status", "not_required")
    BY <1>1, <1>3 DEF Active, Consistent, ActiveStatus, DecisionRecord, ReviewStatus
  <2>2. /\ Active \cap with("review_status", "completed") = {}
        /\ (Active \cup with("review_status", "completed"))
               \cap with("review_status", "not_required") = {}
    BY <1>1 DEF Active, Consistent, ActiveStatus
  <2>3. /\ SummaryReport.active_review_count = Cardinality(Active)
        /\ SummaryReport.completed_review_count = Cardinality(with("review_status", "completed"))
        /\ SummaryReport.total_decisions = Cardinality(Listed)
        /\ {c \in Listed : decisions[c].review_status = "not_required"}
               = with("review_status", "not_required")
    BY DEF SummaryReport, Tally
  <2>. HIDE DEF with, open
  <2>4. /\ IsFiniteSet(Active \cup with("review_status", "completed"))
        /\ Cardinality(Active \cup with("review_status", "completed"))
               = Cardinality(Active) + Cardinality(with("review_status", "completed"))
    BY <1>5, <2>2, CountsOfParts
  <2>5. Cardinality(Listed)
            = Cardinality(Active \cup with("review_status", "completed"))
                  + Cardinality(with("review_status", "not_required"))
    BY <1>5, <2>1, <2>2, <2>4, CountsOfParts
  <2>6. QED BY <2>3, <2>4, <2>5
<1>8. Total(SummaryReport.decision_counts) = SummaryReport.total_decisions
  <2>1. PICK counts : counts = SummaryReport.decision_counts
    OBVIOUS
  <2>2. DOMAIN counts = DecisionState
    BY <2>1 DEF SummaryReport, Tally
  <2>3. \A k \in DecisionState : counts[k] = Cardinality({c \in Listed : decisions[c]["decision"] = k})
    BY <2>1 DEF SummaryReport, Tally
  <2>4. \A c \in Listed : decisions[c]["decision"] \in DecisionState
    BY <1>1, <1>3 DEF DecisionRecord
  <2>5. Total(counts) = Cardinality(Listed)
    BY <1>3, <2>2, <2>3, <2>4, TotalOfField
  <2>6. SummaryReport.total_decisions = Cardinality(Listed)
    BY DEF SummaryReport
  <2>7. QED BY <2>1, <2>5, <2>6
<1>9. Total(SummaryReport.by_risk_band) = SummaryReport.total_decisions
  <2>1. PICK counts : counts = SummaryReport.by_risk_band
    OBVIOUS
  <2>2. DOMAIN counts = RiskBand
    BY <2>1 DEF SummaryReport, Tally
  <2>3. \A k \in RiskBand : counts[k] = Cardinality({c \in Listed : decisions[c]["risk_band"] = k})
    BY <2>1 DEF SummaryReport, Tally
  <2>4. \A c \in Listed : decisions[c]["risk_band"] \in RiskBand
    BY <1>1, <1>3 DEF DecisionRecord
  <2>5. Total(counts) = Cardinality(Listed)
    BY <1>3, <2>2, <2>3, <2>4, TotalOfField
  <2>6. SummaryReport.total_decisions = Cardinality(Listed)
    BY DEF SummaryReport
  <2>7. QED BY <2>1, <2>5, <2>6
<1>10. SummaryReport.active_by_risk_band = QueueMetrics.active_by_risk_band
    BY DEF SummaryReport, QueueMetrics
<1>11. Total(QueueMetrics.active_by_risk_band) = SummaryReport.active_review_count
  <2>1. PICK counts : counts = QueueMetrics.active_by_risk_band
    OBVIOUS
  <2>2. DOMAIN counts = RiskBand
    BY <2>1 DEF QueueMetrics, ActiveTally
  <2>3. \A k \in RiskBand : counts[k] = Cardinality({c \in Active : decisions[c]["risk_band"] = k})
    BY <2>1 DEF QueueMetrics, ActiveTally
  <2>4. \A c \in Active : decisions[c]["risk_band"] \in RiskBand
    BY <1>1, <1>3 DEF DecisionRecord
  <2>5. Total(counts) = Cardinality(Active)
    BY <1>3, <2>2, <2>3, <2>4, TotalOfField
  <2>6. SummaryReport.active_review_count = Cardinality(Active)
    BY DEF SummaryReport
  <2>7. QED BY <2>1, <2>5, <2>6
<1>12. SummaryReport.override_count <= SummaryReport.completed_review_count
  <2>1. with("final_reviewer_outcome", "overridden") \in SUBSET with("review_status", "completed")
    BY <1>1, NoneAssumption DEF Consistent
  <2>2. /\ SummaryReport.override_count = Cardinality(with("final_reviewer_outcome", "overridden"))
        /\ SummaryReport.completed_review_count = Cardinality(with("review_status", "completed"))
    BY DEF SummaryReport, Tally
  <2>. HIDE DEF with
  <2>3. QED BY <1>5, <2>1, <2>2, FS_Subset
<1>13. Total(SummaryReport.reopen_reason_counts) = SummaryReport.reopened_case_count
  <2>. DEFINE again == {c \in Listed : decisions[c].review_cycle_id > 1}
  <2>1. \A c \in again : decisions[c]["reopen_reason"] \in ReopenReasons
    BY <1>1 DEF Consistent, DecisionRecord
  <2>2. again \in SUBSET Cases
    BY <1>3
  <2>3. \A reason \in ReopenReasons :
            {c \in Listed : decisions[c]["reopen_reason"] = reason}
                = {c \in again : decisions[c]["reopen_reason"] = reason}
    BY <1>1, NoneAssumption DEF Consistent
  <2>4. SummaryReport.reopened_case_count = Cardinality(again)
    BY DEF SummaryReport
  <2>. HIDE DEF again
  <2>5. PICK counts : counts = SummaryReport.reopen_reason_counts
    OBVIOUS
  <2>6. DOMAIN counts = ReopenReasons
    BY <2>5 DEF SummaryReport
  <2>7. \A k \in ReopenReasons :
            counts[k] = Cardinality({c \in again : decisions[c]["reopen_reason"] = k})
    BY <2>3, <2>5 DEF SummaryReport, Tally
  <2>8. Total(counts) = Cardinality(again)
    BY <2>1, <2>2, <2>6, <2>7, TotalOfField
  <2>9. QED BY <2>4, <2>5, <2>8
<1>14. QED
    BY <1>6, <1>7, <1>8, <1>9, <1>10, <1>11, <1>12, <1>13 DEF ReportsReconcile

\* The numbers of calculate_review_queue_metrics and get_summary_report agree in
\* every state of the tables, also while handlers overlap: that each row is
\* consistent in itself is enough.
THEOREM ReportsAlwaysReconcile ==
    ASSUME IsFiniteSet(Cases)
    PROVE  Spec => []ReportsReconcile
<1>1. ServiceInvariant => ReportsReconcile
    BY ReportsAgree DEF ServiceInvariant
<1>2. QED BY <1>1, ServiceIsInvariant, PTL
=============================================================================
