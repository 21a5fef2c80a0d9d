------------------------- MODULE DynamoStoreProofs -------------------------
(***************************************************************************)
(* What the workflow keeps over the DynamoDB store, for every number of    *)
(* handlers, cases, users and saves, and however stale the reads.          *)
(*                                                                         *)
(* A handler plans its rows from some version that the row once had.       *)
(* The invariant says of a planned row that it follows a version already   *)
(* put, and of its stamp that it is later than that version's and no other *)
(* save's; from that follow the versions' basis and the two audit trails.  *)
(***************************************************************************)
EXTENDS DynamoStore, ReviewRecordProofs, SequenceTheorems

\* The fields of the view of a row.
LEMMA ViewOfRow ==
    ASSUME NEW row \in DecisionRecord
    PROVE  View(row) =
             [stage |-> Stage(row),
              cycle |-> row.review_cycle_id,
              reviewer |-> row.assigned_reviewer_id,
              decision |-> row.decision,
              risk_band |-> row.risk_band]
<1>1. row # None
    BY StoreAssumption
<1>2. QED BY <1>1 DEF View

-----------------------------------------------------------------------------
(***************************************************************************)
(* What a handler plans.                                                   *)
(***************************************************************************)

ReviewOf(decision) ==
    [reviewer_id |-> decision.assigned_reviewer_id,
     outcome |-> decision.final_reviewer_outcome,
     final_decision |-> decision.decision]

\* The planned row is consistent and is a first state of a case or follows the
\* row that was read; a completion comes with its review, in the name of the user
\* who submits it; nothing else does.
SoundPlan(row, event, user, review, decision) ==
    /\ event \in DecisionEvent
    /\ decision \in DecisionRecord
    /\ Consistent(decision)
    /\ review \in ReviewRecord \cup {None}
    /\ \/ Lifecycle!Evaluated(View(decision))
       \/ row # None /\ Lifecycle!Follows(View(row), View(decision))
    /\ IF decision.review_status = "completed"
       THEN review # None /\ review = ReviewOf(decision)
            /\ user.user_id = decision.assigned_reviewer_id
       ELSE review = None

LEMMA EvaluateIsSound ==
    ASSUME NEW row, NEW user \in AuthContexts, NEW verdict \in Verdicts
    PROVE  SoundPlan(row, "decision_evaluated", user, None, Fresh(verdict))
<1>. DEFINE new == Fresh(verdict)
<1>1. new \in DecisionRecord /\ Consistent(new)
    BY StoreAssumption, FreshRow
<1>2. /\ new.review_cycle_id = 1
      /\ new.assigned_reviewer_id = None
      /\ new.review_status \in {"pending", "not_required"}
    BY DEF Fresh
<1>. HIDE DEF new
<1>3. ~new.review_required => new.decision = "approved" /\ new.risk_band = "low"
    BY <1>1, <1>2 DEF Consistent, ActiveStatus
<1>4. Stage(new) \in {"waiting", "closed"} /\ (Stage(new) = "closed" => ~new.review_required)
    BY <1>2 DEF Stage
<1>5. Lifecycle!Evaluated(View(new))
    BY <1>1, <1>2, <1>3, <1>4, ViewOfRow DEF Lifecycle!Evaluated
<1>6. QED BY <1>1, <1>2, <1>5 DEF SoundPlan, DecisionEvent, new

\* A row under review is open.
LEMMA OpenRow ==
    ASSUME NEW row \in DecisionRecord, Consistent(row), row.review_required
    PROVE  Stage(row) \in {"waiting", "working"}
BY DEF Stage

LEMMA AssignIsSound ==
    ASSUME NEW row \in DecisionRecord, Consistent(row), row.review_required,
           NEW user \in AuthContexts, NEW reviewer_id \in UserIds
    PROVE  SoundPlan(row, "review_assigned", user, None, Assigned(row, reviewer_id))
<1>. DEFINE new == Assigned(row, reviewer_id)
<1>1. new \in DecisionRecord /\ Consistent(new)
    BY AssignedRow
<1>2. /\ new.review_required
      /\ new.review_status = "assigned"
      /\ new.review_cycle_id = row.review_cycle_id
      /\ new.assigned_reviewer_id = reviewer_id
      /\ new.decision = row.decision
      /\ new.risk_band = row.risk_band
    BY DEF Assigned, DecisionRecord
<1>. HIDE DEF new
<1>3. Stage(new) = "waiting" /\ Stage(row) \in {"waiting", "working"}
    BY <1>2, OpenRow DEF Stage
<1>4. Lifecycle!Assigned(View(row), View(new))
    BY <1>1, <1>2, <1>3, ViewOfRow, NoneAssumption
    DEF Lifecycle!Assigned, Lifecycle!Open, Lifecycle!Keeps
<1>5. row # None
    BY StoreAssumption
<1>6. QED BY <1>1, <1>2, <1>4, <1>5 DEF SoundPlan, DecisionEvent, Lifecycle!Follows, new

LEMMA StartIsSound ==
    ASSUME NEW row \in DecisionRecord, Consistent(row), row.review_required,
           NEW user \in AuthContexts, MayReview(user, row)
    PROVE  SoundPlan(row, "review_started", user, None, Started(row, user.user_id))
<1>. DEFINE new == Started(row, user.user_id)
<1>0. user.user_id \in UserIds
    BY StoreAssumption DEF AuthContext
<1>1. new \in DecisionRecord /\ Consistent(new)
    BY <1>0, StartedRow
<1>2. /\ new.review_required
      /\ new.review_status = "in_review"
      /\ new.review_cycle_id = row.review_cycle_id
      /\ new.assigned_reviewer_id = user.user_id
      /\ new.decision = row.decision
      /\ new.risk_band = row.risk_band
    BY DEF Started, DecisionRecord
<1>. HIDE DEF new
<1>3. Stage(new) = "working" /\ Stage(row) \in {"waiting", "working"}
    BY <1>2, OpenRow DEF Stage
<1>4. Lifecycle!Started(View(row), View(new))
    BY <1>0, <1>1, <1>2, <1>3, ViewOfRow, NoneAssumption
    DEF Lifecycle!Started, Lifecycle!Open, Lifecycle!Keeps, MayReview
<1>5. row # None
    BY StoreAssumption
<1>6. QED BY <1>1, <1>2, <1>4, <1>5 DEF SoundPlan, DecisionEvent, Lifecycle!Follows, new

LEMMA SubmitIsSound ==
    ASSUME NEW row \in DecisionRecord, Consistent(row), row.review_required,
           NEW user \in AuthContexts, MayReview(user, row),
           NEW submission \in Submissions, submission.final_decision # "human_review_required"
    PROVE  SoundPlan(row, "review_completed", user,
                     [reviewer_id |-> user.user_id, outcome |-> submission.outcome,
                      final_decision |-> submission.final_decision],
                     Finalized(row, user.user_id, submission))
<1>. DEFINE new == Finalized(row, user.user_id, submission)
            review == [reviewer_id |-> user.user_id, outcome |-> submission.outcome,
                       final_decision |-> submission.final_decision]
<1>0. user.user_id \in UserIds /\ submission \in Submission
    BY StoreAssumption DEF AuthContext
<1>1. new \in DecisionRecord /\ Consistent(new)
    BY <1>0, FinalizedRow
<1>2. /\ ~new.review_required
      /\ new.review_status = "completed"
      /\ new.review_cycle_id = row.review_cycle_id
      /\ new.assigned_reviewer_id = user.user_id
      /\ new.decision = submission.final_decision
      /\ new.final_reviewer_outcome = submission.outcome
      /\ new.risk_band = row.risk_band
    BY DEF Finalized, DecisionRecord, MayReview
<1>. HIDE DEF new
<1>3. Stage(new) = "settled" /\ Stage(row) \in {"waiting", "working"}
    BY <1>2, OpenRow DEF Stage
<1>4. Lifecycle!Settled(View(row), View(new))
    BY <1>0, <1>1, <1>2, <1>3, ViewOfRow, NoneAssumption
    DEF Lifecycle!Settled, Lifecycle!Open, Lifecycle!Keeps, MayReview
<1>5. row # None
    BY StoreAssumption
<1>6. review \in ReviewRecord /\ review # None /\ review = ReviewOf(new)
    BY <1>0, <1>2, StoreAssumption DEF ReviewRecord, Submission, ReviewOf
<1>7. QED BY <1>1, <1>2, <1>4, <1>5, <1>6 DEF SoundPlan, DecisionEvent, Lifecycle!Follows, new

LEMMA ReopenIsSound ==
    ASSUME NEW row \in DecisionRecord, Consistent(row), row.review_status = "completed",
           NEW user \in AuthContexts, NEW reason \in ReopenReasons
    PROVE  SoundPlan(row, "case_reopened", user, None, Reopened(row, reason))
<1>. DEFINE new == Reopened(row, reason)
<1>1. new \in DecisionRecord /\ Consistent(new)
    BY ReopenedRow
<1>2. /\ new.review_required
      /\ new.review_status = "reopened"
      /\ new.review_cycle_id = row.review_cycle_id + 1
      /\ new.assigned_reviewer_id = None
      /\ new.decision = "human_review_required"
      /\ new.risk_band = row.risk_band
    BY DEF Reopened, DecisionRecord
<1>. HIDE DEF new
<1>3. Stage(new) = "waiting" /\ Stage(row) = "settled"
    BY <1>2 DEF Stage, Consistent, ActiveStatus
<1>4. Lifecycle!Reopened(View(row), View(new))
    BY <1>1, <1>2, <1>3, ViewOfRow DEF Lifecycle!Reopened, Lifecycle!Keeps
<1>5. row # None
    BY StoreAssumption
<1>6. QED BY <1>1, <1>2, <1>4, <1>5 DEF SoundPlan, DecisionEvent, Lifecycle!Follows, new

-----------------------------------------------------------------------------
(***************************************************************************)
(* The invariant.                                                          *)
(***************************************************************************)

\* No time is later than the clock.
TimesPast ==
    /\ \A c \in Cases : \A i \in 1 .. Len(decisions[c]) : decisions[c][i].recorded_at <= clock
    /\ \A item \in decision_history \cup review_history : item.recorded_at <= clock
    /\ \A w \in Workers : Busy(w) => request[w].recorded_at <= clock

\* A save in progress has its time for itself.
OwnTimes ==
    /\ \A w, v \in Workers : w # v /\ Stamped(w) /\ Stamped(v) =>
           request[w].recorded_at # request[v].recorded_at
    /\ \A w \in Workers : Stamped(w) =>
           \A item \in decision_history \cup review_history :
               item.recorded_at # request[w].recorded_at

\* The planned row is a first state or follows a version already put, and once it
\* is stamped, one that is earlier than it.
Based(w) ==
    \/ Lifecycle!Evaluated(View(request[w].decision))
    \/ \E j \in 1 .. Len(decisions[request[w].case_id]) :
           /\ Lifecycle!Follows(View(decisions[request[w].case_id][j].record),
                                View(request[w].decision))
           /\ request[w].review = None /\ request[w].recorded_at # 0 =>
                  decisions[request[w].case_id][j].recorded_at < request[w].recorded_at

\* A planned completion has its review still to be saved, or in the history, and
\* once it is stamped, earlier there.
Settled(w) ==
    request[w].decision.review_status = "completed" =>
        IF request[w].review # None
        THEN /\ request[w].review = ReviewOf(request[w].decision)
             /\ request[w].actor.user_id = request[w].decision.assigned_reviewer_id
        ELSE \E item \in review_history :
                 /\ item.case_id = request[w].case_id
                 /\ item.actor.user_id = request[w].decision.assigned_reviewer_id
                 /\ item.record = ReviewOf(request[w].decision)
                 /\ request[w].recorded_at # 0 => item.recorded_at < request[w].recorded_at

PlanKept(w) ==
    /\ Consistent(request[w].decision)
    /\ request[w].recorded_at = 0 => ~request[w].row_put
    /\ Based(w)
    /\ Settled(w)

SafePlans == \A w \in Workers : Busy(w) => PlanKept(w)

Inv ==
    /\ TypeOK
    /\ TimesPast
    /\ OwnTimes
    /\ SafePlans
    /\ VersionsHaveBasis
    /\ CompletionsAdjudicated

-----------------------------------------------------------------------------
(***************************************************************************)
(* What a step can do.                                                     *)
(***************************************************************************)

LEMMA BusyRequest ==
    ASSUME TypeOK, NEW w \in Workers, Busy(w)
    PROVE  request[w] \in Request /\ request[w].case_id \in Cases
<1>1. request[w] \in Request
    BY DEF TypeOK, Busy
<1>2. QED BY <1>1 DEF Request

LEMMA NoRequestIsNone == NoRequest \notin Request
<1>1. \A r \in Request : r.event_type # "none"
    BY DEF Request, DecisionEvent
<1>2. QED BY <1>1 DEF NoRequest

\* A version that can be read is a consistent row.
LEMMA RowRead ==
    ASSUME TypeOK, VersionsHaveBasis, NEW c \in Cases, NEW row \in Readable(c), row # None
    PROVE  row \in DecisionRecord /\ Consistent(row)
<1>1. PICK i \in 1 .. Len(decisions[c]) : row = decisions[c][i].record
    BY DEF Readable
<1>2. decisions[c][i] \in DecisionVersion
    BY <1>1 DEF TypeOK
<1>3. QED BY <1>1, <1>2 DEF DecisionVersion, VersionsHaveBasis

\* A handler takes a request and makes a sound plan of its writes.
Planned(w) ==
    \E user \in AuthContexts, c \in Cases, event \in DecisionEvent,
       review \in ReviewRecord \cup {None}, decision \in DecisionRecord :
        /\ ~Busy(w)
        /\ \E row \in Readable(c) : SoundPlan(row, event, user, review, decision)
        /\ Plan(w, c, event, user, review, decision)

LEMMA HandlePlans ==
    ASSUME TypeOK, VersionsHaveBasis, NEW w \in Workers, NEW user \in AuthContexts, NEW c \in Cases,
           NEW row \in Readable(c), Handle(w, user, c, row)
    PROVE  Planned(w)
<1>0. ASSUME NEW event, NEW review, NEW decision,
             SoundPlan(row, event, user, review, decision),
             Plan(w, c, event, user, review, decision), ~Busy(w)
      PROVE  Planned(w)
    BY <1>0 DEF Planned, SoundPlan
<1>1. ASSUME NEW verdict \in Verdicts, EvaluateCase(w, user, c, verdict)
      PROVE  Planned(w)
    BY <1>0, <1>1, EvaluateIsSound DEF EvaluateCase, Admits
<1>2. ASSUME NEW reviewer_id \in UserIds, AssignReview(w, user, c, row, reviewer_id)
      PROVE  Planned(w)
  <2>1. row \in DecisionRecord /\ Consistent(row) /\ row.review_required
      BY <1>2, RowRead DEF AssignReview, UnderReview
  <2>2. QED BY <1>0, <1>2, <2>1, AssignIsSound DEF AssignReview, Admits
<1>3. ASSUME StartReview(w, user, c, row)
      PROVE  Planned(w)
  <2>1. row \in DecisionRecord /\ Consistent(row) /\ row.review_required
      BY <1>3, RowRead DEF StartReview, UnderReview
  <2>2. QED BY <1>0, <1>3, <2>1, StartIsSound DEF StartReview, Admits
<1>4. ASSUME NEW submission \in Submissions, SubmitReview(w, user, c, row, submission)
      PROVE  Planned(w)
  <2>1. row \in DecisionRecord /\ Consistent(row) /\ row.review_required
      BY <1>4, RowRead DEF SubmitReview, UnderReview
  <2>2. QED BY <1>0, <1>4, <2>1, SubmitIsSound DEF SubmitReview, Admits
<1>5. ASSUME NEW reason \in ReopenReasons, ReopenReview(w, user, c, row, reason)
      PROVE  Planned(w)
  <2>1. row \in DecisionRecord /\ Consistent(row)
      BY <1>5, RowRead DEF ReopenReview
  <2>2. QED BY <1>0, <1>5, <2>1, ReopenIsSound DEF ReopenReview, Admits
<1>6. QED BY <1>1, <1>2, <1>3, <1>4, <1>5 DEF Handle

\* The steps of the store.
Step(w) ==
    \/ Planned(w)
    \/ StampSave(w)
    \/ PutReview(w)
    \/ RecordReview(w)
    \/ PutDecision(w)
    \/ RecordDecision(w)
    \/ AbortRequest(w)

LEMMA NextIsStep ==
    ASSUME TypeOK, VersionsHaveBasis, Next
    PROVE  \E w \in Workers : Step(w)
BY HandlePlans DEF Next, Step

\* A step changes the request of its worker only.
LEMMA OthersWait ==
    ASSUME TypeOK, NEW w \in Workers, Step(w), NEW v \in Workers, v # w
    PROVE  request'[v] = request[v]
BY DEF TypeOK, Step, Planned, Plan, StampSave, PutReview, RecordReview, EndSave, PutDecision,
       RecordDecision, AbortRequest

\* What a put of a decision adds.
LEMMA PutDecisionAppends ==
    ASSUME TypeOK, NEW w \in Workers, PutDecision(w), NEW c \in Cases
    PROVE  /\ decisions' \in [Cases -> Seq(DecisionVersion)]
           /\ c # request[w].case_id => decisions'[c] = decisions[c]
           /\ c = request[w].case_id =>
                  /\ Len(decisions'[c]) = Len(decisions[c]) + 1
                  /\ \A i \in 1 .. Len(decisions[c]) : decisions'[c][i] = decisions[c][i]
                  /\ decisions'[c][Len(decisions[c]) + 1] = Version(w, request[w].decision)
<1>1. /\ request[w] \in Request /\ request[w].case_id \in Cases
      /\ request[w].recorded_at # 0
    BY BusyRequest DEF PutDecision, Stamped
<1>2. Version(w, request[w].decision) \in DecisionVersion
    BY <1>1 DEF Version, DecisionVersion, Request, Time
<1>3. /\ decisions \in [Cases -> Seq(DecisionVersion)]
      /\ decisions' = [decisions EXCEPT ![request[w].case_id] =
             Append(@, Version(w, request[w].decision))]
    BY DEF PutDecision, TypeOK
<1>4. \A s \in Seq(DecisionVersion), x \in DecisionVersion :
          /\ Append(s, x) \in Seq(DecisionVersion)
          /\ Len(Append(s, x)) = Len(s) + 1
          /\ \A i \in 1 .. Len(s) : Append(s, x)[i] = s[i]
          /\ Append(s, x)[Len(s) + 1] = x
    BY AppendProperties
<1>. HIDE DEF Version
<1>5. decisions' \in [Cases -> Seq(DecisionVersion)]
    BY <1>1, <1>2, <1>3, <1>4
<1>6. c # request[w].case_id => decisions'[c] = decisions[c]
    BY <1>1, <1>3
<1>7. c = request[w].case_id =>
          decisions'[c] = Append(decisions[c], Version(w, request[w].decision))
    BY <1>1, <1>3
<1>8. QED BY <1>2, <1>3, <1>4, <1>5, <1>6, <1>7

\* Versions stay, and later ones are added behind them.
LEMMA VersionsStay ==
    ASSUME TypeOK, NEW w \in Workers, Step(w), NEW c \in Cases
    PROVE  /\ Len(decisions[c]) \in Nat /\ Len(decisions'[c]) \in Nat
           /\ Len(decisions[c]) <= Len(decisions'[c])
           /\ \A i \in 1 .. Len(decisions[c]) : decisions'[c][i] = decisions[c][i]
<1>1. decisions \in [Cases -> Seq(DecisionVersion)] /\ Len(decisions[c]) \in Nat
    BY DEF TypeOK
<1>2. CASE PutDecision(w)
    BY <1>1, <1>2, PutDecisionAppends
<1>3. CASE ~PutDecision(w)
  <2>1. decisions' = decisions
      BY <1>3 DEF Step, Planned, Plan, StampSave, PutReview, RecordReview, RecordDecision,
                  AbortRequest, tables
  <2>2. QED BY <1>1, <2>1
<1>4. QED BY <1>2, <1>3

\* A version that was not there is what PutDecision appended.
LEMMA NewVersion ==
    ASSUME TypeOK, NEW w \in Workers, Step(w), NEW c \in Cases, NEW i \in 1 .. Len(decisions'[c])
    PROVE  \/ i \in 1 .. Len(decisions[c]) /\ decisions'[c][i] = decisions[c][i]
           \/ /\ PutDecision(w)
              /\ c = request[w].case_id
              /\ i = Len(decisions[c]) + 1
              /\ decisions'[c][i] = Version(w, request[w].decision)
<1>1. Len(decisions[c]) \in Nat /\ Len(decisions'[c]) \in Nat
    BY VersionsStay
<1>2. CASE i \in 1 .. Len(decisions[c])
    BY <1>2, VersionsStay
<1>3. CASE i \notin 1 .. Len(decisions[c])
  <2>1. PutDecision(w)
    <3>1. decisions' # decisions
        BY <1>3
    <3>2. QED BY <3>1 DEF Step, Planned, Plan, StampSave, PutReview, RecordReview,
                          RecordDecision, AbortRequest, tables
  <2>2. QED BY <1>1, <1>3, <2>1, PutDecisionAppends
<1>4. QED BY <1>2, <1>3

\* The histories only grow.
LEMMA HistoriesGrow ==
    ASSUME NEW w \in Workers, Step(w)
    PROVE  /\ decision_history \subseteq decision_history'
           /\ review_history \subseteq review_history'
BY DEF Step, Planned, Plan, StampSave, PutReview, RecordReview, PutDecision, RecordDecision,
       AbortRequest, tables

-----------------------------------------------------------------------------
(***************************************************************************)
(* Every step keeps the invariant.                                         *)
(***************************************************************************)

LEMMA InitInv == Init => Inv
<1>1. SUFFICES ASSUME Init PROVE Inv
    OBVIOUS
<1>2. /\ \A c \in Cases : decisions[c] = <<>> /\ reviews[c] = <<>>
      /\ \A w \in Workers : ~Busy(w)
    BY <1>1 DEF Init, Busy
<1>3. TypeOK
  <2>1. <<>> \in Seq(DecisionVersion) /\ <<>> \in Seq(ReviewVersion)
      BY EmptySeq
  <2>2. QED BY <1>1, <2>1 DEF Init, TypeOK
<1>4. \A c \in Cases : Len(decisions[c]) = 0
    BY <1>2, EmptySeq
<1>5. TimesPast
    BY <1>1, <1>2, <1>4 DEF Init, TimesPast
<1>6. OwnTimes /\ SafePlans
    BY <1>2 DEF OwnTimes, SafePlans, Stamped
<1>7. VersionsHaveBasis /\ CompletionsAdjudicated
    BY <1>4 DEF VersionsHaveBasis, CompletionsAdjudicated
<1>8. QED BY <1>3, <1>5, <1>6, <1>7 DEF Inv

\* A request that still has its parts after a step is a request.
LEMMA StepKeepsTypes ==
    ASSUME Inv, NEW w \in Workers, Step(w)
    PROVE  TypeOK'
<1>1. TypeOK
    BY DEF Inv
<1>2. CASE Planned(w)
  <2>1. PICK user \in AuthContexts, c \in Cases, event \in DecisionEvent,
             review \in ReviewRecord \cup {None}, decision \in DecisionRecord :
                 Plan(w, c, event, user, review, decision)
      BY <1>2 DEF Planned
  <2>2. [case_id |-> c, event_type |-> event, actor |-> user, review |-> review,
         decision |-> decision, recorded_at |-> 0, row_put |-> FALSE] \in Request
      BY StoreAssumption DEF Request
  <2>3. request' \in [Workers -> Request \cup {NoRequest}]
      BY <1>1, <2>1, <2>2 DEF Plan, TypeOK
  <2>4. UNCHANGED <<decisions, decision_history, reviews, review_history, clock>>
      BY <2>1 DEF Plan, tables
  <2>5. QED BY <1>1, <2>3, <2>4 DEF TypeOK
<1>3. ASSUME Busy(w) PROVE request[w] \in Request /\ request[w] # NoRequest
    BY <1>1, <1>3, BusyRequest DEF Busy
<1>4. CASE StampSave(w)
  <2>1. clock' \in Nat
      BY <1>1, <1>4 DEF StampSave, TypeOK
  <2>2. [request[w] EXCEPT !.recorded_at = clock'] \in Request
      BY <1>3, <1>4, <2>1 DEF StampSave, Request
  <2>3. request' \in [Workers -> Request \cup {NoRequest}]
      BY <1>1, <1>4, <2>2 DEF StampSave, TypeOK
  <2>4. QED BY <1>1, <1>4, <2>1, <2>3 DEF StampSave, TypeOK, tables
<1>5. CASE PutReview(w)
  <2>1. request[w] \in Request /\ request[w].recorded_at \in Time /\ request[w].review \in ReviewRecord
      BY <1>3, <1>5 DEF PutReview, Stamped, Request, Time
  <2>2. [request[w] EXCEPT !.row_put = TRUE] \in Request
      BY <2>1 DEF Request
  <2>3. request' \in [Workers -> Request \cup {NoRequest}]
      BY <1>1, <1>5, <2>2 DEF PutReview, TypeOK
  <2>4. Version(w, request[w].review) \in ReviewVersion
      BY <2>1 DEF Version, ReviewVersion
  <2>5. reviews' \in [Cases -> Seq(ReviewVersion)]
      BY <1>1, <1>5, <2>4, AppendProperties DEF PutReview, TypeOK
  <2>6. QED BY <1>1, <1>5, <2>3, <2>5 DEF PutReview, TypeOK
<1>6. CASE RecordReview(w)
  <2>1. request[w] \in Request /\ request[w].recorded_at \in Time /\ request[w].review \in ReviewRecord
      BY <1>3, <1>6 DEF RecordReview, Stamped, Request, Time
  <2>2. [request[w] EXCEPT !.review = None, !.recorded_at = 0, !.row_put = FALSE] \in Request
      BY <2>1 DEF Request
  <2>3. request' \in [Workers -> Request \cup {NoRequest}]
      BY <1>1, <1>6, <2>2 DEF RecordReview, EndSave, TypeOK
  <2>4. ReviewItemOf(request[w]) \in ReviewItem
      BY <2>1 DEF ReviewItemOf, ReviewItem, Request
  <2>5. QED BY <1>1, <1>6, <2>3, <2>4 DEF RecordReview, TypeOK
<1>7. CASE PutDecision(w)
  <2>1. [request[w] EXCEPT !.row_put = TRUE] \in Request
      BY <1>3, <1>7 DEF PutDecision, Stamped, Request
  <2>2. request' \in [Workers -> Request \cup {NoRequest}]
      BY <1>1, <1>7, <2>1 DEF PutDecision, TypeOK
  <2>3. decisions' \in [Cases -> Seq(DecisionVersion)]
    <3>1. request[w].case_id \in Cases
        BY <1>1, <1>7, BusyRequest DEF PutDecision, Stamped
    <3>2. QED BY <1>1, <1>7, <3>1, PutDecisionAppends
  <2>4. QED BY <1>1, <1>7, <2>2, <2>3 DEF PutDecision, TypeOK
<1>8. CASE RecordDecision(w)
  <2>1. request[w] \in Request /\ request[w].recorded_at \in Time
      BY <1>3, <1>8 DEF RecordDecision, Stamped, Request, Time
  <2>2. DecisionItemOf(request[w]) \in DecisionItem
      BY <2>1 DEF DecisionItemOf, DecisionItem, Request
  <2>3. QED BY <1>1, <1>8, <2>2 DEF RecordDecision, TypeOK
<1>9. CASE AbortRequest(w)
    BY <1>1, <1>9 DEF AbortRequest, TypeOK, tables
<1>10. QED BY <1>2, <1>4, <1>5, <1>6, <1>7, <1>8, <1>9 DEF Step

\* What a step makes of the request of its worker.
LEMMA RequestAfter ==
    ASSUME TypeOK, NEW w \in Workers
    PROVE  /\ StampSave(w) =>
                  /\ request'[w] = [request[w] EXCEPT !.recorded_at = clock + 1]
                  /\ clock' = clock + 1
           /\ PutReview(w) \/ PutDecision(w) =>
                  request'[w] = [request[w] EXCEPT !.row_put = TRUE]
           /\ RecordReview(w) =>
                  request'[w] = [request[w] EXCEPT !.review = None, !.recorded_at = 0,
                                                   !.row_put = FALSE]
           /\ RecordDecision(w) \/ AbortRequest(w) => request'[w] = NoRequest
BY DEF TypeOK, StampSave, PutReview, PutDecision, RecordReview, EndSave, RecordDecision, AbortRequest

\* The same, field by field.
LEMMA FieldsAfter ==
    ASSUME TypeOK, NEW w \in Workers, Busy(w),
           StampSave(w) \/ PutReview(w) \/ PutDecision(w) \/ RecordReview(w)
    PROVE  /\ request'[w].case_id = request[w].case_id
           /\ request'[w].event_type = request[w].event_type
           /\ request'[w].actor = request[w].actor
           /\ request'[w].decision = request[w].decision
           /\ request'[w].review = IF RecordReview(w) THEN None ELSE request[w].review
           /\ request'[w].recorded_at =
                  IF StampSave(w) THEN clock + 1
                  ELSE IF RecordReview(w) THEN 0 ELSE request[w].recorded_at
           /\ request'[w].row_put =
                  IF PutReview(w) \/ PutDecision(w) THEN TRUE
                  ELSE IF RecordReview(w) THEN FALSE ELSE request[w].row_put
<1>1. request[w] \in Request
    BY BusyRequest
<1>2. /\ StampSave(w) => request[w].recorded_at = 0
      /\ PutReview(w) => request[w].recorded_at # 0 /\ request[w].review # None /\ ~request[w].row_put
      /\ PutDecision(w) => request[w].recorded_at # 0 /\ request[w].review = None /\ ~request[w].row_put
      /\ RecordReview(w) => request[w].recorded_at # 0 /\ request[w].review # None /\ request[w].row_put
    BY DEF StampSave, PutReview, PutDecision, RecordReview, Stamped
<1>3. CASE StampSave(w)
  <2>1. request'[w] = [request[w] EXCEPT !.recorded_at = clock + 1]
      BY <1>3, RequestAfter
  <2>2. ~PutReview(w) /\ ~PutDecision(w) /\ ~RecordReview(w)
      BY <1>2, <1>3
  <2>3. QED BY <1>1, <1>3, <2>1, <2>2 DEF Request
<1>4. CASE PutReview(w) \/ PutDecision(w)
  <2>1. request'[w] = [request[w] EXCEPT !.row_put = TRUE]
      BY <1>4, RequestAfter
  <2>2. ~StampSave(w) /\ ~RecordReview(w)
      BY <1>2, <1>4
  <2>3. QED BY <1>1, <1>4, <2>1, <2>2 DEF Request
<1>5. CASE RecordReview(w)
  <2>1. request'[w] = [request[w] EXCEPT !.review = None, !.recorded_at = 0, !.row_put = FALSE]
      BY <1>5, RequestAfter
  <2>2. ~StampSave(w) /\ ~PutReview(w) /\ ~PutDecision(w)
      BY <1>2, <1>5
  <2>3. QED BY <1>1, <1>5, <2>1, <2>2 DEF Request
<1>6. QED BY <1>3, <1>4, <1>5

\* What a step adds to the histories: an event with the time of the save.
LEMMA EventsAdded ==
    ASSUME NEW w \in Workers, Step(w)
    PROVE  /\ \A item \in decision_history' \cup review_history' :
                  \/ item \in decision_history \cup review_history
                  \/ item.recorded_at = request[w].recorded_at /\ Stamped(w)
           /\ decision_history' \cup review_history' # decision_history \cup review_history =>
                  RecordReview(w) \/ RecordDecision(w)
<1>1. CASE RecordReview(w)
    BY <1>1 DEF RecordReview, ReviewItemOf
<1>2. CASE RecordDecision(w)
    BY <1>2 DEF RecordDecision, DecisionItemOf
<1>3. CASE ~RecordReview(w) /\ ~RecordDecision(w)
    BY <1>3 DEF Step, Planned, Plan, StampSave, PutReview, PutDecision, AbortRequest, tables
<1>4. QED BY <1>1, <1>2, <1>3

\* The request of a worker after its own step, if it has one.
LEMMA StampAfter ==
    ASSUME TypeOK, NEW w \in Workers, Step(w), Busy(w)'
    PROVE  \/ StampSave(w) /\ request'[w].recorded_at = clock + 1
           \/ PutReview(w) /\ Stamped(w) /\ request'[w].recorded_at = request[w].recorded_at
           \/ PutDecision(w) /\ Stamped(w) /\ request'[w].recorded_at = request[w].recorded_at
           \/ Planned(w) /\ request'[w].recorded_at = 0
           \/ RecordReview(w) /\ request'[w].recorded_at = 0
<1>1. CASE Planned(w)
  <2>1. PICK user \in AuthContexts, c \in Cases, event \in DecisionEvent,
             review \in ReviewRecord \cup {None}, decision \in DecisionRecord :
                 Plan(w, c, event, user, review, decision)
      BY <1>1 DEF Planned
  <2>2. request'[w] = [case_id |-> c, event_type |-> event, actor |-> user, review |-> review,
                       decision |-> decision, recorded_at |-> 0, row_put |-> FALSE]
      BY <2>1 DEF Plan, TypeOK
  <2>3. QED BY <1>1, <2>2
<1>2. CASE StampSave(w)
    BY <1>2, FieldsAfter DEF StampSave
<1>3. CASE PutReview(w)
  <2>1. Busy(w) /\ Stamped(w) /\ ~StampSave(w) /\ ~RecordReview(w)
      BY <1>3 DEF PutReview, StampSave, RecordReview, Stamped
  <2>2. QED BY <1>3, <2>1, FieldsAfter
<1>4. CASE PutDecision(w)
  <2>1. Busy(w) /\ Stamped(w) /\ ~StampSave(w) /\ ~RecordReview(w)
      BY <1>4 DEF PutDecision, StampSave, RecordReview, Stamped
  <2>2. QED BY <1>4, <2>1, FieldsAfter
<1>5. CASE RecordReview(w)
  <2>1. Busy(w) /\ ~StampSave(w)
      BY <1>5 DEF StampSave, RecordReview, Stamped
  <2>2. QED BY <1>5, <2>1, FieldsAfter
<1>6. CASE RecordDecision(w) \/ AbortRequest(w)
    BY <1>6, RequestAfter DEF Busy
<1>7. QED BY <1>1, <1>2, <1>3, <1>4, <1>5, <1>6 DEF Step

LEMMA ClockAfter ==
    ASSUME TypeOK, NEW w \in Workers, Step(w)
    PROVE  /\ clock \in Nat /\ clock' \in Nat /\ clock <= clock'
           /\ StampSave(w) => clock' = clock + 1
BY DEF TypeOK, Step, Planned, Plan, StampSave, PutReview, RecordReview, PutDecision,
       RecordDecision, AbortRequest

LEMMA StepKeepsTimesPast ==
    ASSUME Inv, NEW w \in Workers, Step(w)
    PROVE  TimesPast'
<1>1. TypeOK /\ TimesPast /\ TypeOK'
    BY StepKeepsTypes DEF Inv
<1>2. /\ clock \in Nat /\ clock' \in Nat /\ clock <= clock'
      /\ StampSave(w) => clock' = clock + 1
    BY <1>1, ClockAfter
<1>3. ASSUME NEW v \in Workers, Busy(v)
      PROVE  request[v].recorded_at \in Nat /\ request[v].recorded_at <= clock
    BY <1>1, <1>3, BusyRequest DEF Request, TimesPast
<1>4. ASSUME NEW v \in Workers, Busy(v)'
      PROVE  request'[v].recorded_at <= clock'
  <2>1. CASE v = w
      BY <1>1, <1>2, <1>3, <1>4, <2>1, StampAfter DEF Stamped
  <2>2. CASE v # w
    <3>1. request'[v] = request[v] /\ Busy(v)
        BY <1>1, <1>4, <2>2, OthersWait DEF Busy
    <3>2. QED BY <1>2, <1>3, <3>1
  <2>3. QED BY <2>1, <2>2
<1>5. ASSUME NEW item \in decision_history' \cup review_history'
      PROVE  item.recorded_at <= clock'
  <2>1. CASE item \in decision_history \cup review_history
    <3>1. item.recorded_at \in Nat
        BY <1>1, <2>1 DEF TypeOK, DecisionItem, ReviewItem, Time
    <3>2. QED BY <1>1, <1>2, <2>1, <3>1 DEF TimesPast
  <2>2. CASE item.recorded_at = request[w].recorded_at /\ Stamped(w)
      BY <1>2, <1>3, <2>2 DEF Stamped
  <2>3. QED BY <2>1, <2>2, EventsAdded
<1>6. ASSUME NEW c \in Cases, NEW i \in 1 .. Len(decisions'[c])
      PROVE  decisions'[c][i].recorded_at <= clock'
  <2>1. CASE i \in 1 .. Len(decisions[c]) /\ decisions'[c][i] = decisions[c][i]
    <3>1. decisions[c][i] \in DecisionVersion
        BY <1>1, <2>1 DEF TypeOK
    <3>2. decisions[c][i].recorded_at \in Nat
        BY <3>1 DEF DecisionVersion, Time
    <3>3. QED BY <1>1, <1>2, <2>1, <3>2 DEF TimesPast
  <2>2. CASE PutDecision(w) /\ decisions'[c][i] = Version(w, request[w].decision)
    <3>1. decisions'[c][i].recorded_at = request[w].recorded_at /\ Busy(w)
        BY <2>2 DEF Version, PutDecision, Stamped
    <3>2. QED BY <1>2, <1>3, <3>1
  <2>3. QED BY <1>1, <1>6, <2>1, <2>2, NewVersion
<1>7. QED BY <1>4, <1>5, <1>6 DEF TimesPast

LEMMA StepKeepsOwnTimes ==
    ASSUME Inv, NEW w \in Workers, Step(w)
    PROVE  OwnTimes'
<1>1. TypeOK /\ TimesPast /\ OwnTimes
    BY DEF Inv
<1>2. clock \in Nat
    BY <1>1 DEF TypeOK
<1>3. ASSUME NEW v \in Workers, v # w, Stamped(v)'
      PROVE  /\ Stamped(v) /\ request'[v] = request[v]
             /\ request[v].recorded_at \in Nat /\ request[v].recorded_at <= clock
  <2>1. request'[v] = request[v] /\ Stamped(v)
      BY <1>1, <1>3, OthersWait DEF Stamped, Busy
  <2>2. QED BY <1>1, <2>1, BusyRequest DEF TimesPast, Stamped, Request
<1>4. ASSUME Stamped(w)'
      PROVE  \/ StampSave(w) /\ request'[w].recorded_at = clock + 1
             \/ /\ PutReview(w) \/ PutDecision(w)
                /\ Stamped(w) /\ request'[w].recorded_at = request[w].recorded_at
    BY <1>1, <1>4, StampAfter DEF Stamped
<1>5. ASSUME NEW v \in Workers, v # w, Stamped(v)', Stamped(w)'
      PROVE  request'[v].recorded_at # request'[w].recorded_at
    BY <1>1, <1>2, <1>3, <1>4, <1>5 DEF OwnTimes
<1>6. ASSUME NEW v \in Workers, NEW u \in Workers, v # u, v # w, u # w, Stamped(v)', Stamped(u)'
      PROVE  request'[v].recorded_at # request'[u].recorded_at
    BY <1>1, <1>3, <1>6 DEF OwnTimes
<1>7. ASSUME NEW v \in Workers, Stamped(v)', NEW item \in decision_history' \cup review_history'
      PROVE  item.recorded_at # request'[v].recorded_at
  <2>1. CASE v # w
    <3>1. CASE item \in decision_history \cup review_history
        BY <1>1, <1>3, <1>7, <2>1, <3>1 DEF OwnTimes
    <3>2. CASE item.recorded_at = request[w].recorded_at /\ Stamped(w)
        BY <1>1, <1>3, <1>7, <2>1, <3>2 DEF OwnTimes
    <3>3. QED BY <3>1, <3>2, EventsAdded
  <2>2. CASE v = w
    <3>1. item \in decision_history \cup review_history
      <4>1. StampSave(w) \/ PutReview(w) \/ PutDecision(w)
          BY <1>4, <1>7, <2>2
      <4>2. UNCHANGED <<decision_history, review_history>>
          BY <4>1 DEF StampSave, PutReview, PutDecision, tables
      <4>3. QED BY <1>7, <4>2
    <3>2. item.recorded_at \in Nat /\ item.recorded_at <= clock
        BY <1>1, <3>1 DEF TypeOK, DecisionItem, ReviewItem, Time, TimesPast
    <3>3. QED BY <1>1, <1>2, <1>4, <1>7, <2>2, <3>1, <3>2 DEF OwnTimes
  <2>3. QED BY <2>1, <2>2
<1>8. QED
  <2>1. \A v, u \in Workers : v # u /\ Stamped(v)' /\ Stamped(u)' =>
            request'[v].recorded_at # request'[u].recorded_at
      BY <1>5, <1>6
  <2>2. \A v \in Workers : Stamped(v)' =>
            \A item \in decision_history' \cup review_history' :
                item.recorded_at # request'[v].recorded_at
      BY <1>7
  <2>3. QED BY <2>1, <2>2 DEF OwnTimes

\* A version that a plan, or a version, rests on is still there after a step.
LEMMA BasisStays ==
    ASSUME TypeOK, NEW w \in Workers, Step(w), NEW c \in Cases,
           NEW j \in 1 .. Len(decisions[c])
    PROVE  j \in 1 .. Len(decisions'[c]) /\ decisions'[c][j] = decisions[c][j]
BY VersionsStay

\* What a worker has planned is not disturbed by another's step.
LEMMA OthersKeepPlans ==
    ASSUME Inv, NEW w \in Workers, Step(w), NEW v \in Workers, v # w, Busy(v)'
    PROVE  PlanKept(v)'
<1>1. TypeOK /\ request'[v] = request[v]
    BY OthersWait DEF Inv
<1>2. Busy(v) /\ PlanKept(v) /\ request[v].case_id \in Cases
    BY <1>1, BusyRequest DEF Busy, Inv, SafePlans
<1>3. Based(v)'
  <2>1. CASE Lifecycle!Evaluated(View(request[v].decision))
      BY <1>1, <2>1 DEF Based
  <2>2. CASE ~Lifecycle!Evaluated(View(request[v].decision))
    <3>1. PICK j \in 1 .. Len(decisions[request[v].case_id]) :
              /\ Lifecycle!Follows(View(decisions[request[v].case_id][j].record),
                                   View(request[v].decision))
              /\ request[v].review = None /\ request[v].recorded_at # 0 =>
                     decisions[request[v].case_id][j].recorded_at < request[v].recorded_at
        BY <1>2, <2>2 DEF PlanKept, Based
    <3>2. /\ j \in 1 .. Len(decisions'[request[v].case_id])
          /\ decisions'[request[v].case_id][j] = decisions[request[v].case_id][j]
        BY <1>1, <1>2, BasisStays
    <3>3. QED BY <1>1, <3>1, <3>2 DEF Based
  <2>3. QED BY <2>1, <2>2
<1>4. Settled(v)'
  <2>1. review_history \subseteq review_history'
      BY HistoriesGrow
  <2>2. QED BY <1>1, <1>2, <2>1 DEF PlanKept, Settled
<1>5. QED BY <1>1, <1>2, <1>3, <1>4 DEF PlanKept

\* A plan is sound when it is made.
LEMMA NewPlanKept ==
    ASSUME Inv, NEW w \in Workers, Planned(w)
    PROVE  PlanKept(w)'
<1>1. PICK user \in AuthContexts, c \in Cases, event \in DecisionEvent,
           review \in ReviewRecord \cup {None}, decision \in DecisionRecord :
               /\ \E row \in Readable(c) : SoundPlan(row, event, user, review, decision)
               /\ Plan(w, c, event, user, review, decision)
    BY DEF Planned
<1>2. PICK row \in Readable(c) : SoundPlan(row, event, user, review, decision)
    BY <1>1
<1>3. request'[w] = [case_id |-> c, event_type |-> event, actor |-> user, review |-> review,
                     decision |-> decision, recorded_at |-> 0, row_put |-> FALSE]
    BY <1>1 DEF Plan, Inv, TypeOK
<1>4. /\ request'[w].case_id = c /\ request'[w].actor = user /\ request'[w].review = review
      /\ request'[w].decision = decision /\ request'[w].recorded_at = 0
      /\ request'[w].row_put = FALSE
    BY <1>3
<1>5. decisions' = decisions
    BY <1>1 DEF Plan, tables
<1>6. Based(w)'
  <2>1. CASE Lifecycle!Evaluated(View(decision))
      BY <1>4, <2>1 DEF Based
  <2>2. CASE row # None /\ Lifecycle!Follows(View(row), View(decision))
    <3>1. PICK j \in 1 .. Len(decisions[c]) : row = decisions[c][j].record
        BY <2>2 DEF Readable
    <3>2. QED BY <1>4, <1>5, <2>2, <3>1 DEF Based
  <2>3. QED BY <1>2, <2>1, <2>2 DEF SoundPlan
<1>7. Settled(w)'
    BY <1>2, <1>4 DEF Settled, SoundPlan
<1>8. QED BY <1>2, <1>4, <1>6, <1>7 DEF PlanKept, SoundPlan

\* A stamp is later than all that the plan rests on.
LEMMA StampKeepsPlan ==
    ASSUME Inv, NEW w \in Workers, StampSave(w)
    PROVE  PlanKept(w)'
<1>1. /\ TypeOK /\ Busy(w) /\ request[w].recorded_at = 0 /\ PlanKept(w)
      /\ UNCHANGED <<decisions, review_history>>
    BY DEF Inv, SafePlans, StampSave, Stamped, tables
<1>2. request[w].case_id \in Cases /\ clock \in Nat
    BY <1>1, BusyRequest DEF TypeOK
<1>3. ~PutReview(w) /\ ~PutDecision(w) /\ ~RecordReview(w)
    BY <1>1 DEF PutReview, PutDecision, RecordReview, Stamped
<1>4. /\ request'[w].case_id = request[w].case_id
      /\ request'[w].actor = request[w].actor
      /\ request'[w].review = request[w].review
      /\ request'[w].decision = request[w].decision
      /\ request'[w].recorded_at = clock + 1
    BY <1>1, <1>3, FieldsAfter
<1>5. ASSUME NEW j \in 1 .. Len(decisions[request[w].case_id])
      PROVE  decisions[request[w].case_id][j].recorded_at < clock + 1
  <2>1. decisions[request[w].case_id][j] \in DecisionVersion
      BY <1>1, <1>2 DEF TypeOK
  <2>2. QED BY <1>2, <2>1 DEF Inv, TimesPast, DecisionVersion, Time
<1>6. ASSUME NEW item \in review_history
      PROVE  item.recorded_at < clock + 1
  <2>1. item \in ReviewItem
      BY <1>1 DEF TypeOK
  <2>2. item.recorded_at \in Nat /\ item.recorded_at <= clock
      BY <2>1 DEF Inv, TimesPast, ReviewItem, Time
  <2>3. QED BY <1>2, <2>2
<1>7. Based(w)'
  <2>1. CASE Lifecycle!Evaluated(View(request[w].decision))
      BY <1>4, <2>1 DEF Based
  <2>2. CASE ~Lifecycle!Evaluated(View(request[w].decision))
    <3>1. PICK j \in 1 .. Len(decisions[request[w].case_id]) :
              Lifecycle!Follows(View(decisions[request[w].case_id][j].record),
                                View(request[w].decision))
        BY <1>1, <2>2 DEF PlanKept, Based
    <3>2. QED BY <1>1, <1>4, <1>5, <3>1 DEF Based
  <2>3. QED BY <2>1, <2>2
<1>8. Settled(w)'
    BY <1>1, <1>4, <1>6 DEF PlanKept, Settled
<1>9. request'[w].recorded_at # 0
    BY <1>2, <1>4
<1>10. QED BY <1>1, <1>4, <1>7, <1>8, <1>9 DEF PlanKept

\* A put leaves the plan as it is.
LEMMA PutKeepsPlan ==
    ASSUME Inv, NEW w \in Workers, PutReview(w) \/ PutDecision(w)
    PROVE  PlanKept(w)'
<1>1. /\ TypeOK /\ Busy(w) /\ Stamped(w) /\ PlanKept(w) /\ Step(w)
      /\ review_history' = review_history
    BY DEF Inv, SafePlans, PutReview, PutDecision, Stamped, Step
<1>2. request[w].case_id \in Cases
    BY <1>1, BusyRequest
<1>3. ~StampSave(w) /\ ~RecordReview(w)
    BY DEF PutReview, PutDecision, StampSave, RecordReview
<1>4. /\ request'[w].case_id = request[w].case_id
      /\ request'[w].actor = request[w].actor
      /\ request'[w].review = request[w].review
      /\ request'[w].decision = request[w].decision
      /\ request'[w].recorded_at = request[w].recorded_at
    BY <1>1, <1>3, FieldsAfter
<1>5. Based(w)'
  <2>1. CASE Lifecycle!Evaluated(View(request[w].decision))
      BY <1>4, <2>1 DEF Based
  <2>2. CASE ~Lifecycle!Evaluated(View(request[w].decision))
    <3>1. PICK j \in 1 .. Len(decisions[request[w].case_id]) :
              /\ Lifecycle!Follows(View(decisions[request[w].case_id][j].record),
                                   View(request[w].decision))
              /\ request[w].review = None /\ request[w].recorded_at # 0 =>
                     decisions[request[w].case_id][j].recorded_at < request[w].recorded_at
        BY <1>1, <2>2 DEF PlanKept, Based
    <3>2. /\ j \in 1 .. Len(decisions'[request[w].case_id])
          /\ decisions'[request[w].case_id][j] = decisions[request[w].case_id][j]
        BY <1>1, <1>2, BasisStays
    <3>3. QED BY <1>4, <3>1, <3>2 DEF Based
  <2>3. QED BY <2>1, <2>2
<1>6. Settled(w)'
    BY <1>1, <1>4 DEF PlanKept, Settled
<1>7. request'[w].recorded_at # 0
    BY <1>1, <1>4 DEF Stamped
<1>8. QED BY <1>1, <1>4, <1>5, <1>6, <1>7 DEF PlanKept

\* The review that is recorded is the one its completion needs.
LEMMA RecordReviewKeepsPlan ==
    ASSUME Inv, NEW w \in Workers, RecordReview(w)
    PROVE  PlanKept(w)'
<1>1. /\ TypeOK /\ Busy(w) /\ PlanKept(w) /\ request[w].review # None
      /\ review_history' = review_history \cup {ReviewItemOf(request[w])}
      /\ decisions' = decisions
    BY DEF Inv, SafePlans, RecordReview, Stamped
<1>2. ~StampSave(w) /\ ~PutReview(w) /\ ~PutDecision(w)
    BY DEF RecordReview, StampSave, PutReview, PutDecision
<1>3. /\ request'[w].case_id = request[w].case_id
      /\ request'[w].actor = request[w].actor
      /\ request'[w].review = None
      /\ request'[w].decision = request[w].decision
      /\ request'[w].recorded_at = 0
      /\ request'[w].row_put = FALSE
    BY <1>1, <1>2, FieldsAfter
<1>4. Based(w)'
    BY <1>1, <1>3 DEF PlanKept, Based
<1>5. Settled(w)'
  <2>1. SUFFICES ASSUME request[w].decision.review_status = "completed"
                 PROVE  \E item \in review_history' :
                            /\ item.case_id = request[w].case_id
                            /\ item.actor.user_id = request[w].decision.assigned_reviewer_id
                            /\ item.record = ReviewOf(request[w].decision)
      BY <1>3 DEF Settled
  <2>2. /\ request[w].review = ReviewOf(request[w].decision)
        /\ request[w].actor.user_id = request[w].decision.assigned_reviewer_id
      BY <1>1, <2>1 DEF PlanKept, Settled
  <2>3. /\ ReviewItemOf(request[w]).case_id = request[w].case_id
        /\ ReviewItemOf(request[w]).actor = request[w].actor
        /\ ReviewItemOf(request[w]).record = request[w].review
      BY DEF ReviewItemOf
  <2>4. QED BY <1>1, <2>2, <2>3
<1>6. QED BY <1>1, <1>3, <1>4, <1>5 DEF PlanKept

LEMMA StepKeepsSafePlans ==
    ASSUME Inv, NEW w \in Workers, Step(w)
    PROVE  SafePlans'
<1>1. ASSUME NEW v \in Workers, Busy(v)'
      PROVE  PlanKept(v)'
  <2>1. CASE v # w
      BY <1>1, <2>1, OthersKeepPlans
  <2>2. CASE v = w
    <3>1. ~RecordDecision(w) /\ ~AbortRequest(w)
        BY <1>1, <2>2, RequestAfter DEF Inv, Busy
    <3>2. QED BY <2>2, <3>1, NewPlanKept, StampKeepsPlan, PutKeepsPlan, RecordReviewKeepsPlan
              DEF Step
  <2>3. QED BY <2>1, <2>2
<1>2. QED BY <1>1 DEF SafePlans

LEMMA StepKeepsVersionsBased ==
    ASSUME Inv, NEW w \in Workers, Step(w)
    PROVE  VersionsHaveBasis'
<1>1. TypeOK /\ VersionsHaveBasis /\ SafePlans
    BY DEF Inv
<1>2. ASSUME NEW c \in Cases, NEW i \in 1 .. Len(decisions'[c])
      PROVE  /\ Consistent(decisions'[c][i].record)
             /\ \/ Lifecycle!Evaluated(View(decisions'[c][i].record))
                \/ \E j \in 1 .. i - 1 :
                       /\ decisions'[c][j].recorded_at < decisions'[c][i].recorded_at
                       /\ Lifecycle!Follows(View(decisions'[c][j].record),
                                            View(decisions'[c][i].record))
  <2>0. /\ Len(decisions[c]) \in Nat /\ Len(decisions'[c]) \in Nat
        /\ \A j \in 1 .. Len(decisions[c]) : decisions'[c][j] = decisions[c][j]
      BY <1>1, VersionsStay
  <2>1. CASE i \in 1 .. Len(decisions[c]) /\ decisions'[c][i] = decisions[c][i]
    <3>1. /\ Consistent(decisions[c][i].record)
          /\ \/ Lifecycle!Evaluated(View(decisions[c][i].record))
             \/ \E j \in 1 .. i - 1 :
                    /\ decisions[c][j].recorded_at < decisions[c][i].recorded_at
                    /\ Lifecycle!Follows(View(decisions[c][j].record),
                                         View(decisions[c][i].record))
        BY <1>1, <2>1 DEF VersionsHaveBasis, HasBasis
    <3>2. CASE Lifecycle!Evaluated(View(decisions[c][i].record))
        BY <2>1, <3>1, <3>2
    <3>3. ASSUME NEW j \in 1 .. i - 1
          PROVE  decisions'[c][j] = decisions[c][j]
        BY <2>0, <2>1, <3>3
    <3>4. QED BY <2>1, <3>1, <3>2, <3>3
  <2>2. CASE /\ PutDecision(w)
             /\ c = request[w].case_id
             /\ i = Len(decisions[c]) + 1
             /\ decisions'[c][i] = Version(w, request[w].decision)
    <3>1. PlanKept(w) /\ request[w].review = None /\ request[w].recorded_at # 0
        BY <1>1, <2>2 DEF SafePlans, PutDecision, Stamped
    <3>2. /\ decisions'[c][i].record = request[w].decision
          /\ decisions'[c][i].recorded_at = request[w].recorded_at
        BY <2>2 DEF Version
    <3>3. CASE Lifecycle!Evaluated(View(request[w].decision))
        BY <3>1, <3>2, <3>3 DEF PlanKept
    <3>4. CASE ~Lifecycle!Evaluated(View(request[w].decision))
      <4>1. PICK j \in 1 .. Len(decisions[c]) :
                /\ Lifecycle!Follows(View(decisions[c][j].record), View(request[w].decision))
                /\ decisions[c][j].recorded_at < request[w].recorded_at
          BY <2>2, <3>1, <3>4 DEF PlanKept, Based
      <4>2. j \in 1 .. i - 1 /\ decisions'[c][j] = decisions[c][j]
          BY <2>0, <2>2
      <4>3. QED BY <3>1, <3>2, <4>1, <4>2 DEF PlanKept
    <3>5. QED BY <3>3, <3>4
  <2>3. QED BY <1>1, <1>2, <2>1, <2>2, NewVersion
<1>3. QED BY <1>2 DEF VersionsHaveBasis, HasBasis

LEMMA StepKeepsAdjudicated ==
    ASSUME Inv, NEW w \in Workers, Step(w)
    PROVE  CompletionsAdjudicated'
<1>1. /\ TypeOK /\ CompletionsAdjudicated /\ SafePlans
      /\ review_history \subseteq review_history'
    BY HistoriesGrow DEF Inv
<1>2. ASSUME NEW c \in Cases, NEW i \in 1 .. Len(decisions'[c]),
             decisions'[c][i].record.review_status = "completed"
      PROVE  \E item \in review_history' :
                 /\ item.case_id = c
                 /\ item.recorded_at < decisions'[c][i].recorded_at
                 /\ item.actor.user_id = decisions'[c][i].record.assigned_reviewer_id
                 /\ item.record = ReviewOf(decisions'[c][i].record)
  <2>1. CASE i \in 1 .. Len(decisions[c]) /\ decisions'[c][i] = decisions[c][i]
    <3>1. Adjudicated(c, decisions[c][i].recorded_at, decisions[c][i].record)
        BY <1>1, <1>2, <2>1 DEF CompletionsAdjudicated
    <3>2. QED BY <1>1, <2>1, <3>1 DEF Adjudicated, ReviewOf
  <2>2. CASE /\ PutDecision(w)
             /\ c = request[w].case_id
             /\ decisions'[c][i] = Version(w, request[w].decision)
    <3>1. PlanKept(w) /\ request[w].review = None /\ request[w].recorded_at # 0
        BY <1>1, <2>2 DEF SafePlans, PutDecision, Stamped
    <3>2. /\ decisions'[c][i].record = request[w].decision
          /\ decisions'[c][i].recorded_at = request[w].recorded_at
        BY <2>2 DEF Version
    <3>3. PICK item \in review_history :
              /\ item.case_id = request[w].case_id
              /\ item.actor.user_id = request[w].decision.assigned_reviewer_id
              /\ item.record = ReviewOf(request[w].decision)
              /\ item.recorded_at < request[w].recorded_at
        BY <1>2, <3>1, <3>2 DEF PlanKept, Settled
    <3>4. item \in review_history'
        BY <1>1
    <3>5. QED BY <2>2, <3>2, <3>3, <3>4
  <2>3. QED BY <1>1, <1>2, <2>1, <2>2, NewVersion
<1>3. QED BY <1>2 DEF CompletionsAdjudicated, Adjudicated, ReviewOf

LEMMA NextKeepsInv == Inv /\ [Next]_vars => Inv'
<1>1. SUFFICES ASSUME Inv, [Next]_vars PROVE Inv'
    OBVIOUS
<1>2. CASE Next
  <2>1. PICK w \in Workers : Step(w)
      BY <1>1, <1>2, NextIsStep DEF Inv
  <2>2. QED BY <1>1, <2>1, StepKeepsTypes, StepKeepsTimesPast, StepKeepsOwnTimes, StepKeepsSafePlans,
               StepKeepsVersionsBased, StepKeepsAdjudicated DEF Inv
<1>3. CASE UNCHANGED vars
  <2>1. /\ decisions' = decisions /\ decision_history' = decision_history
        /\ reviews' = reviews /\ review_history' = review_history
        /\ request' = request /\ clock' = clock
      BY <1>3 DEF vars, tables
  <2>2. TypeOK' /\ TimesPast'
      BY <1>1, <2>1 DEF Inv, TypeOK, TimesPast, Busy
  <2>3. OwnTimes'
      BY <1>1, <2>1 DEF Inv, OwnTimes, Stamped, Busy
  <2>4. SafePlans'
      BY <1>1, <2>1 DEF Inv, SafePlans, PlanKept, Based, Settled, Busy
  <2>5. VersionsHaveBasis' /\ CompletionsAdjudicated'
      BY <1>1, <2>1 DEF Inv, VersionsHaveBasis, HasBasis, CompletionsAdjudicated, Adjudicated
  <2>6. QED BY <2>2, <2>3, <2>4, <2>5 DEF Inv
<1>4. QED BY <1>1, <1>2, <1>3

\* The invariant holds for ever.
LEMMA StoreInv == Spec => []Inv
BY InitInv, NextKeepsInv, PTL DEF Spec

-----------------------------------------------------------------------------
(***************************************************************************)
(* The properties of the runs.                                             *)
(***************************************************************************)

\* Tables and planned writes are well typed, for every number of workers.
THEOREM StoreTyped == Spec => []TypeOK
<1>1. Inv => TypeOK
    BY DEF Inv
<1>2. QED BY <1>1, StoreInv, PTL

\* However stale a read was, the row it led to rests on a version put before it
\* with an earlier time.
THEOREM StoreVersionsBased == Spec => []VersionsHaveBasis
<1>1. Inv => VersionsHaveBasis
    BY DEF Inv
<1>2. QED BY <1>1, StoreInv, PTL

\* No row is ever put completed before its review is in the history.
THEOREM StoreCompletionsAdjudicated == Spec => []CompletionsAdjudicated
<1>1. Inv => CompletionsAdjudicated
    BY DEF Inv
<1>2. QED BY <1>1, StoreInv, PTL

-----------------------------------------------------------------------------
(***************************************************************************)
(* The two audit trails.                                                   *)
(***************************************************************************)

\* A save that has put its row and not yet its history item, of a decision or of
\* a review.
DecisionPut(w) == Busy(w) /\ request[w].review = None /\ request[w].row_put
ReviewPut(w) == Busy(w) /\ request[w].review # None /\ request[w].row_put

\* The pending events of the other workers.
OtherDecisions(w) == {DecisionItemOf(request[v]) : v \in {u \in Workers \ {w} : DecisionPut(u)}}
OtherReviews(w) == {ReviewItemOf(request[v]) : v \in {u \in Workers \ {w} : ReviewPut(u)}}

PendingDecisions ==
    {DecisionItemOf(request[w]) :
        w \in {v \in Workers : Busy(v) /\ request[v].review = None /\ request[v].row_put}}
PendingReviews ==
    {ReviewItemOf(request[w]) :
        w \in {v \in Workers : Busy(v) /\ request[v].review # None /\ request[v].row_put}}

\* The pending events are those of a worker and those of the others.
LEMMA PendingSplit ==
    ASSUME NEW w \in Workers
    PROVE  /\ PendingDecisions = OtherDecisions(w) \cup
                  (IF DecisionPut(w) THEN {DecisionItemOf(request[w])} ELSE {})
           /\ PendingReviews = OtherReviews(w) \cup
                  (IF ReviewPut(w) THEN {ReviewItemOf(request[w])} ELSE {})
BY DEF PendingDecisions, PendingReviews, OtherDecisions, OtherReviews, DecisionPut, ReviewPut

\* The same after a step, which leaves the others' events alone.
LEMMA PendingAfter ==
    ASSUME TypeOK, NEW w \in Workers, Step(w)
    PROVE  /\ PendingDecisions' = OtherDecisions(w) \cup
                  (IF DecisionPut(w)' THEN {DecisionItemOf(request'[w])} ELSE {})
           /\ PendingReviews' = OtherReviews(w) \cup
                  (IF ReviewPut(w)' THEN {ReviewItemOf(request'[w])} ELSE {})
<1>1. \A v \in Workers \ {w} : request'[v] = request[v]
    BY OthersWait
<1>2. OtherDecisions(w)' = OtherDecisions(w) /\ OtherReviews(w)' = OtherReviews(w)
    BY <1>1 DEF OtherDecisions, OtherReviews, DecisionPut, ReviewPut, Busy
<1>3. /\ PendingDecisions' = OtherDecisions(w)' \cup
             (IF DecisionPut(w)' THEN {DecisionItemOf(request'[w])} ELSE {})
      /\ PendingReviews' = OtherReviews(w)' \cup
             (IF ReviewPut(w)' THEN {ReviewItemOf(request'[w])} ELSE {})
    BY DEF PendingDecisions, PendingReviews, OtherDecisions, OtherReviews, DecisionPut, ReviewPut
<1>4. QED BY <1>2, <1>3

\* A save in progress shares its time with no pending event of another worker and
\* with no recorded one.
LEMMA TimesDiffer ==
    ASSUME Inv, NEW w \in Workers, Stamped(w)
    PROVE  /\ \A other \in OtherDecisions(w) \cup OtherReviews(w) :
                  other.recorded_at # request[w].recorded_at
           /\ \A other \in decision_history \cup review_history :
                  other.recorded_at # request[w].recorded_at
<1>1. ASSUME NEW v \in Workers, v # w, DecisionPut(v) \/ ReviewPut(v)
      PROVE  request[v].recorded_at # request[w].recorded_at
  <2>1. Stamped(v)
    <3>1. Busy(v) /\ request[v].row_put
        BY <1>1 DEF DecisionPut, ReviewPut
    <3>2. QED BY <3>1 DEF Inv, SafePlans, PlanKept, Stamped
  <2>2. QED BY <1>1, <2>1 DEF Inv, OwnTimes
<1>2. ASSUME NEW v \in Workers
      PROVE  /\ DecisionItemOf(request[v]).recorded_at = request[v].recorded_at
             /\ ReviewItemOf(request[v]).recorded_at = request[v].recorded_at
    BY DEF DecisionItemOf, ReviewItemOf
<1>3. \A other \in OtherDecisions(w) \cup OtherReviews(w) :
          other.recorded_at # request[w].recorded_at
    BY <1>1, <1>2 DEF OtherDecisions, OtherReviews
<1>4. QED BY <1>3 DEF Inv, OwnTimes

\* A request after a step, as far as the trails see it.
LEMMA PutAfter ==
    ASSUME Inv, NEW w \in Workers, Step(w)
    PROVE  /\ Planned(w) \/ StampSave(w) =>
                  /\ ~DecisionPut(w) /\ ~ReviewPut(w)
                  /\ ~DecisionPut(w)' /\ ~ReviewPut(w)'
           /\ PutReview(w) =>
                  /\ ~DecisionPut(w) /\ ~ReviewPut(w) /\ ~DecisionPut(w)' /\ ReviewPut(w)'
                  /\ ReviewItemOf(request'[w]) = ReviewItemOf(request[w])
           /\ PutDecision(w) =>
                  /\ ~DecisionPut(w) /\ ~ReviewPut(w) /\ DecisionPut(w)' /\ ~ReviewPut(w)'
                  /\ DecisionItemOf(request'[w]) = DecisionItemOf(request[w])
           /\ RecordReview(w) =>
                  ~DecisionPut(w) /\ ReviewPut(w) /\ ~DecisionPut(w)' /\ ~ReviewPut(w)'
           /\ RecordDecision(w) =>
                  DecisionPut(w) /\ ~ReviewPut(w) /\ ~DecisionPut(w)' /\ ~ReviewPut(w)'
           /\ AbortRequest(w) => ~DecisionPut(w)' /\ ~ReviewPut(w)'
<1>1. TypeOK /\ SafePlans
    BY DEF Inv
<1>2. ASSUME Planned(w)
      PROVE  ~DecisionPut(w) /\ ~ReviewPut(w) /\ ~DecisionPut(w)' /\ ~ReviewPut(w)'
  <2>1. PICK user \in AuthContexts, c \in Cases, event \in DecisionEvent,
             review \in ReviewRecord \cup {None}, decision \in DecisionRecord :
                 ~Busy(w) /\ Plan(w, c, event, user, review, decision)
      BY <1>2 DEF Planned
  <2>2. request'[w] = [case_id |-> c, event_type |-> event, actor |-> user, review |-> review,
                       decision |-> decision, recorded_at |-> 0, row_put |-> FALSE]
      BY <1>1, <2>1 DEF Plan, TypeOK
  <2>3. request'[w].row_put = FALSE
      BY <2>2
  <2>4. QED BY <2>1, <2>3 DEF DecisionPut, ReviewPut
<1>3. ASSUME StampSave(w)
      PROVE  ~DecisionPut(w) /\ ~ReviewPut(w) /\ ~DecisionPut(w)' /\ ~ReviewPut(w)'
  <2>1. Busy(w) /\ request[w].recorded_at = 0 /\ ~request[w].row_put
      BY <1>1, <1>3 DEF StampSave, Stamped, SafePlans, PlanKept
  <2>2. ~PutReview(w) /\ ~PutDecision(w) /\ ~RecordReview(w)
      BY <2>1 DEF PutReview, PutDecision, RecordReview, Stamped
  <2>3. request'[w].row_put = request[w].row_put
      BY <1>1, <1>3, <2>1, <2>2, FieldsAfter
  <2>4. QED BY <2>1, <2>3 DEF DecisionPut, ReviewPut
<1>4. ASSUME PutReview(w) \/ PutDecision(w)
      PROVE  /\ Busy(w) /\ Busy(w)' /\ ~request[w].row_put /\ request'[w].row_put = TRUE
             /\ request'[w].review = request[w].review
             /\ ReviewItemOf(request'[w]) = ReviewItemOf(request[w])
             /\ DecisionItemOf(request'[w]) = DecisionItemOf(request[w])
  <2>1. Busy(w) /\ ~request[w].row_put
      BY <1>4 DEF PutReview, PutDecision, Stamped
  <2>2. ~StampSave(w) /\ ~RecordReview(w)
      BY <1>4 DEF StampSave, RecordReview, PutReview, PutDecision
  <2>3. /\ request'[w].case_id = request[w].case_id
        /\ request'[w].event_type = request[w].event_type
        /\ request'[w].actor = request[w].actor
        /\ request'[w].decision = request[w].decision
        /\ request'[w].review = request[w].review
        /\ request'[w].recorded_at = request[w].recorded_at
        /\ request'[w].row_put = TRUE
      BY <1>1, <1>4, <2>1, <2>2, FieldsAfter
  <2>4. Busy(w)'
    <3>1. request[w] \in Request
        BY <1>1, <2>1, BusyRequest
    <3>2. request'[w].event_type # "none"
        BY <2>3, <3>1 DEF Request, DecisionEvent
    <3>3. QED BY <3>2 DEF Busy, NoRequest
  <2>5. QED BY <2>1, <2>3, <2>4 DEF ReviewItemOf, DecisionItemOf
<1>5. ASSUME RecordReview(w)
      PROVE  ReviewPut(w) /\ ~DecisionPut(w) /\ ~DecisionPut(w)' /\ ~ReviewPut(w)'
  <2>1. Busy(w) /\ request[w].review # None /\ request[w].row_put
      BY <1>5 DEF RecordReview, Stamped
  <2>2. ~StampSave(w) /\ ~PutReview(w) /\ ~PutDecision(w)
      BY <1>5 DEF RecordReview, StampSave, PutReview, PutDecision
  <2>3. request'[w].row_put = FALSE
      BY <1>1, <1>5, <2>1, <2>2, FieldsAfter
  <2>4. QED BY <2>1, <2>3 DEF ReviewPut, DecisionPut
<1>6. ASSUME RecordDecision(w) \/ AbortRequest(w)
      PROVE  ~DecisionPut(w)' /\ ~ReviewPut(w)'
    BY <1>1, <1>6, RequestAfter DEF DecisionPut, ReviewPut, Busy
<1>7. ASSUME RecordDecision(w)
      PROVE  DecisionPut(w) /\ ~ReviewPut(w)
    BY <1>7 DEF RecordDecision, Stamped, DecisionPut, ReviewPut
<1>8. PutReview(w) => request[w].review # None
    BY DEF PutReview
<1>9. PutDecision(w) => request[w].review = None
    BY DEF PutDecision
<1>10. QED BY <1>2, <1>3, <1>4, <1>5, <1>6, <1>7, <1>8, <1>9 DEF DecisionPut, ReviewPut

\* A step of a trail, by its event.
LEMMA TrailSteps ==
    /\ \A event \in PendingDecisions' : DecisionTrail!Write(event) => DecisionTrail!Next
    /\ \A event \in PendingDecisions :
           DecisionTrail!Record(event) \/ DecisionTrail!Lose(event) => DecisionTrail!Next
    /\ \A event \in PendingReviews' : ReviewTrail!Write(event) => ReviewTrail!Next
    /\ \A event \in PendingReviews :
           ReviewTrail!Record(event) \/ ReviewTrail!Lose(event) => ReviewTrail!Next
BY DEF DecisionTrail!Next, ReviewTrail!Next, PendingDecisions, PendingReviews

\* A step of the store is a step of the trail of decisions, or none.
LEMMA DecisionTrailStep ==
    ASSUME Inv, NEW w \in Workers, Step(w)
    PROVE  DecisionTrail!Next \/ UNCHANGED DecisionTrail!vars
<1>0. PICK event : event = DecisionItemOf(request[w])
    OBVIOUS
<1>1. TypeOK
    BY DEF Inv
<1>2. /\ PendingDecisions = OtherDecisions(w) \cup (IF DecisionPut(w) THEN {event} ELSE {})
      /\ PendingDecisions' = OtherDecisions(w) \cup
             (IF DecisionPut(w)' THEN {DecisionItemOf(request'[w])} ELSE {})
    BY <1>0, <1>1, PendingSplit, PendingAfter
<1>3. event.case_id = request[w].case_id /\ event.recorded_at = request[w].recorded_at
      /\ event.record = request[w].decision
    BY <1>0 DEF DecisionItemOf
<1>4. CASE PutDecision(w)
  <2>1. PendingDecisions = OtherDecisions(w) /\ PendingDecisions' = OtherDecisions(w) \cup {event}
      BY <1>0, <1>2, <1>4, PutAfter
  <2>2. Stamped(w) /\ event.case_id \in Cases
      BY <1>1, <1>3, <1>4, BusyRequest DEF PutDecision, Stamped
  <2>3. \A other \in PendingDecisions \cup decision_history : other.recorded_at # event.recorded_at
      BY <1>3, <2>1, <2>2, TimesDiffer
  <2>4. /\ decisions' = [decisions EXCEPT ![event.case_id] =
               Append(@, [recorded_at |-> event.recorded_at, record |-> event.record])]
        /\ decision_history' = decision_history
      BY <1>3, <1>4 DEF PutDecision, Version
  <2>5. event \in PendingDecisions' /\ PendingDecisions' = PendingDecisions \cup {event}
      BY <2>1
  <2>6. DecisionTrail!Write(event)
      BY <2>2, <2>3, <2>4, <2>5 DEF DecisionTrail!Write, DecisionTrail!VersionOf, PendingDecisions
  <2>7. QED BY <2>5, <2>6, TrailSteps
<1>5. CASE RecordDecision(w)
  <2>1. PendingDecisions = OtherDecisions(w) \cup {event} /\ PendingDecisions' = OtherDecisions(w)
      BY <1>2, <1>5, PutAfter
  <2>2. event \notin OtherDecisions(w)
    <3>1. Stamped(w)
        BY <1>5 DEF RecordDecision
    <3>2. QED BY <1>3, <3>1, TimesDiffer
  <2>3. event \in PendingDecisions /\ PendingDecisions' = PendingDecisions \ {event}
      BY <2>1, <2>2
  <2>4. decisions' = decisions /\ decision_history' = decision_history \cup {event}
      BY <1>0, <1>5 DEF RecordDecision
  <2>5. DecisionTrail!Record(event)
      BY <2>3, <2>4 DEF DecisionTrail!Record, PendingDecisions
  <2>6. QED BY <2>3, <2>5, TrailSteps
<1>6. CASE AbortRequest(w)
  <2>1. decisions' = decisions /\ decision_history' = decision_history
      BY <1>6 DEF AbortRequest, tables
  <2>2. PendingDecisions' = OtherDecisions(w)
      BY <1>2, <1>6, PutAfter
  <2>3. CASE DecisionPut(w)
    <3>1. event \notin OtherDecisions(w)
      <4>1. Stamped(w)
          BY <2>3 DEF DecisionPut, Inv, SafePlans, PlanKept, Stamped
      <4>2. QED BY <1>3, <4>1, TimesDiffer
    <3>2. event \in PendingDecisions /\ PendingDecisions' = PendingDecisions \ {event}
        BY <1>2, <2>2, <2>3, <3>1
    <3>3. DecisionTrail!Lose(event)
        BY <2>1, <3>2 DEF DecisionTrail!Lose, PendingDecisions
    <3>4. QED BY <3>2, <3>3, TrailSteps
  <2>4. CASE ~DecisionPut(w)
    <3>1. PendingDecisions' = PendingDecisions
        BY <1>2, <2>2, <2>4
    <3>2. QED BY <2>1, <3>1 DEF DecisionTrail!vars, PendingDecisions
  <2>5. QED BY <2>3, <2>4
<1>7. CASE Planned(w) \/ StampSave(w) \/ PutReview(w) \/ RecordReview(w)
  <2>1. decisions' = decisions /\ decision_history' = decision_history
      BY <1>7 DEF Planned, Plan, StampSave, PutReview, RecordReview, tables
  <2>2. PendingDecisions' = PendingDecisions
      BY <1>2, <1>7, PutAfter
  <2>3. QED BY <2>1, <2>2 DEF DecisionTrail!vars, PendingDecisions
<1>8. QED BY <1>4, <1>5, <1>6, <1>7 DEF Step

\* A step of the store is a step of the trail of reviews, or none.
LEMMA ReviewTrailStep ==
    ASSUME Inv, NEW w \in Workers, Step(w)
    PROVE  ReviewTrail!Next \/ UNCHANGED ReviewTrail!vars
<1>0. PICK event : event = ReviewItemOf(request[w])
    OBVIOUS
<1>1. TypeOK
    BY DEF Inv
<1>2. /\ PendingReviews = OtherReviews(w) \cup (IF ReviewPut(w) THEN {event} ELSE {})
      /\ PendingReviews' = OtherReviews(w) \cup
             (IF ReviewPut(w)' THEN {ReviewItemOf(request'[w])} ELSE {})
    BY <1>0, <1>1, PendingSplit, PendingAfter
<1>3. event.case_id = request[w].case_id /\ event.recorded_at = request[w].recorded_at
      /\ event.record = request[w].review
    BY <1>0 DEF ReviewItemOf
<1>4. CASE PutReview(w)
  <2>1. PendingReviews = OtherReviews(w) /\ PendingReviews' = OtherReviews(w) \cup {event}
      BY <1>0, <1>2, <1>4, PutAfter
  <2>2. Stamped(w) /\ event.case_id \in Cases
      BY <1>1, <1>3, <1>4, BusyRequest DEF PutReview, Stamped
  <2>3. \A other \in PendingReviews \cup review_history : other.recorded_at # event.recorded_at
      BY <1>3, <2>1, <2>2, TimesDiffer
  <2>4. /\ reviews' = [reviews EXCEPT ![event.case_id] =
               Append(@, [recorded_at |-> event.recorded_at, record |-> event.record])]
        /\ review_history' = review_history
      BY <1>3, <1>4 DEF PutReview, Version
  <2>5. event \in PendingReviews' /\ PendingReviews' = PendingReviews \cup {event}
      BY <2>1
  <2>6. ReviewTrail!Write(event)
      BY <2>2, <2>3, <2>4, <2>5 DEF ReviewTrail!Write, ReviewTrail!VersionOf, PendingReviews
  <2>7. QED BY <2>5, <2>6, TrailSteps
<1>5. CASE RecordReview(w)
  <2>1. PendingReviews = OtherReviews(w) \cup {event} /\ PendingReviews' = OtherReviews(w)
      BY <1>2, <1>5, PutAfter
  <2>2. event \notin OtherReviews(w)
    <3>1. Stamped(w)
        BY <1>5 DEF RecordReview
    <3>2. QED BY <1>3, <3>1, TimesDiffer
  <2>3. event \in PendingReviews /\ PendingReviews' = PendingReviews \ {event}
      BY <2>1, <2>2
  <2>4. reviews' = reviews /\ review_history' = review_history \cup {event}
      BY <1>0, <1>5 DEF RecordReview
  <2>5. ReviewTrail!Record(event)
      BY <2>3, <2>4 DEF ReviewTrail!Record, PendingReviews
  <2>6. QED BY <2>3, <2>5, TrailSteps
<1>6. CASE AbortRequest(w)
  <2>1. reviews' = reviews /\ review_history' = review_history
      BY <1>6 DEF AbortRequest, tables
  <2>2. PendingReviews' = OtherReviews(w)
      BY <1>2, <1>6, PutAfter
  <2>3. CASE ReviewPut(w)
    <3>1. event \notin OtherReviews(w)
      <4>1. Stamped(w)
          BY <2>3 DEF ReviewPut, Inv, SafePlans, PlanKept, Stamped
      <4>2. QED BY <1>3, <4>1, TimesDiffer
    <3>2. event \in PendingReviews /\ PendingReviews' = PendingReviews \ {event}
        BY <1>2, <2>2, <2>3, <3>1
    <3>3. ReviewTrail!Lose(event)
        BY <2>1, <3>2 DEF ReviewTrail!Lose, PendingReviews
    <3>4. QED BY <3>2, <3>3, TrailSteps
  <2>4. CASE ~ReviewPut(w)
    <3>1. PendingReviews' = PendingReviews
        BY <1>2, <2>2, <2>4
    <3>2. QED BY <2>1, <3>1 DEF ReviewTrail!vars, PendingReviews
  <2>5. QED BY <2>3, <2>4
<1>7. CASE Planned(w) \/ StampSave(w) \/ PutDecision(w) \/ RecordDecision(w)
  <2>1. reviews' = reviews /\ review_history' = review_history
      BY <1>7 DEF Planned, Plan, StampSave, PutDecision, RecordDecision, tables
  <2>2. PendingReviews' = PendingReviews
      BY <1>2, <1>7, PutAfter
  <2>3. QED BY <2>1, <2>2 DEF ReviewTrail!vars, PendingReviews
<1>8. QED BY <1>4, <1>5, <1>6, <1>7 DEF Step

\* The store implements the trail of decisions: an event is recorded after its row,
\* as it was put, at most once and at a time of its own.
THEOREM StoreTrailsDecisions == Spec => DecisionsTrailed
<1>1. Init => DecisionTrail!Init
  <2>1. Init => PendingDecisions = {}
      BY DEF Init, PendingDecisions, Busy
  <2>2. QED BY <2>1 DEF Init, DecisionTrail!Init, PendingDecisions
<1>2. Inv /\ [Next]_vars => [DecisionTrail!Next]_(DecisionTrail!vars)
  <2>1. SUFFICES ASSUME Inv, [Next]_vars PROVE [DecisionTrail!Next]_(DecisionTrail!vars)
      OBVIOUS
  <2>2. CASE Next
    <3>1. PICK w \in Workers : Step(w)
        BY <2>1, <2>2, NextIsStep DEF Inv
    <3>2. QED BY <2>1, <3>1, DecisionTrailStep
  <2>3. CASE UNCHANGED vars
      BY <2>3 DEF vars, tables, DecisionTrail!vars, Busy
  <2>4. QED BY <2>1, <2>2, <2>3
<1>3. QED BY <1>1, <1>2, StoreInv, PTL DEF Spec, DecisionsTrailed, DecisionTrail!Spec

\* And that of reviews.
THEOREM StoreTrailsReviews == Spec => ReviewsTrailed
<1>1. Init => ReviewTrail!Init
  <2>1. Init => PendingReviews = {}
      BY DEF Init, PendingReviews, Busy
  <2>2. QED BY <2>1 DEF Init, ReviewTrail!Init, PendingReviews
<1>2. Inv /\ [Next]_vars => [ReviewTrail!Next]_(ReviewTrail!vars)
  <2>1. SUFFICES ASSUME Inv, [Next]_vars PROVE [ReviewTrail!Next]_(ReviewTrail!vars)
      OBVIOUS
  <2>2. CASE Next
    <3>1. PICK w \in Workers : Step(w)
        BY <2>1, <2>2, NextIsStep DEF Inv
    <3>2. QED BY <2>1, <3>1, ReviewTrailStep
  <2>3. CASE UNCHANGED vars
      BY <2>3 DEF vars, tables, ReviewTrail!vars, Busy
  <2>4. QED BY <2>1, <2>2, <2>3
<1>3. QED BY <1>1, <1>2, StoreInv, PTL DEF Spec, ReviewsTrailed, ReviewTrail!Spec
=============================================================================
