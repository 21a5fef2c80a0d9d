------------------------- MODULE ReviewProperties --------------------------
(***************************************************************************)
(* What the review service promises, stated over its tables.               *)
(***************************************************************************)
EXTENDS ReviewService

Lifecycle == INSTANCE ReviewLifecycle
    WITH case <- [c \in Cases |-> View(decisions[c])], Nobody <- None

DecisionLedger == INSTANCE AuditLedger
    WITH Keys <- Cases, Null <- None, log <- decision_history, current <- decisions

ReviewLedger == INSTANCE AuditLedger
    WITH Keys <- Cases, Null <- None, log <- review_history, current <- reviews

-----------------------------------------------------------------------------
(***************************************************************************)
(* With any number of handlers at once.                                    *)
(***************************************************************************)

\* The tables and the planned writes hold records of their types.
TypeOK ==
    /\ decisions \in [Cases -> DecisionRecord \cup {None}]
    /\ decision_history \in Seq(DecisionEntry)
    /\ reviews \in [Cases -> ReviewRecord \cup {None}]
    /\ review_history \in Seq(ReviewEntry)
    /\ request \in [Workers -> Request \cup {NoRequest}]

\* However handlers overlap, the fields of a stored row agree with each other:
\* a row is under review exactly in an active status, a completed row names
\* its reviewer and outcome, a reopened one has forgotten them.
RowsConsistent ==
    \A c \in Cases : decisions[c] # None => Consistent(decisions[c])

\* The decision tables are an append-only ledger: a row never changes without
\* its event, and no event is rewritten or lost (save_decision's transaction).
DecisionsAudited == DecisionLedger!Spec

\* The same of the review tables (save_review's transaction).
ReviewsAudited == ReviewLedger!Spec

\* The review that adjudicates a decision this user completed.
Adjudication(user, decision) ==
    [reviewer_id |-> user.user_id,
     outcome |-> decision.final_reviewer_outcome,
     final_decision |-> decision.decision]

Adjudicated(case_id, user, decision) ==
    /\ decision.assigned_reviewer_id = user.user_id
    /\ \E j \in 1 .. Len(review_history) :
           /\ review_history[j].case_id = case_id
           /\ review_history[j].actor = user
           /\ review_history[j].record = Adjudication(user, decision)

\* A completion in the history was adjudicated: its actor had stored, before,
\* a review of that case in his own name with that outcome and that decision,
\* also when the process stopped between the two transactions of submit_review.
CompletionsAdjudicated ==
    \A i \in 1 .. Len(decision_history) :
        decision_history[i].event_type = "review_completed" =>
            Adjudicated(decision_history[i].case_id, decision_history[i].actor,
                        decision_history[i].record)

\* The event starts the case afresh, or follows one of its first n records.
HasBasis(case_id, event_type, decision, n) ==
    IF event_type = "decision_evaluated" THEN Lifecycle!Evaluated(View(decision))
    ELSE \E j \in 1 .. n :
             /\ decision_history[j].case_id = case_id
             /\ Lifecycle!Follows(View(decision_history[j].record), View(decision))

\* Every event of the history is a legal step from a state the case had been
\* recorded in: nobody settles what was never open to him, reopens what was
\* never settled, skips a review cycle, or changes the band an evaluation gave.
\* With overlapping handlers that state need not be the last one.
EventsHaveBasis ==
    \A i \in 1 .. Len(decision_history) :
        HasBasis(decision_history[i].case_id, decision_history[i].event_type,
                 decision_history[i].record, i - 1)

\* A stored row is one that was recorded.
RowsRecorded ==
    \A c \in Cases : decisions[c] # None =>
        \E j \in 1 .. Len(decision_history) :
            decision_history[j].case_id = c /\ decision_history[j].record = decisions[c]

\* What makes a handler's outstanding writes safe at any later time.
SafeToWrite(r) ==
    /\ Consistent(r.decision)
    /\ HasBasis(r.case_id, r.event_type, r.decision, Len(decision_history))
    /\ r.event_type = "review_completed" =>
           IF r.review = None THEN Adjudicated(r.case_id, r.actor, r.decision)
           ELSE /\ r.review = Adjudication(r.actor, r.decision)
                /\ r.decision.assigned_reviewer_id = r.actor.user_id

\* However long a handler sleeps between its read and its writes, and whatever
\* the others do meanwhile, what it still has to write has a basis in the
\* history and, for a completion, its review is the next write or was stored.
PendingWritesSafe == \A w \in Workers : Busy(w) => SafeToWrite(request[w])

\* The inductive invariant of the service with any number of handlers.
ServiceInvariant ==
    /\ TypeOK
    /\ RowsConsistent
    /\ RowsRecorded
    /\ PendingWritesSafe
    /\ CompletionsAdjudicated
    /\ EventsHaveBasis

-----------------------------------------------------------------------------
(***************************************************************************)
(* With one handler at a time.                                             *)
(***************************************************************************)

\* Each case moves as the lifecycle says, each event from the state the case
\* is in.  Refusals, aborted requests and the review table are stutters.
FollowsLifecycle == Lifecycle!Spec

\* A completed decision is what the stored review says, and vice versa: the
\* two transactions of submit_review leave no completed case with another
\* reviewer's verdict.
ReviewMatchesDecision ==
    \A c \in Cases :
        decisions[c] # None /\ decisions[c].review_status = "completed" =>
            reviews[c] = [reviewer_id |-> decisions[c].assigned_reviewer_id,
                          outcome |-> decisions[c].final_reviewer_outcome,
                          final_decision |-> decisions[c].decision]

-----------------------------------------------------------------------------
(***************************************************************************)
(* What the documentation and the error messages say, and overlapping      *)
(* handlers do not keep.                                                   *)
(***************************************************************************)

\* A completed case stays completed until it is reopened or evaluated again:
\* that is what the refusals "Decision does not require human review" and
\* "Review has already been completed" of assign_review, start_review and
\* submit_review are for.
CompletedUntilReopened ==
    [][\A c \in Cases :
          decisions[c] # None /\ decisions[c].review_status = "completed"
              /\ decisions'[c].review_status # "completed" =>
          decision_history'[Len(decision_history')].event_type
              \in {"case_reopened", "decision_evaluated"}]_vars

\* Once every handler has ended, a completed decision and the stored review
\* say the same: "assignment, start, submit, and reopen lifecycle transitions
\* persist correctly".
QuietTablesAgree == (\A w \in Workers : ~Busy(w)) => ReviewMatchesDecision
=============================================================================
