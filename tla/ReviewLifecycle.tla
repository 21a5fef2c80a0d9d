-------------------------- MODULE ReviewLifecycle --------------------------
(***************************************************************************)
(* What the review workflow promises of one case, each operation taken at  *)
(* once: an evaluation opens or closes the case, an open one is assigned   *)
(* to a reviewer, the reviewer who holds it works on it and settles it, a  *)
(* settled one is reopened into the next cycle.  Nothing else moves it.    *)
(***************************************************************************)
EXTENDS Integers

CONSTANTS
    Cases,
    Nobody   \* no reviewer holds the case

VARIABLE case  \* for each case its stage, cycle, reviewer, decision, ...

Absent == [stage |-> "absent"]

Init == case = [c \in Cases |-> Absent]

\* Under review: waiting for its reviewer, or in the hands of one.
Open(s) == s.stage \in {"waiting", "working"}

\* A new evaluation, whatever became of an earlier one.
Evaluated(new) ==
    /\ new.stage \in {"closed", "waiting"}
    /\ new.stage = "closed" => new.decision = "approved" /\ new.risk_band = "low"
    /\ new.cycle = 1
    /\ new.reviewer = Nobody

\* The case is the same in these respects.
Keeps(old, new, fields) == \A f \in fields : new[f] = old[f]

\* Whoever held the case, it is now up to this reviewer.
Assigned(old, new) ==
    /\ Open(old)
    /\ new.stage = "waiting"
    /\ new.reviewer # Nobody
    /\ Keeps(old, new, {"cycle", "decision", "risk_band"})

Started(old, new) ==
    /\ Open(old)
    /\ new.stage = "working"
    /\ new.reviewer # Nobody
    /\ old.reviewer \in {Nobody, new.reviewer}
    /\ Keeps(old, new, {"cycle", "decision", "risk_band"})

Settled(old, new) ==
    /\ Open(old)
    /\ new.stage = "settled"
    /\ new.reviewer # Nobody
    /\ old.reviewer \in {Nobody, new.reviewer}
    /\ new.decision # "human_review_required"
    /\ Keeps(old, new, {"cycle", "risk_band"})

Reopened(old, new) ==
    /\ old.stage = "settled"
    /\ new.stage = "waiting"
    /\ new.cycle = old.cycle + 1
    /\ new.reviewer = Nobody
    /\ new.decision = "human_review_required"
    /\ Keeps(old, new, {"risk_band"})

\* new may come after old.
Follows(old, new) ==
    Assigned(old, new) \/ Started(old, new) \/ Settled(old, new) \/ Reopened(old, new)

Step(c) ==
    /\ case' = [case EXCEPT ![c] = case'[c]]
    /\ Evaluated(case'[c]) \/ Follows(case[c], case'[c])

Next == \E c \in Cases : Step(c)

Spec == Init /\ [][Next]_case
=============================================================================
