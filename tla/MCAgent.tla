------------------------------ MODULE MCAgent -------------------------------
(***************************************************************************)
(* Small instances of the triage agent for TLC.                            *)
(***************************************************************************)
EXTENDS TriageAgent, TLC

CONSTANTS bot, mia, w1, w2

MCAgent == [user_id |-> bot, role |-> "compliance_manager"]
MCUsers == {[user_id |-> mia, role |-> "compliance_analyst"]}

\* Under review at high risk, and at medium risk.
MCVerdicts ==
    {[decision |-> "blocked", risk_band |-> "critical"],
     [decision |-> "insufficient_evidence", risk_band |-> "medium"]}

MCSubmissions == {[outcome |-> "rejected", final_decision |-> "blocked"]}

WorkerSymmetry == Permutations(Workers)
=============================================================================
