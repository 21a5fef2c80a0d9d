------------------------------ MODULE MCDynamo ------------------------------
(***************************************************************************)
(* Small instances of the DynamoDB store for TLC.                          *)
(***************************************************************************)
EXTENDS DynamoStore, TLC

CONSTANTS ana, mia, w1, w2

\* A manager, who may do everything; ana is only named as a reviewer.
MCUsers == {[user_id |-> mia, role |-> "compliance_manager"]}

MCVerdicts == {[decision |-> "blocked", risk_band |-> "critical"]}

MCSubmissions == {[outcome |-> "rejected", final_decision |-> "blocked"]}

WorkerSymmetry == Permutations(Workers)
=============================================================================
