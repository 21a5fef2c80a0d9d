----------------------------- MODULE MCCatalog ------------------------------
(***************************************************************************)
(* A small instance of the catalogs for TLC.                               *)
(***************************************************************************)
EXTENDS CatalogHistory, TLC

CONSTANTS v09, v10, spend, gifts

\* The files in the order of their names.
MCRank == spend :> 2 @@ gifts :> 1

\* An old rule without a minimum, one at its minimum, one under a lower minimum,
\* and one looser than its minimum.
MCShipped ==
    {[policy_version |-> v09, escalation_trigger |-> 2, minimum_threshold |-> None],
     [policy_version |-> v09, escalation_trigger |-> 2, minimum_threshold |-> 2],
     [policy_version |-> v10, escalation_trigger |-> 1, minimum_threshold |-> 1],
     [policy_version |-> v10, escalation_trigger |-> 2, minimum_threshold |-> 1]}

\* Metadata from before there were triggers and policy references, from before
\* there were references, and without a version.
MCLegacy ==
    {[policy_version |-> v09],
     [policy_version |-> v09, escalation_trigger |-> 2],
     [escalation_trigger |-> 2]}

CaseSymmetry == Permutations(Cases)
=============================================================================
