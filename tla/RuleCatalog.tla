---------------------------- MODULE RuleCatalog ----------------------------
(***************************************************************************)
(* The control catalogs of data/rules as app/engine.py loads them, and the *)
(* rule metadata of stored decisions as app/storage_common.py reads them.  *)
(*                                                                         *)
(* The files are read anew for every request, in the order of their names. *)
(* Of a rule are kept its version, one escalation trigger, and the         *)
(* regulatory minimum that an external reference sets for that trigger.    *)
(* Metadata stored by an older release may lack fields; those without a    *)
(* default are Required.                                                   *)
(*                                                                         *)
(* MergedCurrentFirst, MergedStrictly and MergedFreshMinimum are slips of  *)
(* Merged, which follows them.                                             *)
(***************************************************************************)
EXTENDS Integers, FiniteSets, Functions

CONSTANTS
    Controls,     \* control ids
    Versions,     \* policy versions
    Thresholds,   \* values of the trigger and of the minimum
    Rank,         \* the place of each control's file in the order of file names
    Broken,       \* a file that is no rule at all
    None

ASSUME CatalogAssumption ==
    /\ Thresholds \subseteq Nat
    /\ None \notin Thresholds \cup Versions
    /\ Rank \in [Controls -> Nat]
    /\ \A j, k \in Controls : Rank[j] = Rank[k] => j = k

RuleField == {"policy_version", "escalation_trigger", "minimum_threshold"}
Required == {"policy_version"}

Rule ==
    [policy_version : Versions,
     escalation_trigger : Thresholds \cup {None},
     minimum_threshold : Thresholds \cup {None}]

\* The files: a rule for each control that has one.  Broken stands for a file that
\* cannot be opened, or is not an object: load_rules raises an OSError or a
\* TypeError.  A file that is not JSON, or lacks a field, raises a ValueError, as
\* a rule in conflict does, and is not told apart from that.
Catalog == [Controls -> Rule \cup {None, Broken}]

\* Rule metadata as stored, with the fields that its release knew.
Stored == {Restrict(rule, fields) : rule \in Rule, fields \in SUBSET RuleField}

\* validate_no_internal_policy_conflicts: the trigger is looser than its minimum.
Conflicting(rule) ==
    /\ rule.escalation_trigger # None
    /\ rule.minimum_threshold # None
    /\ rule.escalation_trigger > rule.minimum_threshold

\* load_rules raises when it comes to this file.
Raises(file) == file = Broken \/ (file # None /\ Conflicting(file))

LoadFails(catalog) == \E k \in Controls : Raises(catalog[k])

\* The first file that raises is a broken one: its exception is not the ValueError
\* that the codec catches.
Escapes(catalog) ==
    \E k \in Controls :
        /\ catalog[k] = Broken
        /\ \A j \in Controls : Raises(catalog[j]) => Rank[k] <= Rank[j]

\* load_rule finds the rule: no file raises, and the control has one.
Loads(catalog, control) == ~LoadFails(catalog) /\ catalog[control] # None

MergedCurrentFirst(catalog, control, stored) ==
    IF Loads(catalog, control)
    THEN [f \in RuleField |-> catalog[control][f]]
    ELSE stored

MergedStrictly(catalog, control, stored) ==
    IF Loads(catalog, control)
    THEN [f \in RuleField |->
            IF f \in DOMAIN stored THEN stored[f] ELSE catalog[control][f]]
    ELSE [f \in {} |-> None]

MergedFreshMinimum(catalog, control, stored) ==
    IF Loads(catalog, control)
    THEN [f \in RuleField |->
            IF f \in DOMAIN stored \ {"minimum_threshold"} THEN stored[f] ELSE catalog[control][f]]
    ELSE stored

\* deserialize_decision: what was stored wins, what it lacks is filled in from the
\* current rule, if that can be loaded.
Merged(catalog, control, stored) ==
    IF Loads(catalog, control)
    THEN [f \in RuleField |->
            IF f \in DOMAIN stored THEN stored[f] ELSE catalog[control][f]]
    ELSE stored

\* deserialize_decision returns: load_rule raised nothing but a ValueError, and
\* DecisionRecord(**raw_record) is valid.
Readable(catalog, control, stored) ==
    ~Escapes(catalog) /\ Required \subseteq DOMAIN Merged(catalog, control, stored)

\* The record that is read, with the defaults of what is still missing.
Decoded(catalog, control, stored) ==
    LET merged == Merged(catalog, control, stored)
    IN  [f \in RuleField |-> IF f \in DOMAIN merged THEN merged[f] ELSE None]
=============================================================================
