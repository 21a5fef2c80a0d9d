--------------------------- MODULE CatalogHistory ---------------------------
(***************************************************************************)
(* Decisions outlive the catalogs they were made under: catalogs are       *)
(* changed, withdrawn, deployed in conflict or broken while stored         *)
(* decisions are read, worked on and written back.                         *)
(*                                                                         *)
(* A stored decision keeps the rule metadata it was evaluated under.  The  *)
(* workflow reads it with what the codec fills in and writes it back so    *)
(* (Load, Save); the catalogs may change in between, and so may the row.   *)
(* governing is not in the program: what the metadata said when the        *)
(* decision was made.                                                      *)
(* EvaluateUnknown and DashboardOfLoaded are slips of the definitions that *)
(* follow them.                                                            *)
(***************************************************************************)
EXTENDS RuleCatalog

CONSTANTS
    Cases,
    Shipped,    \* the rules that are ever put into the directory
    Legacy,     \* the metadata of decisions that an older release stored
    MaxDeploys  \* no catalog is changed once this many changes were made

ASSUME HistoryAssumption ==
    /\ Shipped \subseteq Rule
    /\ Legacy \subseteq Stored
    /\ MaxDeploys \in Nat

VARIABLES
    catalog,
    deploys,
    rows,     \* the stored decision of each case, or None
    pending   \* the decision that a handler has loaded and not yet saved, or None

vars == <<catalog, deploys, rows, pending>>

File == Shipped \cup {None, Broken}

Row ==
    [control_id : Controls, rule_metadata : Stored, governing : Stored, review_required : BOOLEAN]

\* The store of an older release, under catalogs that load.
Init ==
    /\ catalog \in {files \in [Controls -> File] : ~LoadFails(files)}
    /\ deploys = 0
    /\ rows \in [Cases -> {None} \cup
           {[control_id |-> k, rule_metadata |-> stored, governing |-> stored,
             review_required |-> TRUE] : k \in Controls, stored \in Legacy}]
    /\ pending = None

\* One file of the directory is replaced, added or removed.
Deploy(control, file) ==
    /\ deploys < MaxDeploys
    /\ deploys' = deploys + 1
    /\ catalog' = [catalog EXCEPT ![control] = file]
    /\ UNCHANGED <<rows, pending>>

EvaluateUnknown(case_id, control, review_required) ==
    /\ ~LoadFails(catalog)
    /\ rows' = [rows EXCEPT ![case_id] =
           [control_id |-> control, rule_metadata |-> catalog[control],
            governing |-> catalog[control], review_required |-> review_required]]
    /\ UNCHANGED <<catalog, deploys, pending>>

\* evaluate_vendor_case under the rule as it is now, and save_decision.
Evaluate(case_id, control, review_required) ==
    /\ Loads(catalog, control)
    /\ rows' = [rows EXCEPT ![case_id] =
           [control_id |-> control, rule_metadata |-> catalog[control],
            governing |-> catalog[control], review_required |-> review_required]]
    /\ UNCHANGED <<catalog, deploys, pending>>

\* get_decision, and what a handler of the workflow makes of it.
Load(case_id, review_required) ==
    /\ pending = None
    /\ rows[case_id] # None
    /\ Readable(catalog, rows[case_id].control_id, rows[case_id].rule_metadata)
    /\ pending' = [case_id |-> case_id,
                   row |-> [rows[case_id] EXCEPT
                       !.rule_metadata = Decoded(catalog, rows[case_id].control_id, @),
                       !.review_required = review_required]]
    /\ UNCHANGED <<catalog, deploys, rows>>

Save ==
    /\ pending # None
    /\ rows' = [rows EXCEPT ![pending.case_id] = pending.row]
    /\ pending' = None
    /\ UNCHANGED <<catalog, deploys>>

Next ==
    \/ \E control \in Controls, file \in File : Deploy(control, file)
    \/ \E case_id \in Cases, review_required \in BOOLEAN :
           \/ \E control \in Controls : Evaluate(case_id, control, review_required)
           \/ Load(case_id, review_required)
    \/ Save

Spec == Init /\ [][Next]_vars

-----------------------------------------------------------------------------
Held == {c \in Cases : rows[c] # None}

RowsOf(control) == {c \in Held : rows[c].control_id = control}

Active == {c \in Held : rows[c].review_required}

\* get_dashboard_summary raises: a stored decision cannot be read, or load_rules
\* raises.
DashboardFails ==
    \/ \E c \in Held : ~Readable(catalog, rows[c].control_id, rows[c].rule_metadata)
    \/ LoadFails(catalog)

DashboardOfLoaded ==
    LET listed == {k \in Controls : catalog[k] # None}
    IN  [total_decisions |-> Cardinality(Held),
         total_active_reviews |-> Cardinality(Active),
         control_decisions |-> [k \in listed |-> Cardinality(RowsOf(k))],
         control_active |-> [k \in listed |-> Cardinality(RowsOf(k) \cap Active)]]

\* calculate_dashboard_summary, if it does not raise: the totals, and two columns
\* with a line for each control of the catalogs and for each control that a
\* stored decision names.
Dashboard ==
    LET listed == {k \in Controls : catalog[k] # None \/ RowsOf(k) # {}}
    IN  [total_decisions |-> Cardinality(Held),
         total_active_reviews |-> Cardinality(Active),
         control_decisions |-> [k \in listed |-> Cardinality(RowsOf(k))],
         control_active |-> [k \in listed |-> Cardinality(RowsOf(k) \cap Active)]]

-----------------------------------------------------------------------------
\* Rows and a row about to be saved have their types.
TypeOK ==
    /\ catalog \in Catalog
    /\ deploys \in 0 .. MaxDeploys
    /\ rows \in [Cases -> Row \cup {None}]
    /\ pending \in [case_id : Cases, row : Row] \cup {None}

Keeps(row) ==
    \A f \in DOMAIN row.governing :
        f \in DOMAIN row.rule_metadata /\ row.rule_metadata[f] = row.governing[f]

\* However often the catalogs change and the decision is read and written back,
\* it goes on saying which rule it was made under.
GoverningRuleKept ==
    /\ \A c \in Held : Keeps(rows[c])
    /\ pending # None => Keeps(pending.row)

\* A decision that is complete as stored reads the same for ever, also when its
\* control is gone, has another rule, or is in conflict.  Only a broken file that
\* comes first keeps it from being read.
StoredDecisionsStable ==
    \A c \in Held : DOMAIN rows[c].rule_metadata = RuleField =>
        /\ Readable(catalog, rows[c].control_id, rows[c].rule_metadata) <=> ~Escapes(catalog)
        /\ Decoded(catalog, rows[c].control_id, rows[c].rule_metadata) = rows[c].rule_metadata

\* The audit record of a decision never shows it as made under a trigger looser
\* than the regulatory minimum beside it: both are read as they were when the
\* decision was made, whatever was deployed, filled in and written back since.
ReadsAboveMinimum ==
    \A c \in Held :
        LET row == rows[c]
            read == Decoded(catalog, row.control_id, row.rule_metadata)
        IN  /\ {"escalation_trigger", "minimum_threshold"} \subseteq DOMAIN row.governing
            /\ row.governing.escalation_trigger # None
            /\ row.governing.minimum_threshold # None
            /\ Readable(catalog, row.control_id, row.rule_metadata)
            => /\ read.minimum_threshold # None
               /\ read.escalation_trigger <= read.minimum_threshold

\* The sum of a column of counts, each of them at most Cardinality(Cases).
Total(counts) ==
    Cardinality({p \in (DOMAIN counts) \X (1 .. Cardinality(Cases)) : p[2] <= counts[p[1]]})

\* The dashboard misses no stored decision, also of a control that has been
\* withdrawn: the lines add up to the totals, which are counted apart.  It fails
\* only while the files do not load, or for a decision that has lacked a required
\* field since it was made and whose control now has no rule to supply it.
DashboardComplete ==
    IF DashboardFails
    THEN \/ LoadFails(catalog)
         \/ \E c \in Held :
                /\ ~(Required \subseteq DOMAIN rows[c].governing)
                /\ catalog[rows[c].control_id] = None
    ELSE /\ Total(Dashboard.control_decisions) = Dashboard.total_decisions
         /\ Total(Dashboard.control_active) = Dashboard.total_active_reviews
=============================================================================
