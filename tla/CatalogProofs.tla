---------------------------- MODULE CatalogProofs ---------------------------
(***************************************************************************)
(* Decisions and the catalogs they were made under, for every catalog,     *)
(* every store of an older release and every number of changes.  What has  *)
(* to be carried along is that a stored decision never lacks a field that  *)
(* its governing rule had.                                                 *)
(***************************************************************************)
EXTENDS CatalogHistory, FiniteSetTheorems, FunctionTheorems, TLAPS

\* Metadata is a function on some of the fields, with the values of a rule.
LEMMA StoredFields ==
    ASSUME NEW stored \in Stored
    PROVE  /\ DOMAIN stored \subseteq RuleField
           /\ stored = [f \in DOMAIN stored |-> stored[f]]
           /\ \E rule \in Rule : \A f \in DOMAIN stored : stored[f] = rule[f]
  BY DEF Stored, Restrict

\* A rule as the catalog has it is metadata with every field.
LEMMA RuleStored ==
    ASSUME NEW rule \in Rule
    PROVE  rule \in Stored /\ DOMAIN rule = RuleField
<1>1. DOMAIN rule = RuleField /\ rule = [f \in RuleField |-> rule[f]]
  BY DEF Rule, RuleField
<1>2. rule = Restrict(rule, RuleField)
  BY <1>1 DEF Restrict
<1> QED
  BY <1>1, <1>2 DEF Stored

\* The fields of a rule have their types whichever rules they are taken from.
LEMMA RuleOfFields ==
    ASSUME NEW read, DOMAIN read = RuleField, read = [f \in RuleField |-> read[f]],
           \A f \in RuleField : \E rule \in Rule : read[f] = rule[f]
    PROVE  read \in Rule
<1>1. /\ read["policy_version"] \in Versions
      /\ read["escalation_trigger"] \in Thresholds \cup {None}
      /\ read["minimum_threshold"] \in Thresholds \cup {None}
  BY DEF Rule, RuleField
<1>2. read = [policy_version |-> read["policy_version"],
              escalation_trigger |-> read["escalation_trigger"],
              minimum_threshold |-> read["minimum_threshold"]]
  BY DEF RuleField
<1> QED
  BY <1>1, <1>2 DEF Rule

\* deserialize_decision changes no field that was stored, and what it reads is
\* typed as a rule is.
LEMMA DecodedKeeps ==
    ASSUME NEW files \in Catalog, NEW control \in Controls, NEW stored \in Stored,
           Readable(files, control, stored)
    PROVE  /\ Decoded(files, control, stored) \in Rule
           /\ \A f \in DOMAIN stored : Decoded(files, control, stored)[f] = stored[f]
<1> DEFINE merged == Merged(files, control, stored)
           read == Decoded(files, control, stored)
<1>1. /\ DOMAIN stored \subseteq RuleField
      /\ \E rule \in Rule : \A f \in DOMAIN stored : stored[f] = rule[f]
  BY StoredFields
<1>2. /\ \A f \in DOMAIN stored : f \in DOMAIN merged /\ merged[f] = stored[f]
      /\ \A f \in DOMAIN merged : f \in RuleField /\ \E rule \in Rule : merged[f] = rule[f]
  <2>1. CASE Loads(files, control)
    <3>1. files[control] \in Rule
      BY <2>1 DEF Loads, LoadFails, Raises, Catalog
    <3>2. merged = [f \in RuleField |->
                      IF f \in DOMAIN stored THEN stored[f] ELSE files[control][f]]
      BY <2>1 DEF Merged
    <3> QED
      BY <1>1, <3>1, <3>2
  <2>2. CASE ~Loads(files, control)
    <3>1. merged = stored
      BY <2>2 DEF Merged
    <3> QED
      BY <1>1, <3>1
  <2> QED
    BY <2>1, <2>2
<1>3. "policy_version" \in DOMAIN merged
  BY DEF Readable, Required
<1>4. read = [f \in RuleField |-> IF f \in DOMAIN merged THEN merged[f] ELSE None]
  BY DEF Decoded
<1>5. \A f \in RuleField : \E rule \in Rule : read[f] = rule[f]
  <2>1. TAKE f \in RuleField
  <2>2. CASE f \in DOMAIN merged
    BY <1>2, <1>4, <2>2
  <2>3. CASE f \notin DOMAIN merged
    <3>1. f \in {"escalation_trigger", "minimum_threshold"} /\ read[f] = None
      BY <1>3, <1>4, <2>3 DEF RuleField
    <3>2. PICK version \in Versions : TRUE
      BY <1>2, <1>3 DEF Rule
    <3>3. [policy_version |-> version, escalation_trigger |-> None,
           minimum_threshold |-> None] \in Rule
      BY <3>2 DEF Rule
    <3> QED
      BY <3>1, <3>3
  <2> QED
    BY <2>2, <2>3
<1>6. read \in Rule
  <2>1. DOMAIN read = RuleField /\ read = [f \in RuleField |-> read[f]]
    BY <1>4
  <2> QED
    BY <1>5, <2>1, RuleOfFields
<1>7. \A f \in DOMAIN stored : read[f] = stored[f]
  BY <1>1, <1>2, <1>4
<1> QED
  BY <1>6, <1>7

-----------------------------------------------------------------------------
\* A rule that loads is a rule, and no looser than its minimum.
LEMMA LoadedRule ==
    ASSUME catalog \in Catalog, NEW control \in Controls, Loads(catalog, control)
    PROVE  catalog[control] \in Rule /\ ~Conflicting(catalog[control])
  BY DEF Loads, LoadFails, Raises, Catalog

\* The rows and the rule metadata in them have their types at all times.
THEOREM HistoryTyped == Spec => []TypeOK
<1>1. Init => TypeOK
  <2> SUFFICES ASSUME Init PROVE TypeOK
    OBVIOUS
  <2>1. \A k \in Controls, stored \in Legacy :
            [control_id |-> k, rule_metadata |-> stored, governing |-> stored,
             review_required |-> TRUE] \in Row
    BY HistoryAssumption DEF Row
  <2>2. catalog \in Catalog /\ deploys \in 0 .. MaxDeploys /\ pending = None
    BY HistoryAssumption DEF Init, Catalog, File
  <2>3. rows \in [Cases -> Row \cup {None}]
    BY <2>1 DEF Init
  <2> QED
    BY <2>2, <2>3 DEF TypeOK
<1>2. TypeOK /\ [Next]_vars => TypeOK'
  <2>1. SUFFICES ASSUME TypeOK, [Next]_vars PROVE TypeOK'
    OBVIOUS
  <2>2. ASSUME NEW control \in Controls, NEW file \in File, Deploy(control, file)
        PROVE  TypeOK'
    <3>1. catalog' \in Catalog
      BY <2>1, <2>2, HistoryAssumption DEF TypeOK, Deploy, Catalog, File
    <3>2. deploys' \in 0 .. MaxDeploys
      BY <2>1, <2>2, HistoryAssumption DEF TypeOK, Deploy
    <3> QED
      BY <2>1, <2>2, <3>1, <3>2 DEF TypeOK, Deploy
  <2>3. ASSUME NEW case_id \in Cases, NEW control \in Controls, NEW review_required \in BOOLEAN,
               Evaluate(case_id, control, review_required)
        PROVE  TypeOK'
    <3>1. catalog[control] \in Stored
      BY <2>1, <2>3, LoadedRule, RuleStored DEF TypeOK, Evaluate
    <3>2. [control_id |-> control, rule_metadata |-> catalog[control],
           governing |-> catalog[control], review_required |-> review_required] \in Row
      BY <3>1 DEF Row
    <3> QED
      BY <2>1, <2>3, <3>2 DEF TypeOK, Evaluate
  <2>4. ASSUME NEW case_id \in Cases, NEW review_required \in BOOLEAN,
               Load(case_id, review_required)
        PROVE  TypeOK'
    <3> DEFINE read == Decoded(catalog, rows[case_id].control_id, rows[case_id].rule_metadata)
    <3>1. rows[case_id] \in Row
      BY <2>1, <2>4 DEF TypeOK, Load
    <3>2. rows[case_id].control_id \in Controls /\ rows[case_id].rule_metadata \in Stored
      BY <3>1 DEF Row
    <3>3. read \in Stored
      BY <2>1, <2>4, <3>2, DecodedKeeps, RuleStored DEF TypeOK, Load
    <3>4. [rows[case_id] EXCEPT !.rule_metadata = read, !.review_required = review_required] \in Row
      BY <3>1, <3>3 DEF Row
    <3> QED
      BY <2>1, <2>4, <3>4 DEF TypeOK, Load
  <2>5. CASE Save
    BY <2>1, <2>5 DEF TypeOK, Save
  <2>6. CASE UNCHANGED vars
    BY <2>1, <2>6 DEF TypeOK, vars
  <2> QED
    BY <2>1, <2>2, <2>3, <2>4, <2>5, <2>6 DEF Next
<1> QED
  BY <1>1, <1>2, PTL DEF Spec

-----------------------------------------------------------------------------
\* However often the catalogs change and a decision is read and written back
\* with what deserialize_decision fills in, it keeps the rule it was made under.
THEOREM HistoryKeepsRules == Spec => []GoverningRuleKept
<1>1. Init => GoverningRuleKept
  BY HistoryAssumption DEF Init, GoverningRuleKept, Held, Keeps
<1>2. TypeOK /\ GoverningRuleKept /\ [Next]_vars => GoverningRuleKept'
  <2>1. SUFFICES ASSUME TypeOK, GoverningRuleKept, [Next]_vars PROVE GoverningRuleKept'
    OBVIOUS
  <2>2. ASSUME NEW control \in Controls, NEW file \in File, Deploy(control, file)
        PROVE  GoverningRuleKept'
    BY <2>1, <2>2 DEF GoverningRuleKept, Held, Keeps, Deploy
  <2>3. ASSUME NEW case_id \in Cases, NEW control \in Controls, NEW review_required \in BOOLEAN,
               Evaluate(case_id, control, review_required)
        PROVE  GoverningRuleKept'
    BY <2>1, <2>3 DEF GoverningRuleKept, Held, Keeps, Evaluate, TypeOK
  <2>4. ASSUME NEW case_id \in Cases, NEW review_required \in BOOLEAN,
               Load(case_id, review_required)
        PROVE  GoverningRuleKept'
    <3> DEFINE row == rows[case_id]
               read == Decoded(catalog, row.control_id, row.rule_metadata)
               changed == [row EXCEPT !.rule_metadata = read, !.review_required = review_required]
    <3>1. row \in Row /\ case_id \in Held
      BY <2>1, <2>4 DEF TypeOK, Load, Held
    <3>2. row.control_id \in Controls /\ row.rule_metadata \in Stored
      BY <3>1 DEF Row
    <3>3. /\ read \in Rule
          /\ \A f \in DOMAIN row.rule_metadata : read[f] = row.rule_metadata[f]
      BY <2>1, <2>4, <3>2, DecodedKeeps DEF TypeOK, Load
    <3>4. DOMAIN read = RuleField /\ DOMAIN row.rule_metadata \subseteq RuleField
      BY <3>2, <3>3, RuleStored, StoredFields
    <3>5. changed.governing = row.governing /\ changed.rule_metadata = read
      BY <3>1 DEF Row
    <3>6. Keeps(row)
      BY <2>1, <3>1 DEF GoverningRuleKept
    <3>7. Keeps(changed)
      BY <3>3, <3>4, <3>5, <3>6 DEF Keeps
    <3>8. Keeps(pending'.row)
      BY <2>4, <3>7 DEF Load
    <3>9. (\A c \in Held : Keeps(rows[c]))'
      BY <2>1, <2>4 DEF GoverningRuleKept, Held, Keeps, Load
    <3> QED
      BY <3>8, <3>9 DEF GoverningRuleKept, Keeps
  <2>5. CASE Save
    <3>1. pending \in [case_id : Cases, row : Row] /\ Keeps(pending.row)
      BY <2>1, <2>5 DEF GoverningRuleKept, Save, TypeOK
    <3> QED
      BY <2>1, <2>5, <3>1 DEF GoverningRuleKept, Held, Keeps, Save, TypeOK
  <2>6. CASE UNCHANGED vars
    BY <2>1, <2>6 DEF GoverningRuleKept, Held, Keeps, vars
  <2> QED
    BY <2>1, <2>2, <2>3, <2>4, <2>5, <2>6 DEF Next
<1> QED
  BY <1>1, <1>2, HistoryTyped, PTL DEF Spec

-----------------------------------------------------------------------------
\* A decision that is complete as stored reads the same under every catalog that
\* lets load_rules return or raise a ValueError: what is in force now never changes
\* what was decided then.
THEOREM HistoryReadsStably == Spec => []StoredDecisionsStable
<1>1. TypeOK => StoredDecisionsStable
  <2> SUFFICES ASSUME TypeOK, NEW c \in Held, DOMAIN rows[c].rule_metadata = RuleField
               PROVE  /\ Readable(catalog, rows[c].control_id, rows[c].rule_metadata)
                             <=> ~Escapes(catalog)
                      /\ Decoded(catalog, rows[c].control_id, rows[c].rule_metadata)
                             = rows[c].rule_metadata
    BY DEF StoredDecisionsStable
  <2> DEFINE stored == rows[c].rule_metadata
             merged == Merged(catalog, rows[c].control_id, stored)
  <2>1. rows[c] \in Row
    BY DEF TypeOK, Held
  <2>2. stored = [f \in RuleField |-> stored[f]]
    BY <2>1, StoredFields DEF Row
  <2>3. merged = stored
    BY <2>2 DEF Merged
  <2> QED
    BY <2>2, <2>3 DEF Readable, Decoded, Required, RuleField
<1> QED
  BY <1>1, HistoryTyped, PTL

-----------------------------------------------------------------------------
\* The rule that a decision was made under has no trigger looser than its minimum.
MadeAbove(row) ==
    /\ {"escalation_trigger", "minimum_threshold"} \subseteq DOMAIN row.governing
    /\ row.governing.escalation_trigger # None
    /\ row.governing.minimum_threshold # None
    => row.governing.escalation_trigger <= row.governing.minimum_threshold

AllMadeAbove ==
    /\ \A c \in Held : MadeAbove(rows[c])
    /\ pending # None => MadeAbove(pending.row)

\* What a rule that is not in conflict says of its numbers.
LEMMA RuleAbove ==
    ASSUME NEW rule \in Rule, ~Conflicting(rule),
           rule.escalation_trigger # None, rule.minimum_threshold # None
    PROVE  rule.escalation_trigger <= rule.minimum_threshold
<1>1. rule.escalation_trigger \in Nat /\ rule.minimum_threshold \in Nat
  BY CatalogAssumption DEF Rule
<1>2. ~(rule.escalation_trigger > rule.minimum_threshold)
  BY DEF Conflicting
<1> QED
  BY <1>1, <1>2

\* The audit record of a decision, as deserialize_decision reads it, never shows it
\* as made under a trigger looser than the minimum beside it, whatever is deployed.
\* Supposed is that no decision of an older release was made so.
THEOREM HistoryReadsAboveMinimum ==
    ASSUME \A stored \in Legacy :
               /\ {"escalation_trigger", "minimum_threshold"} \subseteq DOMAIN stored
               /\ stored.escalation_trigger # None
               /\ stored.minimum_threshold # None
               => stored.escalation_trigger <= stored.minimum_threshold
    PROVE  Spec => []ReadsAboveMinimum
<1>1. Init => AllMadeAbove
  BY DEF Init, AllMadeAbove, MadeAbove, Held
<1>2. TypeOK /\ AllMadeAbove /\ [Next]_vars => AllMadeAbove'
  <2>1. SUFFICES ASSUME TypeOK, AllMadeAbove, [Next]_vars PROVE AllMadeAbove'
    OBVIOUS
  <2>2. ASSUME NEW control \in Controls, NEW file \in File, Deploy(control, file)
        PROVE  AllMadeAbove'
    BY <2>1, <2>2 DEF AllMadeAbove, Held, Deploy
  <2>3. ASSUME NEW case_id \in Cases, NEW control \in Controls, NEW review_required \in BOOLEAN,
               Evaluate(case_id, control, review_required)
        PROVE  AllMadeAbove'
    <3> DEFINE row == [control_id |-> control, rule_metadata |-> catalog[control],
                       governing |-> catalog[control], review_required |-> review_required]
    <3>1. catalog[control] \in Rule /\ ~Conflicting(catalog[control])
      BY <2>1, <2>3, LoadedRule DEF Evaluate, TypeOK
    <3>2. MadeAbove(row)
      BY <3>1, RuleAbove DEF MadeAbove
    <3>3. rows' = [rows EXCEPT ![case_id] = row] /\ pending' = pending
      BY <2>3 DEF Evaluate
    <3> HIDE DEF row
    <3> QED
      BY <2>1, <3>2, <3>3 DEF AllMadeAbove, Held, TypeOK
  <2>4. ASSUME NEW case_id \in Cases, NEW review_required \in BOOLEAN,
               Load(case_id, review_required)
        PROVE  AllMadeAbove'
    <3>1. rows[case_id] \in Row /\ case_id \in Held
      BY <2>1, <2>4 DEF TypeOK, Load, Held
    <3>2. MadeAbove(rows[case_id])
      BY <2>1, <3>1 DEF AllMadeAbove
    <3>3. pending'.row.governing = rows[case_id].governing
      BY <2>4, <3>1 DEF Load, Row
    <3>4. MadeAbove(pending'.row)
      BY <3>2, <3>3 DEF MadeAbove
    <3>5. (\A c \in Held : MadeAbove(rows[c]))'
      BY <2>1, <2>4 DEF AllMadeAbove, MadeAbove, Held, Load
    <3> QED
      BY <3>4, <3>5 DEF AllMadeAbove, MadeAbove
  <2>5. CASE Save
    <3>1. pending \in [case_id : Cases, row : Row] /\ MadeAbove(pending.row)
      BY <2>1, <2>5 DEF AllMadeAbove, Save, TypeOK
    <3> QED
      BY <2>1, <2>5, <3>1 DEF AllMadeAbove, Held, Save, TypeOK
  <2>6. CASE UNCHANGED vars
    BY <2>1, <2>6 DEF AllMadeAbove, MadeAbove, Held, vars
  <2> QED
    BY <2>1, <2>2, <2>3, <2>4, <2>5, <2>6 DEF Next
<1>3. TypeOK /\ GoverningRuleKept /\ AllMadeAbove => ReadsAboveMinimum
  <2> SUFFICES ASSUME TypeOK, GoverningRuleKept, AllMadeAbove, NEW c \in Held,
                      {"escalation_trigger", "minimum_threshold"} \subseteq DOMAIN rows[c].governing,
                      rows[c].governing.escalation_trigger # None,
                      rows[c].governing.minimum_threshold # None,
                      Readable(catalog, rows[c].control_id, rows[c].rule_metadata)
               PROVE  LET read == Decoded(catalog, rows[c].control_id, rows[c].rule_metadata)
                      IN  /\ read.minimum_threshold # None
                          /\ read.escalation_trigger <= read.minimum_threshold
    BY DEF ReadsAboveMinimum
  <2> DEFINE read == Decoded(catalog, rows[c].control_id, rows[c].rule_metadata)
  <2>1. rows[c].control_id \in Controls /\ rows[c].rule_metadata \in Stored
    BY DEF TypeOK, Held, Row
  <2>2. Keeps(rows[c]) /\ MadeAbove(rows[c])
    BY DEF GoverningRuleKept, AllMadeAbove
  <2>3. \A f \in DOMAIN rows[c].rule_metadata : read[f] = rows[c].rule_metadata[f]
    BY <2>1, DecodedKeeps DEF TypeOK
  <2>4. /\ read.escalation_trigger = rows[c].governing.escalation_trigger
        /\ read.minimum_threshold = rows[c].governing.minimum_threshold
    BY <2>2, <2>3 DEF Keeps
  <2> QED
    BY <2>2, <2>4 DEF MadeAbove
<1> QED
  BY <1>1, <1>2, <1>3, HistoryTyped, HistoryKeepsRules, PTL DEF Spec

-----------------------------------------------------------------------------
\* A set counted class by class adds up: the pairs that Total counts are the
\* members of the set, each with its number within its class.
LEMMA TotalOfClasses ==
    ASSUME IsFiniteSet(Cases), NEW S \in SUBSET Cases, NEW K, NEW f \in [S -> K],
           NEW counts, DOMAIN counts = K,
           \A k \in K : counts[k] = Cardinality({c \in S : f[c] = k})
    PROVE  Total(counts) = Cardinality(S)
<1>. DEFINE class(k) == {c \in S : f[c] = k}
            N == Cardinality(Cases)
            P == {p \in K \X (1 .. N) : p[2] <= counts[p[1]]}
            numbering(k) == CHOOSE g : g \in Bijection(1 .. counts[k], class(k))
            h == [p \in P |-> numbering(p[1])[p[2]]]
<1>1. IsFiniteSet(S) /\ N \in Nat
    BY FS_Subset, FS_CardinalityType
<1>2. ASSUME NEW k \in K
      PROVE  /\ counts[k] \in Nat /\ counts[k] <= N
             /\ numbering(k) \in Bijection(1 .. counts[k], class(k))
  <2>1. counts[k] = Cardinality(class(k)) /\ class(k) \in SUBSET Cases
    OBVIOUS
  <2>. HIDE DEF class
  <2>2. IsFiniteSet(class(k)) /\ counts[k] <= N
    BY <2>1, FS_Subset
  <2>3. counts[k] \in Nat /\ ExistsBijection(1 .. counts[k], class(k))
    BY <2>1, <2>2, FS_CardinalityType
  <2>4. \E g : g \in Bijection(1 .. counts[k], class(k))
    BY <2>3, Fun_ExistsBij
  <2>5. QED BY <2>2, <2>3, <2>4
<1>3. ASSUME NEW k \in K
      PROVE  /\ \A i \in 1 .. counts[k] : numbering(k)[i] \in S /\ f[numbering(k)[i]] = k
             /\ \A i, j \in 1 .. counts[k] : numbering(k)[i] = numbering(k)[j] => i = j
             /\ \A c \in S : f[c] = k => \E i \in 1 .. counts[k] : numbering(k)[i] = c
  <2>1. \A c : c \in class(k) <=> c \in S /\ f[c] = k
    OBVIOUS
  <2>. HIDE DEF class, numbering
  <2>2. /\ numbering(k) \in [1 .. counts[k] -> class(k)]
        /\ \A i, j \in 1 .. counts[k] : numbering(k)[i] = numbering(k)[j] => i = j
        /\ \A c \in class(k) : \E i \in 1 .. counts[k] : numbering(k)[i] = c
    BY <1>2, Fun_BijectionProperties
  <2>3. QED BY <2>1, <2>2
<1>4. \A p \in P : p = <<p[1], p[2]>> /\ p[1] \in K /\ p[2] \in 1 .. counts[p[1]]
  <2>. HIDE DEF N
  <2>1. QED BY <1>1, <1>2
<1>5. \A k \in K : \A i \in 1 .. counts[k] : <<k, i>> \in P
  <2>. SUFFICES ASSUME NEW k \in K, NEW i \in 1 .. counts[k] PROVE <<k, i>> \in P
      OBVIOUS
  <2>. HIDE DEF N, numbering
  <2>1. counts[k] \in Nat /\ counts[k] <= N
    BY <1>2
  <2>2. i \in 1 .. N /\ i <= counts[k]
    BY <1>1, <2>1
  <2>3. QED BY <2>2
<1>. HIDE DEF numbering, P, N
<1>6. h \in [P -> S]
    BY <1>3, <1>4
<1>7. \A p, q \in P : h[p] = h[q] => p = q
  <2>. SUFFICES ASSUME NEW p \in P, NEW q \in P, h[p] = h[q] PROVE p = q
      OBVIOUS
  <2>1. f[h[p]] = p[1] /\ f[h[q]] = q[1]
    BY <1>3, <1>4
  <2>2. p[1] = q[1]
    BY <2>1
  <2>3. p[2] = q[2]
    BY <1>3, <1>4, <2>2
  <2>4. QED BY <1>4, <2>2, <2>3
<1>8. \A c \in S : \E p \in P : h[p] = c
  <2>. SUFFICES ASSUME NEW c \in S PROVE \E p \in P : h[p] = c
      OBVIOUS
  <2>1. f[c] \in K
    OBVIOUS
  <2>2. PICK i \in 1 .. counts[f[c]] : numbering(f[c])[i] = c
    BY <1>3, <2>1
  <2>3. <<f[c], i>> \in P
    BY <1>5, <2>1
  <2>4. QED BY <2>2, <2>3
<1>. HIDE DEF h
<1>9. h \in Bijection(P, S)
    BY <1>6, <1>7, <1>8, Fun_IsBij
<1>10. ExistsBijection(S, P)
    BY <1>9, Fun_ExistsBij, Fun_ExistsBijSymmetric
<1>11. Cardinality(P) = Cardinality(S)
    BY <1>1, <1>10, FS_Bijection
<1>12. Total(counts) = Cardinality(P)
    BY DEF Total, P, N
<1>13. QED BY <1>11, <1>12

\* A decision that cannot be read for another reason than a broken file lacks a
\* required field, and has no rule to supply it.
LEMMA UnreadableLacks ==
    ASSUME TypeOK, GoverningRuleKept, ~LoadFails(catalog), NEW c \in Held,
           ~Readable(catalog, rows[c].control_id, rows[c].rule_metadata)
    PROVE  /\ ~(Required \subseteq DOMAIN rows[c].governing)
           /\ catalog[rows[c].control_id] = None
<1> DEFINE stored == rows[c].rule_metadata
           k == rows[c].control_id
<1>1. k \in Controls /\ stored \in Stored /\ Keeps(rows[c])
  BY DEF TypeOK, Held, Row, GoverningRuleKept
<1>2. ~Escapes(catalog)
  BY DEF Escapes, LoadFails, Raises
<1>3. ~(Required \subseteq DOMAIN Merged(catalog, k, stored))
  BY <1>2 DEF Readable
<1>4. ~Loads(catalog, k)
  <2>1. SUFFICES ASSUME Loads(catalog, k) PROVE FALSE
    OBVIOUS
  <2>2. DOMAIN Merged(catalog, k, stored) = RuleField
    BY <2>1 DEF Merged
  <2> QED
    BY <1>3, <2>2 DEF Required, RuleField
<1>5. Merged(catalog, k, stored) = stored
  BY <1>4 DEF Merged
<1> QED
  BY <1>1, <1>3, <1>4, <1>5 DEF Loads, Keeps, Required

\* The lines of calculate_dashboard_summary add up to its totals, for any number of
\* controls and cases and whatever was withdrawn; and it returns them, unless the
\* files do not load or a decision of an older release lacks what its control no
\* longer supplies.
THEOREM HistoryShownInFull ==
    ASSUME IsFiniteSet(Cases)
    PROVE  Spec => []DashboardComplete
<1>1. TypeOK => Total(Dashboard.control_decisions) = Dashboard.total_decisions
  <2> SUFFICES ASSUME TypeOK
               PROVE  Total(Dashboard.control_decisions) = Dashboard.total_decisions
    OBVIOUS
  <2> DEFINE K == {k \in Controls : catalog[k] # None \/ RowsOf(k) # {}}
             g == [c \in Held |-> rows[c].control_id]
             counts == [k \in K |-> Cardinality(RowsOf(k))]
  <2>1. Held \in SUBSET Cases
    BY DEF Held
  <2>2. g \in [Held -> K]
    BY DEF TypeOK, Held, Row, RowsOf
  <2>3. \A k \in K : counts[k] = Cardinality({c \in Held : g[c] = k})
    <3>1. \A k \in K : {c \in Held : g[c] = k} = RowsOf(k)
      BY DEF RowsOf
    <3> QED
      BY <3>1
  <2>4. DOMAIN counts = K
    OBVIOUS
  <2>5. Dashboard.control_decisions = counts /\ Dashboard.total_decisions = Cardinality(Held)
    BY DEF Dashboard
  <2> HIDE DEF K, g, counts
  <2>6. Total(counts) = Cardinality(Held)
    BY <2>1, <2>2, <2>3, <2>4, TotalOfClasses
  <2> QED
    BY <2>5, <2>6
<1>2. TypeOK => Total(Dashboard.control_active) = Dashboard.total_active_reviews
  <2> SUFFICES ASSUME TypeOK
               PROVE  Total(Dashboard.control_active) = Dashboard.total_active_reviews
    OBVIOUS
  <2> DEFINE K == {k \in Controls : catalog[k] # None \/ RowsOf(k) # {}}
             g == [c \in Active |-> rows[c].control_id]
             counts == [k \in K |-> Cardinality(RowsOf(k) \cap Active)]
  <2>1. Active \in SUBSET Cases
    BY DEF Active, Held
  <2>2. g \in [Active -> K]
    BY DEF TypeOK, Active, Held, Row, RowsOf
  <2>3. \A k \in K : counts[k] = Cardinality({c \in Active : g[c] = k})
    <3>1. \A k \in K : {c \in Active : g[c] = k} = RowsOf(k) \cap Active
      BY DEF RowsOf, Active
    <3> QED
      BY <3>1
  <2>4. DOMAIN counts = K
    OBVIOUS
  <2>5. Dashboard.control_active = counts /\ Dashboard.total_active_reviews = Cardinality(Active)
    BY DEF Dashboard
  <2> HIDE DEF K, g, counts
  <2>6. Total(counts) = Cardinality(Active)
    BY <2>1, <2>2, <2>3, <2>4, TotalOfClasses
  <2> QED
    BY <2>5, <2>6
<1>3. TypeOK /\ GoverningRuleKept /\ DashboardFails =>
          \/ LoadFails(catalog)
          \/ \E c \in Held :
                /\ ~(Required \subseteq DOMAIN rows[c].governing)
                /\ catalog[rows[c].control_id] = None
  BY UnreadableLacks DEF DashboardFails
<1>4. TypeOK /\ GoverningRuleKept => DashboardComplete
  BY <1>1, <1>2, <1>3 DEF DashboardComplete
<1> QED
  BY <1>4, HistoryTyped, HistoryKeepsRules, PTL
=============================================================================
