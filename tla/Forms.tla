-------------------------------- MODULE Forms --------------------------------
(***************************************************************************)
(* The intake form that an admin saves (services/form_schema_service.py),  *)
(* and the risk that a requester's answers have (services/risk_service.py).*)
(*                                                                         *)
(* A schema is a sequence of sections [id, title, fields]; a field is      *)
(* [name, label, type, required, options].                                 *)
(***************************************************************************)
EXTENDS Naturals, Sequences, FiniteSets

CONSTANTS
  CoreFields,    \* the built-in fields by name: [type, required, options]
  CustomNames,   \* names that a custom field may be given
  ReservedNames  \* those of them that are reserved

ASSUME FormsAssumption ==
  \A name \in DOMAIN CoreFields :
    CoreFields[name] \in [type : STRING, required : BOOLEAN, options : Seq(STRING)]

NoDuplicates(s) == \A i, j \in DOMAIN s : s[i] = s[j] => i = j

\* The fields of all sections, in order.
Fields(schema) ==
  LET upTo[i \in 0..Len(schema)] ==
        IF i = 0 THEN <<>> ELSE upTo[i - 1] \o schema[i].fields
  IN upTo[Len(schema)]

IsCore(f) == f.name \in DOMAIN CoreFields

\* Mistaken: the admin's word is taken for whether the field is required.
CanonicalizeCoreFieldTrusting(f) ==
  [f EXCEPT !.type = CoreFields[f.name].type, !.options = CoreFields[f.name].options]

\* Everything but the label is the default's.
CanonicalizeCoreField(f) ==
  [f EXCEPT !.type = CoreFields[f.name].type,
            !.required = CoreFields[f.name].required,
            !.options = CoreFields[f.name].options]

CustomFieldAccepted(f) ==
  /\ f.name \in CustomNames \ ReservedNames
  /\ f.type = "select" => f.options # <<>> /\ NoDuplicates(f.options)

ValidateCustomField(f) == [f EXCEPT !.options = IF f.type = "select" THEN @ ELSE <<>>]

SchemaAccepted(schema) ==
  LET fields == Fields(schema)
      ids == [i \in DOMAIN schema |-> schema[i].id]
      names == [i \in DOMAIN fields |-> fields[i].name]
  IN /\ schema # <<>> /\ NoDuplicates(ids) /\ NoDuplicates(names)
     /\ \A i \in DOMAIN schema : schema[i].title # "blank"
     /\ \A i \in DOMAIN fields :
          fields[i].label # "blank" /\ (IsCore(fields[i]) \/ CustomFieldAccepted(fields[i]))
     /\ DOMAIN CoreFields \subseteq {names[i] : i \in DOMAIN names}

\* validate_and_canonicalize's result for a schema that it accepts.
CanonicalizeField(f) == IF IsCore(f) THEN CanonicalizeCoreField(f) ELSE ValidateCustomField(f)

Canonicalize(schema) ==
  [i \in DOMAIN schema |->
    [schema[i] EXCEPT !.fields = [j \in DOMAIN @ |-> CanonicalizeField(@[j])]]]

\* A form that was saved has every field the backend depends on, once and with
\* its own type, obligation and options, and the editor may load and save it
\* again without changing it (form_schema_service.py:9-16).
KeepsCore(schema) ==
  SchemaAccepted(schema) =>
    LET saved == Canonicalize(schema)
        fields == Fields(saved)
    IN /\ SchemaAccepted(saved) /\ Canonicalize(saved) = saved
       /\ \A name \in DOMAIN CoreFields :
            LET at == {i \in DOMAIN fields : fields[i].name = name}
            IN /\ Cardinality(at) = 1
               /\ \A i \in at : /\ fields[i].type = CoreFields[name].type
                                /\ fields[i].required = CoreFields[name].required
                                /\ fields[i].options = CoreFields[name].options

-----------------------------------------------------------------------------
(* derive_risk.  Answers are [flags, classification, sensitive].           *)

Flags == {"calls_external_model_api", "takes_actions", "uses_enterprise_documents",
          "uses_vector_db", "internet_egress"}

RiskLevels == <<"low", "medium", "high">>

RiskRank(level) == CHOOSE i \in DOMAIN RiskLevels : RiskLevels[i] = level

\* Mistaken: the last rule that fires decides.
EscalateToLast(current, candidate) == candidate

Escalate(current, candidate) ==
  IF RiskRank(candidate) > RiskRank(current) THEN candidate ELSE current

\* The rules in the order of the source: does it fire, and to what level.
Rules(a) ==
  << [fires |-> "calls_external_model_api" \in a.flags /\ a.classification = "regulated",
      to |-> "high"],
     [fires |-> "takes_actions" \in a.flags, to |-> "high"],
     [fires |-> {"uses_enterprise_documents", "uses_vector_db"} \subseteq a.flags,
      to |-> "medium"],
     [fires |-> a.classification = "confidential", to |-> "medium"],
     [fires |-> "internet_egress" \in a.flags /\ a.sensitive = "yes", to |-> "medium"] >>

DeriveRisk(a) ==
  LET rules == Rules(a)
      level[i \in 0..Len(rules)] ==
        IF i = 0 THEN "low"
        ELSE IF rules[i].fires THEN Escalate(level[i - 1], rules[i].to) ELSE level[i - 1]
  IN IF a.sensitive = "unknown" THEN "unknown" ELSE level[Len(rules)]
=============================================================================
