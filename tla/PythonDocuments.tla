--------------------------- MODULE PythonDocuments ---------------------------
(***************************************************************************)
(* ActionIdentity and ReuseReceipt of protocol.py: from_dict with          *)
(* __post_init__, and as_dict.  Dependencies are sorted by a key that is   *)
(* unique among them, so their sorted sequence is their set.               *)
(***************************************************************************)
EXTENDS JsonDocuments, SequencesExt

\* Mutant of BoundedText: the text is checked and not normalized.
BoundedText_AsGiven(value) ==
    IF value[1] = "digest" \/ (value[1] = "text" /\ value[2] \notin {"", "prohibited"})
    THEN value ELSE Rejected

BoundedText(value) ==
    CASE value[1] = "digest" -> value
      [] value[1] = "text" /\ value[2] \notin {"", "prohibited"} -> Text(NFC(value[2]))
      [] OTHER -> Rejected

OptionalText(value) ==
    CASE value \in {Missing, Null} -> Null
      [] value = Text("")          -> value
      [] OTHER                     -> BoundedText(value)

CheckDigestField(value) == IF value[1] = "digest" THEN value ELSE Rejected

OptionalDigest(value) == IF value \in {Missing, Null} THEN Null ELSE CheckDigestField(value)

Boolean(value) == IF value[1] = "boolean" THEN value ELSE Rejected

StringMapping(value) ==
    LET keys == {BoundedText(member[1]) : member \in value[2]}
        normalized == {<<BoundedText(member[1]), BoundedText(member[2])>> :
                           member \in value[2]}
    IN  IF /\ value[1] = "map"
           /\ Cardinality(keys) = Cardinality(value[2])
           /\ \A member \in normalized : Rejected \notin {member[1], member[2]}
        THEN Map(normalized) ELSE Rejected

Dependency(doc) ==
    IF ~HasFields(doc, RequiredOfDependencies) THEN Rejected
    ELSE Collected([kind |-> BoundedText(doc.kind), identity |-> BoundedText(doc.identity),
                    digest |-> CheckDigestField(doc.digest),
                    required |-> Boolean(Default(doc.required, Bool(TRUE)))])

Dependencies(value) ==
    LET parsed == {Dependency(value[2][i]) : i \in DOMAIN value[2]}
        identities == {<<d[2].kind, d[2].identity>> : d \in parsed}
    IN  IF value[1] # "array" \/ Rejected \in parsed THEN Rejected
        ELSE IF Cardinality(identities) # Len(value[2]) THEN Rejected
        ELSE Array(parsed)

\* ActionIdentity.from_dict
Action(doc) ==
    IF ~HasFields(doc, RequiredOfActions) THEN Rejected
    ELSE Collected([
        schema_version     |-> Only({ActionSchema}, BoundedText(doc.schema_version)),
        operation_identity |-> BoundedText(doc.operation_identity),
        operation_version  |-> BoundedText(doc.operation_version),
        input_digest       |-> CheckDigestField(doc.input_digest),
        trust_scope        |-> BoundedText(Default(doc.trust_scope, Text("local"))),
        environment        |-> StringMapping(Default(doc.environment, Map({}))),
        dependencies       |-> Dependencies(Default(doc.dependencies, Array(<<>>))),
        side_effect_class  |-> Only(SideEffects,
                                    Default(doc.side_effect_class, Text("UNKNOWN"))),
        authorization_scope_digest |-> OptionalDigest(doc.authorization_scope_digest),
        freshness          |-> StringMapping(Default(doc.freshness, Map({}))),
        dependency_completeness |-> Boolean(doc.dependency_completeness),
        validator_identity |-> OptionalText(doc.validator_identity)])

CanonicalTimestamp(value) ==
    CASE value \in {Text("12:00:00Z"), Text("12:00:00.000000Z")} -> Text("12:00:00Z")
      [] value = Text("12:00:00.500000Z") -> value
      [] OTHER -> Rejected

\* ReuseReceipt.from_dict without its last check: what the receipt digest is
\* computed over.
Content(doc) ==
    LET action == IF doc.action[1] = "object" THEN Action(doc.action[2]) ELSE Rejected
    IN  IF \/ ~HasFields(doc, RequiredOfReceipts) \/ action = Rejected
           \/ doc.action_digest # Sha256(action)
        THEN Rejected
        ELSE Collected([
            schema_version    |-> Only({ReceiptSchema}, BoundedText(doc.schema_version)),
            action            |-> action,
            action_digest     |-> Sha256(action),
            result_digest     |-> CheckDigestField(doc.result_digest),
            result_reference  |-> OptionalText(doc.result_reference),
            media_type        |-> BoundedText(doc.media_type),
            producer_identity |-> BoundedText(doc.producer_identity),
            reuse_class       |-> Only(ReuseClasses, doc.reuse_class),
            created_at        |-> CanonicalTimestamp(doc.created_at),
            dependency_snapshot |-> Dependencies(doc.dependency_snapshot),
            provenance        |-> StringMapping(Default(doc.provenance, Map({}))),
            trust_scope       |-> BoundedText(doc.trust_scope),
            cache_scope       |-> BoundedText(doc.cache_scope),
            revocation_ref    |-> OptionalText(doc.revocation_ref),
            validator_identity |-> OptionalText(doc.validator_identity),
            execution_metadata |-> StringMapping(Default(doc.execution_metadata, Map({}))),
            economics         |-> StringMapping(Default(doc.economics, Map({})))])

\* Mutant of ReceiptDigest: a field is left out of what is hashed.
ReceiptDigest_WithoutEconomics(content) ==
    Sha256(Object([f \in DOMAIN content[2] \ {"economics"} |-> content[2][f]]))

\* The digest is over as_dict without the digest: every field that is read.
ReceiptDigest(content) == Sha256(content)

\* Mutant of Receipt: the receipt digest is not compared.
Receipt_Unsealed(doc) == Content(doc)

Receipt(doc) ==
    IF Content(doc) # Rejected /\ doc.receipt_digest = ReceiptDigest(Content(doc))
    THEN Content(doc) ELSE Rejected

-----------------------------------------------------------------------------
(* as_dict: the document with every default written out. *)

Written(object) ==
    [f \in DOMAIN object[2] \cup {"extra"} |-> IF f = "extra" THEN Missing ELSE object[2][f]]

WrittenDependencies(array) == Array(SetToSeq({Written(d) : d \in array[2]}))

ActionAsDict(action) ==
    [f \in DOMAIN Written(action) |->
        IF f = "dependencies" THEN WrittenDependencies(action[2][f]) ELSE Written(action)[f]]

ReceiptAsDict(content) ==
    [f \in DOMAIN Written(content) \cup {"receipt_digest"} |->
        CASE f = "action"              -> Object(ActionAsDict(content[2][f]))
          [] f = "dependency_snapshot" -> WrittenDependencies(content[2][f])
          [] f = "receipt_digest"      -> ReceiptDigest(content)
          [] OTHER                     -> Written(content)[f]]
=============================================================================
