------------------------- MODULE TypeScriptDocuments -------------------------
(***************************************************************************)
(* parseAction and parseReceipt of implementations/typescript/verifier.ts. *)
(***************************************************************************)
EXTENDS JsonDocuments, Naturals

\* text(value, name)
RequiredText(value) ==
    CASE value[1] = "digest" -> value
      [] value[1] = "text" /\ value[2] # "" /\ NFC(value[2]) # "prohibited" ->
             Text(NFC(value[2]))
      [] OTHER -> Rejected

\* text(value, name, true), where undefined is null: an empty text passes.
OptionalText(value) ==
    CASE value \in {Missing, Null} -> Null
      [] value[1] = "text" /\ NFC(value[2]) # "prohibited" -> Text(NFC(value[2]))
      [] value[1] = "digest" -> value
      [] OTHER -> Rejected

Digest(value) == IF value[1] = "digest" THEN value ELSE Rejected

Boolean(value) == IF value[1] = "boolean" THEN value ELSE Rejected

StringMap(value) ==
    LET source == Default(value, Map({}))
        entries == source[2]
        normalizedKey(entry) == RequiredText(entry[1])
    IN  IF /\ source[1] = "map"
           /\ \A entry \in entries :
                 Rejected \notin {normalizedKey(entry), RequiredText(entry[2])}
           /\ \A a, b \in entries : normalizedKey(a) = normalizedKey(b) => a = b
        THEN Map({<<normalizedKey(entry), RequiredText(entry[2])>> : entry \in entries})
        ELSE Rejected

Dependency(source) ==
    IF ~HasFields(source, RequiredOfDependencies) THEN Rejected
    ELSE Collected([kind |-> RequiredText(source.kind),
                    identity |-> RequiredText(source.identity),
                    digest |-> Digest(source.digest),
                    required |-> Boolean(Default(source.required, Bool(TRUE)))])

Dependencies(value) ==
    LET parsed == {Dependency(value[2][i]) : i \in DOMAIN value[2]}
        ids == {<<item[2].kind, item[2].identity>> : item \in parsed}
    IN  CASE value[1] # "array"  -> Rejected
          [] Rejected \in parsed -> Rejected
          [] Cardinality(ids) < Len(value[2]) -> Rejected
          [] OTHER -> Array(parsed)

\* canonicalJson of the parsed fields, which refuses an empty text.
Canonical(object) ==
    IF object = Rejected \/ \E f \in DOMAIN object[2] : object[2][f] = Text("")
    THEN Rejected ELSE object

ParseAction(source) ==
    IF ~HasFields(source, RequiredOfActions) THEN Rejected
    ELSE Canonical(Collected([
        schema_version     |-> Only({ActionSchema}, RequiredText(source.schema_version)),
        operation_identity |-> RequiredText(source.operation_identity),
        operation_version  |-> RequiredText(source.operation_version),
        input_digest       |-> Digest(source.input_digest),
        trust_scope        |-> RequiredText(Default(source.trust_scope, Text("local"))),
        environment        |-> StringMap(source.environment),
        dependencies       |-> Dependencies(Default(source.dependencies, Array(<<>>))),
        side_effect_class  |-> Only(SideEffects, RequiredText(
                                    Default(source.side_effect_class, Text("UNKNOWN")))),
        authorization_scope_digest |->
            IF source.authorization_scope_digest \in {Missing, Null}
            THEN Null ELSE Digest(source.authorization_scope_digest),
        freshness          |-> StringMap(source.freshness),
        dependency_completeness |-> Boolean(source.dependency_completeness),
        validator_identity |-> OptionalText(source.validator_identity)]))

CanonicalTimestamp(value) ==
    CASE value = Text("12:00:00.500000Z") -> value
      [] value \in {Text("12:00:00.000000Z"), Text("12:00:00Z")} -> Text("12:00:00Z")
      [] OTHER -> Rejected

\* parseReceipt up to the comparison of the receipt digest.
Content(source) ==
    LET action == IF source.action[1] = "object"
                  THEN ParseAction(source.action[2]) ELSE Rejected
    IN  IF /\ HasFields(source, RequiredOfReceipts)
           /\ action # Rejected
           /\ Digest(source.action_digest) = Sha256(action)
        THEN Canonical(Collected([
            schema_version    |-> Only({ReceiptSchema}, RequiredText(source.schema_version)),
            action            |-> action,
            action_digest     |-> Sha256(action),
            result_digest     |-> Digest(source.result_digest),
            result_reference  |-> OptionalText(source.result_reference),
            media_type        |-> RequiredText(source.media_type),
            producer_identity |-> RequiredText(source.producer_identity),
            reuse_class       |-> Only(ReuseClasses, RequiredText(source.reuse_class)),
            created_at        |-> CanonicalTimestamp(RequiredText(source.created_at)),
            dependency_snapshot |-> Dependencies(source.dependency_snapshot),
            provenance        |-> StringMap(source.provenance),
            trust_scope       |-> RequiredText(source.trust_scope),
            cache_scope       |-> RequiredText(source.cache_scope),
            revocation_ref    |-> OptionalText(source.revocation_ref),
            validator_identity |-> OptionalText(source.validator_identity),
            execution_metadata |-> StringMap(source.execution_metadata),
            economics         |-> StringMap(source.economics)]))
        ELSE Rejected

ParseReceipt(source) ==
    LET content == Content(source)
    IN  IF content # Rejected /\ Digest(source.receipt_digest) = Sha256(content)
        THEN content ELSE Rejected
=============================================================================
