--------------------------- MODULE DotNetDocuments ---------------------------
(***************************************************************************)
(* ParseAction and ParseReceipt of implementations/dotnet/Oncefold.cs.     *)
(***************************************************************************)
EXTENDS JsonDocuments, Naturals

\* Text(value, name, required)
BoundedText(value, required) ==
    CASE value[1] = "digest" -> value
      [] value[1] = "text" /\ (required => value[2] # "") /\ value[2] # "prohibited" ->
             Text(NFC(value[2]))
      [] OTHER -> Rejected

RequiredText(value) == BoundedText(value, TRUE)

OptionalText(value) ==
    IF value \in {Missing, Null} THEN Null ELSE BoundedText(value, FALSE)

DigestValue(value) == IF value[1] = "digest" THEN value ELSE Rejected

OptionalDigest(value) == IF value \in {Missing, Null} THEN Null ELSE DigestValue(value)

Boolean(value) == IF value[1] = "boolean" THEN value ELSE Rejected

StringMap(value) ==
    LET pairs == {<<RequiredText(pair[1]), RequiredText(pair[2])>> : pair \in value[2]}
    IN  IF value = Missing THEN Map({})
        ELSE IF value[1] # "map" THEN Rejected
        ELSE IF \E pair \in pairs : Rejected \in {pair[1], pair[2]} THEN Rejected
        ELSE IF Cardinality({pair[1] : pair \in pairs}) # Cardinality(value[2])
        THEN Rejected ELSE Map(pairs)

Dependency(source) ==
    IF ~HasFields(source, RequiredOfDependencies) THEN Rejected
    ELSE Collected([kind |-> RequiredText(source.kind),
                    identity |-> RequiredText(source.identity),
                    digest |-> DigestValue(source.digest),
                    required |-> Boolean(Default(source.required, Bool(TRUE)))])

Dependencies(value) ==
    LET parsed == {Dependency(value[2][i]) : i \in DOMAIN value[2]}
        groups == {{i \in DOMAIN value[2] :
                       LET other == Dependency(value[2][i])
                       IN  <<other[2].kind, other[2].identity>>
                             = <<item[2].kind, item[2].identity>>} : item \in parsed}
    IN  IF value[1] # "array" \/ Rejected \in parsed THEN Rejected
        ELSE IF \E group \in groups : Cardinality(group) > 1 THEN Rejected
        ELSE Array(parsed)

ParseAction(source) ==
    IF ~HasFields(source, RequiredOfActions) THEN Rejected
    ELSE Collected([
        schema_version     |-> Only({ActionSchema}, RequiredText(source.schema_version)),
        operation_identity |-> RequiredText(source.operation_identity),
        operation_version  |-> RequiredText(source.operation_version),
        input_digest       |-> DigestValue(source.input_digest),
        trust_scope        |-> RequiredText(Default(source.trust_scope, Text("local"))),
        environment        |-> StringMap(source.environment),
        dependencies       |-> Dependencies(Default(source.dependencies, Array(<<>>))),
        side_effect_class  |-> Only(SideEffects, RequiredText(
                                    Default(source.side_effect_class, Text("UNKNOWN")))),
        authorization_scope_digest |-> OptionalDigest(source.authorization_scope_digest),
        freshness          |-> StringMap(source.freshness),
        dependency_completeness |-> Boolean(source.dependency_completeness),
        validator_identity |-> OptionalText(source.validator_identity)])

CanonicalTimestamp(value) ==
    CASE value \in {Text("12:00:00Z"), Text("12:00:00.000000Z")} -> Text("12:00:00Z")
      [] value = Text("12:00:00.500000Z") -> value
      [] OTHER -> Rejected

\* ParseReceipt up to the comparison of the receipt digest.
Content(source) ==
    LET action == IF source.action[1] = "object"
                  THEN ParseAction(source.action[2]) ELSE Rejected
    IN  IF \/ ~HasFields(source, RequiredOfReceipts)
           \/ action = Rejected
           \/ DigestValue(source.action_digest) # Sha256(action)
        THEN Rejected
        ELSE Collected([
            schema_version    |-> Only({ReceiptSchema}, RequiredText(source.schema_version)),
            action            |-> action,
            action_digest     |-> Sha256(action),
            result_digest     |-> DigestValue(source.result_digest),
            result_reference  |-> OptionalText(source.result_reference),
            media_type        |-> RequiredText(source.media_type),
            producer_identity |-> RequiredText(source.producer_identity),
            reuse_class       |-> Only(ReuseClasses, RequiredText(source.reuse_class)),
            created_at        |-> CanonicalTimestamp(RequiredText(source.created_at)),
            dependency_snapshot |-> Dependencies(source.dependency_snapshot),
            provenance        |-> StringMap(source.provenance),
            trust_scope       |-> RequiredText(source.trust_scope),
            cache_scope       |-> RequiredText(source.cache_scope),
            revocation_ref    |-> OptionalText(source.revocation_ref),
            validator_identity |-> OptionalText(source.validator_identity),
            execution_metadata |-> StringMap(source.execution_metadata),
            economics         |-> StringMap(source.economics)])

ParseReceipt(source) ==
    LET content == Content(source)
    IN  IF content = Rejected \/ DigestValue(source.receipt_digest) # Sha256(content)
        THEN Rejected ELSE content
=============================================================================
