----------------------------- MODULE GoDocuments -----------------------------
(***************************************************************************)
(* ParseAction and ParseReceipt of implementations/go/verifier.  A value   *)
(* that is read without being there is Go's nil, as a JSON null is.        *)
(***************************************************************************)
EXTENDS JsonDocuments, Naturals

StringValue(value) ==
    CASE value[1] = "digest" -> value
      [] value[1] = "text" /\ NFC(value[2]) \notin {"", "prohibited"} -> Text(NFC(value[2]))
      [] OTHER -> Rejected

OptionalValue(value) ==
    IF value \in {Missing, Null} THEN Null
    ELSE IF value = Text("") THEN value
    ELSE StringValue(value)

RequiredDigest(value) == IF value[1] = "digest" THEN value ELSE Rejected

OptionalDigest(value) == IF value \in {Missing, Null} THEN Null ELSE RequiredDigest(value)

Flag(value) == IF value[1] = "boolean" THEN value ELSE Rejected

\* Mutant of StringMap: of keys that collide, one wins.
StringMap_LastWins(value) ==
    LET keys == {StringValue(member[1]) : member \in value[2]}
        Of(key) == CHOOSE member \in value[2] : StringValue(member[1]) = key
        result == {<<key, StringValue(Of(key)[2])>> : key \in keys}
    IN  IF value[1] = "map" /\ \A member \in result : Rejected \notin {member[1], member[2]}
        THEN Map(result) ELSE Rejected

StringMap(value) ==
    LET collide == \E m, n \in value[2] : m # n /\ StringValue(m[1]) = StringValue(n[1])
        result == {<<StringValue(member[1]), StringValue(member[2])>> : member \in value[2]}
    IN  IF value[1] # "map" THEN Rejected
        ELSE IF collide \/ \E member \in result : Rejected \in {member[1], member[2]}
        THEN Rejected ELSE Map(result)

ParseDependency(doc) ==
    IF ~HasFields(doc, RequiredOfDependencies) THEN Rejected
    ELSE Collected([kind |-> StringValue(doc.kind), identity |-> StringValue(doc.identity),
                    digest |-> RequiredDigest(doc.digest),
                    required |-> IF doc.required = Missing
                                 THEN Bool(TRUE) ELSE Flag(doc.required)])

ParseDependencies(value) ==
    LET items == value[2]
        parsed == [i \in DOMAIN items |-> ParseDependency(items[i])]
        seen(i, j) == /\ parsed[i][2].kind = parsed[j][2].kind
                      /\ parsed[i][2].identity = parsed[j][2].identity
    IN  IF value[1] # "array" THEN Rejected
        ELSE IF \E i \in DOMAIN items : parsed[i] = Rejected THEN Rejected
        ELSE IF \E i, j \in DOMAIN items : i < j /\ seen(i, j) THEN Rejected
        ELSE Array({parsed[i] : i \in DOMAIN items})

ParseAction(source) ==
    IF ~HasFields(source, RequiredOfActions) THEN Rejected
    ELSE Collected([
        schema_version     |-> Only({ActionSchema}, StringValue(source.schema_version)),
        operation_identity |-> StringValue(source.operation_identity),
        operation_version  |-> StringValue(source.operation_version),
        input_digest       |-> RequiredDigest(source.input_digest),
        trust_scope        |-> IF source.trust_scope = Missing
                               THEN Text("local") ELSE StringValue(source.trust_scope),
        environment        |-> StringMap(Default(source.environment, Map({}))),
        dependencies       |-> ParseDependencies(Default(source.dependencies, Array(<<>>))),
        side_effect_class  |-> IF source.side_effect_class = Missing THEN Text("UNKNOWN")
                               ELSE Only(SideEffects, StringValue(source.side_effect_class)),
        authorization_scope_digest |-> OptionalDigest(source.authorization_scope_digest),
        freshness          |-> StringMap(Default(source.freshness, Map({}))),
        dependency_completeness |-> Flag(source.dependency_completeness),
        validator_identity |-> OptionalValue(source.validator_identity)])

CanonicalTimestamp(value) ==
    CASE value = Text("12:00:00.000000Z") -> Text("12:00:00Z")
      [] value \in {Text("12:00:00Z"), Text("12:00:00.500000Z")} -> value
      [] OTHER -> Rejected

\* ParseReceipt up to the comparison of the receipt digest.
Content(source) ==
    LET action == IF source.action[1] = "object"
                  THEN ParseAction(source.action[2]) ELSE Rejected
    IN  IF ~HasFields(source, RequiredOfReceipts) THEN Rejected
        ELSE IF action = Rejected THEN Rejected
        ELSE IF RequiredDigest(source.action_digest) # Sha256(action) THEN Rejected
        ELSE Collected([
            schema_version    |-> Only({ReceiptSchema}, StringValue(source.schema_version)),
            action            |-> action,
            action_digest     |-> source.action_digest,
            result_digest     |-> RequiredDigest(source.result_digest),
            result_reference  |-> OptionalValue(source.result_reference),
            media_type        |-> StringValue(source.media_type),
            producer_identity |-> StringValue(source.producer_identity),
            reuse_class       |-> Only(ReuseClasses, StringValue(source.reuse_class)),
            created_at        |-> CanonicalTimestamp(StringValue(source.created_at)),
            dependency_snapshot |-> ParseDependencies(source.dependency_snapshot),
            provenance        |-> StringMap(Default(source.provenance, Map({}))),
            trust_scope       |-> StringValue(source.trust_scope),
            cache_scope       |-> StringValue(source.cache_scope),
            revocation_ref    |-> OptionalValue(source.revocation_ref),
            validator_identity |-> OptionalValue(source.validator_identity),
            execution_metadata |-> StringMap(Default(source.execution_metadata, Map({}))),
            economics         |-> StringMap(Default(source.economics, Map({})))])

ParseReceipt(source) ==
    LET content == Content(source)
    IN  IF content = Rejected THEN Rejected
        ELSE IF RequiredDigest(source.receipt_digest) = Sha256(content)
        THEN content ELSE Rejected
=============================================================================
