---------------------------- MODULE DocumentCases ----------------------------
(***************************************************************************)
(* Documents to check with: the one that Python writes of a base receipt,  *)
(* and the digests that a producer puts on a document of its own.          *)
(***************************************************************************)
EXTENDS PythonDocuments

Opaque(t) == Sha256(Text(t))

Dep(kind, digest, required) ==
    [kind |-> Text(kind), identity |-> Text("i"), digest |-> Opaque(digest),
     required |-> required, extra |-> Missing]

BaseAction ==
    [schema_version |-> Text(ActionSchema), operation_identity |-> Text("nfc"),
     operation_version |-> Text("1"), input_digest |-> Opaque("input"),
     trust_scope |-> Text("local"), environment |-> Map({<<Text("nfc"), Text("a")>>}),
     dependencies |-> Array(<<Dep("nfc", "d", Bool(TRUE))>>),
     side_effect_class |-> Text("READ_ONLY"), authorization_scope_digest |-> Null,
     freshness |-> Map({}), dependency_completeness |-> Bool(TRUE),
     validator_identity |-> Text("nfc"), extra |-> Missing]

BaseContent ==
    Content(
    [schema_version |-> Text(ReceiptSchema), action |-> Object(BaseAction),
     action_digest |-> Sha256(Action(BaseAction)), result_digest |-> Opaque("result"),
     media_type |-> Text("a"), producer_identity |-> Text("a"),
     reuse_class |-> Text("VERIFIED"), created_at |-> Text("12:00:00Z"),
     dependency_snapshot |-> Array(<<Dep("nfc", "d", Bool(TRUE))>>),
     trust_scope |-> Text("local"), cache_scope |-> Text("a"), result_reference |-> Null,
     provenance |-> Map({}), revocation_ref |-> Null, validator_identity |-> Text("nfc"),
     execution_metadata |-> Map({}), economics |-> Map({}), extra |-> Missing])

BaseDocument == ReceiptAsDict(BaseContent)

\* A producer's digests over the content as Python reads it.
Resigned(document) ==
    LET action == Action(document.action[2])
        named  == [document EXCEPT !.action_digest = Sha256(action)]
    IN  IF action = Rejected THEN document
        ELSE IF Content(named) = Rejected THEN named
        ELSE [named EXCEPT !.receipt_digest = ReceiptDigest(Content(named))]
=============================================================================
