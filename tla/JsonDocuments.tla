---------------------------- MODULE JsonDocuments ----------------------------
(***************************************************************************)
(* JSON values as the parsers of the protocol see them after the wire: a   *)
(* pair of a type and a payload.  The members of a map are a set of pairs  *)
(* of a text and a value, an array is a sequence, and an object with named *)
(* fields is a record in which a field that is not there is Missing; a     *)
(* field that no schema knows is the field "extra".                        *)
(*                                                                         *)
(* Texts are a few representatives: "nfd" and "nfc" spell one text, the    *)
(* second in normal form, and "prohibited" stands for a control character, *)
(* a line separator, a lone surrogate or a length above the bound.  Of the *)
(* names of an enumeration only UNKNOWN has another spelling: its K is the *)
(* normal form of U+212A KELVIN SIGN, and no other letter of those names   *)
(* is that of another character.  Other is a value that no field takes: a  *)
(* number, or more than 256 members.                                       *)
(***************************************************************************)
EXTENDS FiniteSets, Sequences

Missing  == <<"missing">>
Null     == <<"null">>
Other    == <<"other">>
Rejected == <<"rejected">>

Text(t)    == <<"text", t>>
Bool(b)    == <<"boolean", b>>
Map(m)     == <<"map", m>>
Array(s)   == <<"array", s>>
Object(r)  == <<"object", r>>

\* The SHA-256 digest of the canonical form of a value: collision free.
Sha256(value) == <<"digest", value>>

\* Normalization Form C; it may shorten a text or lengthen it beyond the bound.
NFC(t) ==
    CASE t = "nfd"            -> "nfc"
      [] t = "shrinks"        -> "short"
      [] t = "grows"          -> "long"
      [] t = "UN(U+212A)NOWN" -> "UNKNOWN"
      [] OTHER                -> t

Default(value, default) == IF value = Missing THEN default ELSE value

Only(texts, value) == IF \E t \in texts : value = Text(t) THEN value ELSE Rejected

\* An object of these fields, unless one of them was rejected.
Collected(fields) ==
    IF \E f \in DOMAIN fields : fields[f] = Rejected THEN Rejected ELSE Object(fields)

ActionSchema == "oncefold.action/1"
ReceiptSchema == "oncefold.receipt/1"
SideEffects == {"READ_ONLY", "LOCAL_WRITE", "EXTERNAL_MUTATION", "UNKNOWN"}
ReuseClasses == {"EXACT", "VERIFIED", "ADVISORY", "UNSAFE"}

RequiredOfActions == {"schema_version", "operation_identity", "operation_version",
                      "input_digest", "dependency_completeness"}
RequiredOfReceipts == {"schema_version", "action", "action_digest", "result_digest",
                       "media_type", "producer_identity", "reuse_class", "created_at",
                       "dependency_snapshot", "trust_scope", "cache_scope"}
RequiredOfDependencies == {"kind", "identity", "digest"}

HasFields(doc, required) == doc.extra = Missing /\ \A f \in required : doc[f] # Missing
=============================================================================
