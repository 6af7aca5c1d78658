---------------------------- MODULE MCCommandLine ----------------------------
(***************************************************************************)
(* A small instance of CommandLine: two EXACT receipts that differ in      *)
(* their result, one of each other class, one that its producer revoked,   *)
(* one that was altered; the action they are for, in two spellings, and    *)
(* others; the flags that admit them and the ways to get the flags wrong.  *)
(***************************************************************************)
EXTENDS CommandLine, DocumentCases, TLC

Exact == Resigned([BaseDocument EXCEPT
    !.reuse_class = Text("EXACT"), !.producer_identity = Text("nfd"),
    !.provenance = Map({<<Text("nfc"), Text("a")>>})])

ReceiptDocuments ==
    {Exact, Resigned([Exact EXCEPT !.result_digest = Opaque("another")])}
    \cup {Resigned([Exact EXCEPT !.reuse_class = Text(c)]) : c \in {"VERIFIED", "ADVISORY"}}
    \cup {Resigned([Exact EXCEPT !.revocation_ref = Text("")]),
          [Exact EXCEPT !.cache_scope = Text("local")]}

MCObserved ==
    {Unreadable, BaseAction, [BaseAction EXCEPT !.operation_identity = Text("nfd")],
     [BaseAction EXCEPT !.operation_version = Text("2")],
     [BaseAction EXCEPT !.side_effect_class = Missing]}

Flags(producers, scopes, provenance, result) ==
    [trusted_producer |-> producers, trusted_cache_scope |-> scopes,
     require_provenance |-> provenance, result_digest |-> result]

MCTrusted == Flags({"nfc"}, {"a"}, << <<"nfc", "a">> >>, Null)

MCFlags ==
    {Flags(p, s, <<>>, Null) : p \in {{}, {"nfc"}, {"nfd", "a"}, {"prohibited"}},
                               s \in {{}, {"a"}}}
    \cup {Flags({"nfc"}, {"a"}, items, Null) : items \in {
              << <<"nfd", "a">> >>, << <<"nfc", "other">> >>, << <<"a", "">> >>,
              << <<"nfc", "a">>, <<"nfc", "a">> >>, << <<"nfc", "a">>, <<"nfd", "a">> >>}}
    \cup {Flags({"nfc"}, {"a"}, << <<"nfc", "a">> >>, result) : result \in {
              Text(""), Text("malformed"), Opaque("result"), Opaque("other")}}

\* The commands share their parser and all of main but the exit status, so one
\* of them gets every combination of flags.
MCInvocations ==
    [command : {"check"}, action : BOOLEAN, flags : MCFlags]
    \cup [command : {"inspect", "verify"}, action : BOOLEAN,
          flags : {MCTrusted, Flags({}, {}, <<>>, Null),
                   Flags({"nfc"}, {"a"}, << <<"nfc", "a">>, <<"nfc", "a">> >>, Null)}]
    \cup [command : {"consume"}, action : {FALSE}, flags : {MCTrusted}]

\* as_dict is written with its keys sorted: the first part may end before the
\* digests, between them, or after them.
ReceiptDigestFirst == {"action", "action_digest", "cache_scope", "created_at",
    "dependency_snapshot", "economics", "execution_metadata", "media_type",
    "producer_identity", "provenance", "receipt_digest"}

MCHeads == {{"action", "action_digest"}, ReceiptDigestFirst,
            ReceiptDigestFirst \cup {"result_digest", "result_reference", "reuse_class"}}
=============================================================================
