----------------------------- MODULE MCDocuments -----------------------------
(***************************************************************************)
(* The documents begin as what Python's as_dict writes of a base receipt;  *)
(* then one field of the action and one field of the receipt may be        *)
(* replaced by any JSON value, and the digests are either left as they     *)
(* were (somebody altered the document) or computed again by a producer    *)
(* that uses the Python implementation, or the Go one, and spells the same *)
(* protocol differently.  Beside the documents, JSON values (the arguments *)
(* of an action, of which only the digest travels) are given to the five   *)
(* canonicalizers.                                                         *)
(***************************************************************************)
EXTENDS DocumentParsers, CanonicalValues, TLC

vars == <<documentVars, valueVars>>

\* What one field may be replaced by when the rest of the document is as written.
Values ==
    {Missing, Null, Other, Bool(TRUE), Bool(FALSE), Opaque("other")}
    \cup {Text(t) : t \in {"", "a", "nfc", "nfd", "prohibited", "local", "UNKNOWN",
                           "UN(U+212A)NOWN", "ADVISORY", "12:00:00.000000Z",
                           "12:00:00.500000Z"}}
    \cup {Map(m) : m \in {{}, {<<Text("nfc"), Text("a")>>}, {<<Text("nfd"), Text("a")>>},
                          {<<Text("nfc"), Text("a")>>, <<Text("nfd"), Text("a")>>},
                          {<<Text("a"), Text("")>>}}}
    \cup {Array(s) : s \in {<<>>, <<Dep("nfd", "d", Missing)>>, <<Dep("", "d", Missing)>>,
                            <<Dep("nfc", "d", Bool(TRUE)), Dep("a", "d", Missing)>>,
                            <<Dep("a", "d", Bool(TRUE)), Dep("nfd", "d", Missing)>>,
                            <<Dep("nfc", "d", Bool(TRUE)), Dep("nfd", "e", Missing)>>,
                            <<Dep("a", "d", Null)>>}}

\* What a field of the action and one of the receipt may be replaced by together.
PairedValues ==
    {Missing, Null, Other, Bool(TRUE), Opaque("other"), Map({<<Text("nfd"), Text("a")>>}),
     Array(<<>>), Array(<<Dep("nfd", "d", Missing)>>),
     Array(<<Dep("nfc", "d", Bool(TRUE)), Dep("a", "d", Missing)>>)}
    \cup {Text(t) : t \in {"", "a", "nfd", "prohibited"}}

ActionsLike(action, values) ==
    {action} \cup {[action EXCEPT ![f] = v] : f \in DOMAIN action, v \in values}

ReceiptsLike(receipt, values) ==
    {receipt} \cup {[receipt EXCEPT ![f] = v] : f \in DOMAIN receipt \ {"action"}, v \in values}

Altered(actions, receipts) ==
    {[receipt EXCEPT !.action = Object(action)] : action \in actions, receipt \in receipts}

\* A producer's digests over the content as Go reads it.
SignedInGo(document) ==
    LET action  == InGo!ParseAction(document.action[2])
        named   == [document EXCEPT !.action_digest = Sha256(action)]
        content == InGo!Content(named)
    IN  IF content = Rejected THEN named
        ELSE [named EXCEPT !.receipt_digest = Sha256(content)]

AlteredDocuments ==
    LET action  == BaseDocument.action[2]
        altered == Altered(ActionsLike(action, Values), {BaseDocument})
                   \cup Altered({action}, ReceiptsLike(BaseDocument, Values))
                   \cup Altered(ActionsLike(action, PairedValues),
                                ReceiptsLike(BaseDocument, PairedValues))
    IN  altered \cup {Resigned(document) : document \in altered}
        \cup {SignedInGo(document) :
                 document \in Altered(ActionsLike(action, Values), {BaseDocument})}

-----------------------------------------------------------------------------
(* JSON values *)

KeyTexts == {"", "a", "nfd", "z", "nfc", "shrinks", "grows", "control", "separator",
             "surrogate", "private", "astral"}

Leaves == {Null, Bool(TRUE), Other} \cup Keys

Arrays(items) == {Array(s) : s \in UNION {[1..n -> items] : n \in 0..3}}

\* Objects of up to MaxCollectionLength + 1 members, in any order.
Objects ==
    {Members([i \in 1..n |-> <<Text(keys[i]), items[i]>>]) :
        n \in {0, 1}, keys \in [1..1 -> KeyTexts], items \in [1..1 -> {Null, Text("nfd")}]}
    \cup
    {Members(<< <<Text(k), v>>, <<Text(l), w>> >>) :
        <<k, l>> \in {p \in KeyTexts \X KeyTexts : p[1] # p[2]},
        v \in {Null, Text("nfd")}, w \in {Null, Other}}
    \cup
    {Members([i \in 1..3 |-> <<Text(<<"a", "nfd", "z">>[order[i]]), Null>>]) :
        order \in Permutations(1..3)}

\* The value inside one container for each name in shape.
Nested(inner, shape) ==
    LET nested[n \in 0..Len(shape)] ==
            IF n = 0 THEN inner
            ELSE IF shape[n] = "array" THEN Array(<<nested[n - 1]>>)
            ELSE Members(<< <<Text("astral"), nested[n - 1]>>, <<Text("private"), Null>> >>)
    IN  nested[Len(shape)]

SampleValues ==
    {Nested(inner, shape) :
        inner \in Leaves \cup Arrays({Null, Text("nfd"), Text("grows")}) \cup Objects,
        shape \in UNION {[1..n -> {"array", "object"}] : n \in 0..(MaxCanonicalDepth + 1)}}

ASSUME SampleValuesAssumption == SampleValues \subseteq JsonValues

-----------------------------------------------------------------------------
Init ==
    \/ DocumentInit /\ value = Missing /\ forms = NoForms /\ again = NoForms
    \/ /\ doc = BaseDocument /\ parsed = Unread /\ reread = Unread
       /\ value \in SampleValues /\ forms = NoForms /\ again = NoForms

ReadDocument == value = Missing /\ Read /\ UNCHANGED valueVars

ReissueDocument == value = Missing /\ Reissue /\ UNCHANGED valueVars

CanonicalizeValue == value # Missing /\ ValueNext /\ UNCHANGED documentVars

Next == ReadDocument \/ ReissueDocument \/ CanonicalizeValue

Spec == Init /\ [][Next]_vars
=============================================================================
