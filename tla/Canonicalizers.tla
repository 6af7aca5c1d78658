---------------------------- MODULE Canonicalizers ----------------------------
(***************************************************************************)
(* The canonicalizers of identity.py, verifier.go, verifier.ts,            *)
(* Oncefold.cs and conformance/stdlib_check.py: what each of them makes of *)
(* a text, and in which order it sorts texts.  "shrinks" is too long as    *)
(* written and short in normal form, "grows" the other way round.          *)
(***************************************************************************)
EXTENDS JsonDocuments

Canonicalizers == {"python", "go", "typescript", "dotnet", "stdlib"}

\* Those that check depth and size.
Bounded == Canonicalizers \ {"stdlib"}

\* More than 4,096 code points, as they stand.
TooLong == {"long", "shrinks"}
\* A control character, U+2028, and half of a surrogate pair.
Prohibited == {"control", "separator", "surrogate"}

Admitted(t) == NFC(t) \notin Prohibited \cup TooLong

\* All texts in the order of their UTF-8 bytes; and where that of their
\* UTF-16 units differs.
Utf8Order == <<"", "control", "a", "nfd", "shrinks", "z", "nfc", "short", "long", "grows",
               "separator", "surrogate", "private", "astral">>
Utf16Order == <<"", "control", "a", "nfd", "shrinks", "z", "nfc", "short", "long", "grows",
                "separator", "surrogate", "astral", "private">>

Texts == {Utf8Order[i] : i \in DOMAIN Utf8Order}

\* _bounded_string with required=False: everything is checked in normal form.
PythonText(t) == IF Admitted(t) THEN Text(NFC(t)) ELSE Rejected

\* Values are checked as they stand, keys in normal form.
GoText(t) == IF t \notin Prohibited \cup TooLong THEN Text(NFC(t)) ELSE Rejected
GoKey(t) == IF Admitted(t) THEN Text(NFC(t)) ELSE Rejected

\* Where Python passes required=False, text has no such parameter.
TypeScriptText(t) == IF t # "" /\ Admitted(t) THEN Text(NFC(t)) ELSE Rejected

\* Mutant of TypeScriptOrder: the order that JavaScript sorts strings in.
TypeScriptOrder_Utf16 == Utf16Order

\* compareUtf8
TypeScriptOrder == Utf8Order

DotNetText(t) == IF Admitted(t) THEN Text(NFC(t)) ELSE Rejected

\* No length is checked and no control character; encoding a surrogate fails.
StdlibText(t) == IF t \notin {"separator", "surrogate"} THEN Text(NFC(t)) ELSE Rejected

\* The normal form of a text that is a value, and of one that is a key.
ReadText(t) == [python |-> PythonText(t), go |-> GoText(t), typescript |-> TypeScriptText(t),
                dotnet |-> DotNetText(t), stdlib |-> StdlibText(t)]
ReadKey(t) == [ReadText(t) EXCEPT !.go = GoKey(t)]

Order(canonicalizer) == IF canonicalizer = "typescript" THEN TypeScriptOrder ELSE Utf8Order
=============================================================================
