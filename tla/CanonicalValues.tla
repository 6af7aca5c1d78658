--------------------------- MODULE CanonicalValues ---------------------------
(***************************************************************************)
(* A JSON value (the arguments of an action, of which only the digest      *)
(* travels) is given to the five canonicalizers, and so is an equal value: *)
(* the same one as another producer spells it, or what one of them made.   *)
(***************************************************************************)
EXTENDS CanonicalJson

VARIABLES value, forms, again   \* a value, its canonical forms, and those of an equal value

valueVars == <<value, forms, again>>

OtherSpelling(text) ==
    CASE text = Text("nfd") -> Text("nfc")
      [] text = Text("nfc") -> Text("nfd")
      [] OTHER -> text

\* other has the other spellings of the items.
OtherValue(v, other) ==
    CASE v[1] = "array" -> Array([i \in DOMAIN v[2] |-> other[v[2][i]]])
      [] v[1] = "members" ->
            Members(Reverse([i \in DOMAIN v[2] |->
                        <<OtherSpelling(v[2][i][1]), other[v[2][i][2]]>>]))
      [] OTHER -> OtherSpelling(v)

\* The same value as another producer writes it: texts in their other
\* spelling, members in the opposite order.
Respelled[n \in Nat] == [v \in JsonUpTo[n] |-> OtherValue(v, Respelled[n - 1])]

Items(v) ==
    CASE v[1] = "array" -> Range(v[2])
      [] v[1] = "members" -> {member[2] : member \in Range(v[2])}
      [] OTHER -> {}

\* The value and all values inside it.
Parts[n \in Nat] ==
    [v \in JsonUpTo[n] |-> {v} \cup UNION {Parts[n - 1][item] : item \in Items(v)}]

\* One of the texts occurs in the value, as a value; as a key or as a value.
Occurs(texts, v) == \E t \in texts : Text(t) \in Parts[MaxNesting][v]
Mentions(texts, v) ==
    \/ Occurs(texts, v)
    \/ \E part \in Parts[MaxNesting][v] :
          part[1] = "members" /\ \E t \in texts, i \in DOMAIN part[2] : part[2][i][1] = Text(t)

NoForms == [c \in Canonicalizers |-> Missing]

-----------------------------------------------------------------------------
ValueInit ==
    /\ value \in JsonValues
    /\ forms = NoForms
    /\ again = NoForms

Canonicalize ==
    /\ value # Missing
    /\ forms = NoForms
    /\ forms' = CanonicalForms(value)
    /\ UNCHANGED <<value, again>>

\* Another producer has an equal value, or reads what one of them wrote.
Recanonicalize(equal) ==
    /\ forms # NoForms
    /\ again = NoForms
    /\ equal # Rejected
    /\ again' = CanonicalForms(equal)
    /\ UNCHANGED <<value, forms>>

ValueNext ==
    \/ Canonicalize
    \/ \E equal \in {Respelled[MaxNesting][value]} \cup Range(forms) : Recanonicalize(equal)

ValueSpec == ValueInit /\ [][ValueNext]_valueVars

-----------------------------------------------------------------------------
\* A value has one canonical form, and so one digest, whoever computes it
\* (identity.py:66-105, verifier.go:102-174, verifier.ts:112-165,
\* Oncefold.cs:85-183, stdlib_check.py:102-133).  The exceptions are that
\* TypeScript takes no empty text, that Go measures a text that is a value
\* before normalizing it, and that stdlib_check.py takes what is too large.
CanonicalFormsAgree ==
    forms # NoForms =>
        /\ forms["dotnet"] = forms["python"]
        /\ forms["typescript"] = IF Mentions({""}, value) THEN Rejected ELSE forms["python"]
        /\ ~Occurs({"shrinks", "grows"}, value) => forms["go"] = forms["python"]
        /\ forms["python"] # Rejected => forms["stdlib"] = forms["python"]

\* The form does not depend on how the value is spelled or ordered, and
\* canonicalizing what was canonicalized changes nothing; only Go makes
\* forms that it would not read itself.
SpellingIsImmaterial ==
    again # NoForms =>
        \A canonicalizer \in Canonicalizers :
            \/ again[canonicalizer] = forms[canonicalizer]
            \/ canonicalizer = "go" /\ Occurs({"shrinks", "grows"}, value)
=============================================================================
