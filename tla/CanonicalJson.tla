---------------------------- MODULE CanonicalJson ----------------------------
(***************************************************************************)
(* Canonicalization of a JSON value, as all implementations do it: texts   *)
(* in normal form, keys that do not collide, members sorted, and nothing   *)
(* too deep, too large or numeric.  An object is the sequence of its       *)
(* members <<key, value>> as written; its canonical form is such a         *)
(* sequence again, and stands for the bytes.  The recursive functions over *)
(* values descend with the number of levels that a value may have.         *)
(***************************************************************************)
EXTENDS Canonicalizers, SequencesExt

CONSTANTS
    MaxCanonicalDepth,     \* 16
    MaxCollectionLength,   \* 256
    MaxNesting             \* the levels of the values considered, as many as one likes

ASSUME CanonicalJsonAssumption ==
    MaxCanonicalDepth \in Nat /\ MaxCollectionLength \in Nat /\ MaxNesting \in Nat

Members(members) == <<"members", members>>

Keys == {Text(t) : t \in Texts}

\* A null, a number or anything else that is no JSON value, a boolean or a text.
Scalars == {Null, Other} \cup {Bool(b) : b \in BOOLEAN} \cup Keys

\* The values whose items are taken from inner.
Over(inner) == Scalars \cup ({"array"} \X Seq(inner)) \cup ({"members"} \X Seq(Keys \X inner))

\* The values of at most n levels.
JsonUpTo[n \in Nat] == IF n = 0 THEN {} ELSE Over(JsonUpTo[n - 1])

JsonValues == JsonUpTo[MaxNesting]

-----------------------------------------------------------------------------
\* The place of a key in an order of the texts.
Rank(order, key) == CHOOSE i \in DOMAIN order : Text(order[i]) = key

\* The members in a sequence of n, in the order of their keys.
MembersInOrder(order, members, n) ==
    CHOOSE s \in [1..n -> members] :
        /\ Range(s) = members
        /\ \A i, j \in 1..n : i < j => Rank(order, s[i][1]) < Rank(order, s[j][1])

\* Mutant of Sorted: a colliding key overwrites the one before it.
Sorted_LastWins(c, members) ==
    LET last == {i \in DOMAIN members :
                    \A j \in DOMAIN members : members[i][1] = members[j][1] => j <= i}
    IN  Members(MembersInOrder(Order(c), {members[i] : i \in last}, Cardinality(last)))

\* The members sorted by their keys, which differ in normal form.
Sorted(c, members) ==
    IF Cardinality({members[i][1] : i \in DOMAIN members}) # Len(members) THEN Rejected
    ELSE Members(MembersInOrder(Order(c), Range(members), Len(members)))

WithinBounds(c, value, depth) ==
    c \in Bounded =>
        /\ depth <= MaxCanonicalDepth
        /\ value[1] \in {"array", "members"} => Len(value[2]) <= MaxCollectionLength

NormalArray(items) == IF Rejected \in Range(items) THEN Rejected ELSE Array(items)

NormalObject(c, members) ==
    IF \E i \in DOMAIN members : Rejected \in {members[i][1], members[i][2]} THEN Rejected
    ELSE Sorted(c, members)

\* normal has the normal forms of the items, one level deeper.
NormalValue(c, value, normal) ==
    CASE value[1] \in {"null", "boolean"} -> value
      [] value[1] = "text" -> ReadText(value[2])[c]
      [] value[1] = "array" -> NormalArray([i \in DOMAIN value[2] |-> normal[value[2][i]]])
      [] value[1] = "members" ->
            NormalObject(c, [i \in DOMAIN value[2] |->
                                <<ReadKey(value[2][i][1][2])[c], normal[value[2][i][2]]>>])
      [] OTHER -> Rejected

Normalize[n \in Nat] ==
    [c \in Canonicalizers |-> [depth \in Nat |-> [value \in JsonUpTo[n] |->
        IF ~WithinBounds(c, value, depth) THEN Rejected
        ELSE NormalValue(c, value, Normalize[n - 1][c][depth + 1])]]]

CanonicalForms(value) == [c \in Canonicalizers |-> Normalize[MaxNesting][c][0][value]]
=============================================================================
