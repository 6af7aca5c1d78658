----------------------- MODULE MCIndependentConsumers ------------------------
(***************************************************************************)
(* All four consumers on every combination of deviations: the receipt's    *)
(* action differs from the current one in one field or none, and the       *)
(* receipt, the store, the policy, the result and the validator deviate    *)
(* independently of it and of each other.  A validator that raises or      *)
(* answers no Boolean exists only for Python, which calls it itself; the   *)
(* others are handed the answer of one that ran to its end.                *)
(***************************************************************************)
EXTENDS DecisionCases, IndependentConsumers

VARIABLES case, decisions

vars == <<case, decisions>>

Undone == <<>>

\* The consumers that can be given the case.
GivenTo(c) == IF c.outcome \in {"none", "pass", "reject"} THEN Consumers ELSE {"python"}

\* Where a validator cannot matter, none is given; where the receipt is
\* altered, the class is left at EXACT.
Init ==
    /\ \E action \in CurrentActions : \E receipt \in ReceiptsFor(action) :
          case \in [action : {action}, receipt : {receipt},
                    condition : IF receipt.reuse_class = "EXACT"
                                THEN Conditions ELSE {"intact"},
                    isRevoked : BOOLEAN, available : {None, Empty, "r1", "r2", Malformed},
                    outcome : IF receipt.reuse_class = "VERIFIED"
                              THEN Outcomes \cup {"none"} ELSE {"none"}]
    /\ decisions = Undone

Evaluate ==
    /\ decisions = Undone
    /\ decisions' = [consumer \in GivenTo(case) |-> DecisionOf(consumer, case, Policy)]
    /\ UNCHANGED case

Spec == Init /\ [][Evaluate]_vars

-----------------------------------------------------------------------------
Decided == decisions # Undone

\* evaluate (protocol.py:686-804) is the precedence table of PROTOCOL.md,
\* section 6, whatever combination of its conditions holds at once.
FollowsProtocolTable ==
    Decided =>
        decisions["python"] = FirstApplicable(ProtocolTable(
            case.condition, case.isRevoked, case.action, case.receipt, Policy,
            case.available, case.outcome))

\* Reuse is granted exactly on full evidence: never less (safety), and with
\* all of it always, so no check refuses what the others established.
ReusesExactlyOnEvidence ==
    Decided =>
        (decisions["python"] = "REUSABLE_EXACT"
           <=> ReuseEvidence(case.condition, case.isRevoked, case.action, case.receipt,
                             Policy, case.available, case.outcome))

\* Without an empty text anywhere in the case, the four implementations
\* decide alike: Evaluate in verifier.go:762-814, Oncefold.cs:618-648 and
\* verifier.ts:438-462, evaluate in protocol.py:686-804.
AgreeWithoutEmptyTexts ==
    Decided /\ ~HasEmptyText(case) /\ case.available # Empty =>
        \A consumer \in DOMAIN decisions : decisions[consumer] = decisions["python"]

\* TypeScript is never more permissive than the reference: it decides as
\* Python does or refuses the documents (normalize, verifier.ts:112-121).
TypeScriptIsStricter ==
    Decided /\ "typescript" \in DOMAIN decisions =>
        decisions["typescript"] \in {decisions["python"], "UNKNOWN"}

\* A revocation, in the store or in the receipt, keeps every consumer from
\* every other decision than REVOKED and UNKNOWN, empty texts included.
RevocationIsUniversal ==
    Decided /\ (case.isRevoked \/ case.receipt.revocation_ref # None) =>
        \A consumer \in DOMAIN decisions : decisions[consumer] \in {"REVOKED", "UNKNOWN"}

\* docs/CONFORMANCE.md:40-41: "A protocol change is not complete until the
\* vectors and all four implementations agree."  Agreement on what matters
\* most: what one of them reuses, all of them reuse.
ConsumersAgreeOnReuse ==
    Decided => \A consumer \in DOMAIN decisions :
        decisions[consumer] = "REUSABLE_EXACT" <=> decisions["python"] = "REUSABLE_EXACT"
=============================================================================
