--------------------- MODULE IndependentConsumersProofs ----------------------
(***************************************************************************)
(* What the four implementations of evaluate decide, for every case, and   *)
(* what the four parsers read, out of every document, and what the five    *)
(* canonicalizers make of every JSON value; not only for those that        *)
(* MCIndependentConsumers and MCDocuments enumerate.                       *)
(***************************************************************************)
EXTENDS MCIndependentConsumers, ReuseDecisionProofs, DocumentParsers,
        CanonicalValues, FiniteSetTheorems

\* A case that evaluate can be given: the receipt's class and its result's
\* digest are as the constructor checks them.
WellFormed(c) ==
    /\ c.condition \in Conditions
    /\ c.isRevoked \in BOOLEAN
    /\ c.outcome \in Outcomes \cup {"none"}
    /\ c.receipt.reuse_class \in {"EXACT", "VERIFIED", "ADVISORY", "UNSAFE"}
    /\ c.receipt.result_digest \notin {Empty, Malformed}

TableStateOf(c, policy) ==
    TableState(c.condition, c.isRevoked, c.action, c.receipt, policy, c.available, c.outcome)

-----------------------------------------------------------------------------
(* Python *)

\* Python's evaluate is the documented table (protocol.py:686-804).
LEMMA PythonFollowsTheTable ==
    ASSUME NEW c, NEW policy, WellFormed(c)
    PROVE  Python(c, policy) = TableStateOf(c, policy)
<1> DEFINE has == c.outcome # "none"
           v == UpToValidator(c.condition, c.isRevoked, c.action, c.receipt, policy,
                              c.available, has)
<1>1. has \in BOOLEAN /\ (has = TRUE <=> c.outcome # "none")
  OBVIOUS
<1>2. Python(c, policy) = (IF v = NeedsValidator THEN Validated(c.outcome) ELSE v).state
  BY DEF Python
<1> HIDE DEF has
<1>3. v.state = InOrder(c.condition, c.isRevoked, c.action, c.receipt, policy, c.available, has)
  BY ChecksInOrder DEF WellFormed
<1>4. v = NeedsValidator <=> v.state = "undecided"
  <2>1. v # NeedsValidator => v.state \in DecisionStates
    BY <1>1, ChecksAreSound DEF WellFormed
  <2> QED
    BY <2>1, Handovers DEF DecisionStates
<1> HIDE DEF v
<1>5. CASE v # NeedsValidator
  <2>1. v.state = TableStateOf(c, policy)
    BY <1>1, <1>3, <1>4, <1>5, StatesOfChecks DEF TableState, TableStateOf, InOrder, WellFormed
  <2> QED
    BY <1>2, <1>5, <2>1
<1>6. CASE v = NeedsValidator
  <2>1. /\ c.outcome \in Outcomes
        /\ TableStateOf(c, policy)
             = IF c.outcome = "pass" THEN "REUSABLE_EXACT"
               ELSE IF c.outcome = "reject" THEN "STALE" ELSE "UNKNOWN"
    BY <1>1, <1>3, <1>4, <1>6, StatesOfChecks
       DEF TableState, TableStateOf, InOrder, WellFormed, Outcomes
  <2>2. Validated(c.outcome).state
          = IF c.outcome = "pass" THEN "REUSABLE_EXACT"
            ELSE IF c.outcome = "reject" THEN "STALE" ELSE "UNKNOWN"
    BY <2>1, VerdictParts DEF Validated, Outcomes
  <2> QED
    BY <1>2, <1>6, <2>1, <2>2
<1> QED
  BY <1>5, <1>6
-----------------------------------------------------------------------------
(* The other three *)

\* The first of 16 rules that applies, as a chain of conditions.
LEMMA FirstOf16 ==
    ASSUME NEW t, DOMAIN t = 1..16, t[16].when
    PROVE  FirstApplicable(t) =
             IF t[1].when THEN t[1].state ELSE IF t[2].when THEN t[2].state
             ELSE IF t[3].when THEN t[3].state ELSE IF t[4].when THEN t[4].state
             ELSE IF t[5].when THEN t[5].state ELSE IF t[6].when THEN t[6].state
             ELSE IF t[7].when THEN t[7].state ELSE IF t[8].when THEN t[8].state
             ELSE IF t[9].when THEN t[9].state ELSE IF t[10].when THEN t[10].state
             ELSE IF t[11].when THEN t[11].state ELSE IF t[12].when THEN t[12].state
             ELSE IF t[13].when THEN t[13].state ELSE IF t[14].when THEN t[14].state
             ELSE IF t[15].when THEN t[15].state ELSE t[16].state
<1> DEFINE W(i) == t[i].when
           S(i) == t[i].state
           D == FirstApplicable(t)
<1>1. ASSUME NEW i \in 1..16, W(i), \A j \in 1..16 : j < i => ~W(j)
      PROVE  D = S(i)
  BY <1>1, FirstRowDecides
<1>2. W(16)
  OBVIOUS
<1> HIDE DEF W, S, D
<1>3. D = IF W(1) THEN S(1) ELSE IF W(2) THEN S(2) ELSE IF W(3) THEN S(3)
          ELSE IF W(4) THEN S(4) ELSE IF W(5) THEN S(5) ELSE IF W(6) THEN S(6)
          ELSE IF W(7) THEN S(7) ELSE IF W(8) THEN S(8) ELSE IF W(9) THEN S(9)
          ELSE IF W(10) THEN S(10) ELSE IF W(11) THEN S(11) ELSE IF W(12) THEN S(12)
          ELSE IF W(13) THEN S(13) ELSE IF W(14) THEN S(14) ELSE IF W(15) THEN S(15)
          ELSE S(16)
  BY <1>1, <1>2
<1> QED
  BY <1>3 DEF W, S, D

\* The first of 20 rules that applies, as a chain of conditions.
LEMMA FirstOf20 ==
    ASSUME NEW t, DOMAIN t = 1..20, t[20].when
    PROVE  FirstApplicable(t) =
             IF t[1].when THEN t[1].state ELSE IF t[2].when THEN t[2].state
             ELSE IF t[3].when THEN t[3].state ELSE IF t[4].when THEN t[4].state
             ELSE IF t[5].when THEN t[5].state ELSE IF t[6].when THEN t[6].state
             ELSE IF t[7].when THEN t[7].state ELSE IF t[8].when THEN t[8].state
             ELSE IF t[9].when THEN t[9].state ELSE IF t[10].when THEN t[10].state
             ELSE IF t[11].when THEN t[11].state ELSE IF t[12].when THEN t[12].state
             ELSE IF t[13].when THEN t[13].state ELSE IF t[14].when THEN t[14].state
             ELSE IF t[15].when THEN t[15].state ELSE IF t[16].when THEN t[16].state
             ELSE IF t[17].when THEN t[17].state ELSE IF t[18].when THEN t[18].state
             ELSE IF t[19].when THEN t[19].state ELSE t[20].state
<1> DEFINE W(i) == t[i].when
           S(i) == t[i].state
           D == FirstApplicable(t)
<1>1. ASSUME NEW i \in 1..20, W(i), \A j \in 1..20 : j < i => ~W(j)
      PROVE  D = S(i)
  BY <1>1, FirstRowDecides
<1>2. W(20)
  OBVIOUS
<1> HIDE DEF W, S, D
<1>3. D = IF W(1) THEN S(1) ELSE IF W(2) THEN S(2) ELSE IF W(3) THEN S(3)
          ELSE IF W(4) THEN S(4) ELSE IF W(5) THEN S(5) ELSE IF W(6) THEN S(6)
          ELSE IF W(7) THEN S(7) ELSE IF W(8) THEN S(8) ELSE IF W(9) THEN S(9)
          ELSE IF W(10) THEN S(10) ELSE IF W(11) THEN S(11) ELSE IF W(12) THEN S(12)
          ELSE IF W(13) THEN S(13) ELSE IF W(14) THEN S(14) ELSE IF W(15) THEN S(15)
          ELSE IF W(16) THEN S(16) ELSE IF W(17) THEN S(17) ELSE IF W(18) THEN S(18)
          ELSE IF W(19) THEN S(19) ELSE S(20)
  BY <1>1, <1>2
<1> QED
  BY <1>3 DEF W, S, D

-----------------------------------------------------------------------------
(* TypeScript *)

\* When each rule applies.
LEMMA TypeScriptRows ==
    ASSUME NEW c, NEW policy, c.isRevoked \in BOOLEAN
    PROVE  LET t == TypeScriptRules(c, policy)
           IN  /\ DOMAIN t = 1..20
               /\ t[1].when <=> HasEmptyText(c)
               /\ t[2].when <=> c.isRevoked \/ c.receipt.revocation_ref # None
               /\ t[3].when <=> c.action.trust_scope # c.receipt.trust_scope
               /\ t[4].when <=> c.action.trust_scope # c.receipt.action.trust_scope
               /\ t[5].when <=>
                     c.action.authorization_scope_digest
                        # c.receipt.action.authorization_scope_digest
               /\ t[6].when <=> ~ReadOnly(c.action) \/ ~ReadOnly(c.receipt.action)
               /\ t[7].when <=> c.receipt.reuse_class = "UNSAFE"
               /\ t[8].when <=> ~Complete(c.action) \/ ~Complete(c.receipt.action)
               /\ t[9].when <=> c.action # c.receipt.action
               /\ t[10].when <=> c.action.dependencies # c.receipt.dependency_snapshot
               /\ t[11].when <=> c.available \notin {None, c.receipt.result_digest}
               /\ t[12].when <=> c.receipt.reuse_class = "EXACT" /\ ~Admits(policy, c.receipt)
               /\ t[13].when <=> c.receipt.reuse_class = "EXACT"
               /\ t[14].when <=>
                     c.receipt.reuse_class = "VERIFIED" /\ ~Admits(policy, c.receipt)
               /\ t[15].when <=>
                     /\ c.receipt.reuse_class = "VERIFIED"
                     /\ \/ c.receipt.validator_identity = None
                        \/ c.receipt.validator_identity # c.action.validator_identity
               /\ t[16].when <=> c.receipt.reuse_class = "VERIFIED" /\ c.outcome = "none"
               /\ t[17].when <=> c.receipt.reuse_class = "VERIFIED" /\ c.outcome = "pass"
               /\ t[18].when <=> c.receipt.reuse_class = "VERIFIED"
               /\ t[19].when <=> c.receipt.reuse_class = "ADVISORY"
               /\ t[20].when
<1> DEFINE t == TypeScriptRules(c, policy)
<1>0. DOMAIN t = 1..20
  BY DEF TypeScriptRules
<1>1. t[1].when <=> HasEmptyText(c)
  BY DEF TypeScriptRules
<1>2. t[2].when <=> c.isRevoked \/ c.receipt.revocation_ref # None
  BY DEF TypeScriptRules
<1>3. t[3].when <=> c.action.trust_scope # c.receipt.trust_scope
  BY DEF TypeScriptRules
<1>4. t[4].when <=> c.action.trust_scope # c.receipt.action.trust_scope
  BY DEF TypeScriptRules
<1>5. t[5].when <=>
        \/ c.action.authorization_scope_digest # c.receipt.action.authorization_scope_digest
  BY DEF TypeScriptRules
<1>6. t[6].when <=> ~ReadOnly(c.action) \/ ~ReadOnly(c.receipt.action)
  BY DEF TypeScriptRules
<1>7. t[7].when <=> c.receipt.reuse_class = "UNSAFE"
  BY DEF TypeScriptRules
<1>8. t[8].when <=> ~Complete(c.action) \/ ~Complete(c.receipt.action)
  BY DEF TypeScriptRules
<1>9. t[9].when <=> c.action # c.receipt.action
  BY DEF TypeScriptRules
<1>10. t[10].when <=> c.action.dependencies # c.receipt.dependency_snapshot
  BY DEF TypeScriptRules
<1>11. t[11].when <=> c.available \notin {None, c.receipt.result_digest}
  BY DEF TypeScriptRules
<1>12. t[12].when <=> c.receipt.reuse_class = "EXACT" /\ ~Admits(policy, c.receipt)
  BY DEF TypeScriptRules
<1>13. t[13].when <=> c.receipt.reuse_class = "EXACT"
  BY DEF TypeScriptRules
<1>14. t[14].when <=> c.receipt.reuse_class = "VERIFIED" /\ ~Admits(policy, c.receipt)
  BY DEF TypeScriptRules
<1>15. t[15].when <=>
        /\ c.receipt.reuse_class = "VERIFIED"
        /\ \/ c.receipt.validator_identity = None
           \/ c.receipt.validator_identity # c.action.validator_identity
  BY DEF TypeScriptRules
<1>16. t[16].when <=> c.receipt.reuse_class = "VERIFIED" /\ c.outcome = "none"
  BY DEF TypeScriptRules
<1>17. t[17].when <=> c.receipt.reuse_class = "VERIFIED" /\ c.outcome = "pass"
  BY DEF TypeScriptRules
<1>18. t[18].when <=> c.receipt.reuse_class = "VERIFIED"
  BY DEF TypeScriptRules
<1>19. t[19].when <=> c.receipt.reuse_class = "ADVISORY"
  BY DEF TypeScriptRules
<1>20. t[20].when
  BY DEF TypeScriptRules
<1> HIDE DEF t
<1> QED
  BY <1>0, <1>1, <1>2, <1>3, <1>4, <1>5, <1>6, <1>7, <1>8, <1>9, <1>10,
     <1>11, <1>12, <1>13, <1>14, <1>15, <1>16, <1>17, <1>18, <1>19, <1>20
     DEF t

\* What each rule says.
LEMMA TypeScriptStates ==
    ASSUME NEW c, NEW policy
    PROVE  LET t == TypeScriptRules(c, policy)
           IN  /\ t[1].state = "UNKNOWN"
               /\ t[2].state = "REVOKED"
               /\ t[3].state = "SCOPE_MISMATCH"
               /\ t[4].state = "SCOPE_MISMATCH"
               /\ t[5].state = "SCOPE_MISMATCH"
               /\ t[6].state = "UNSAFE"
               /\ t[7].state = "UNSAFE"
               /\ t[8].state = "UNKNOWN"
               /\ t[9].state = "STALE"
               /\ t[10].state = "STALE"
               /\ t[11].state = "UNKNOWN"
               /\ t[12].state = "UNKNOWN"
               /\ t[13].state = "REUSABLE_EXACT"
               /\ t[14].state = "UNKNOWN"
               /\ t[15].state = "REQUIRES_VALIDATION"
               /\ t[16].state = "REQUIRES_VALIDATION"
               /\ t[17].state = "REUSABLE_EXACT"
               /\ t[18].state = "STALE"
               /\ t[19].state = "ADVISORY_ONLY"
               /\ t[20].state = "UNSAFE"
BY DEF TypeScriptRules

\* TypeScript decides as the table, or refuses an empty text
\* (verifier.ts:438-462).
LEMMA TypeScriptFollowsTheTable ==
    ASSUME NEW c, NEW policy, WellFormed(c), c.outcome \in {"none", "pass", "reject"}
    PROVE  TypeScript(c, policy)
             = IF HasEmptyText(c) THEN "UNKNOWN" ELSE TableStateOf(c, policy)
<1> DEFINE t == TypeScriptRules(c, policy)
<1>1. DOMAIN t = 1..20 /\ t[20].when
  BY TypeScriptRows DEF WellFormed
<1>2. FirstApplicable(t) =
             IF t[1].when THEN t[1].state ELSE IF t[2].when THEN t[2].state
             ELSE IF t[3].when THEN t[3].state ELSE IF t[4].when THEN t[4].state
             ELSE IF t[5].when THEN t[5].state ELSE IF t[6].when THEN t[6].state
             ELSE IF t[7].when THEN t[7].state ELSE IF t[8].when THEN t[8].state
             ELSE IF t[9].when THEN t[9].state ELSE IF t[10].when THEN t[10].state
             ELSE IF t[11].when THEN t[11].state ELSE IF t[12].when THEN t[12].state
             ELSE IF t[13].when THEN t[13].state ELSE IF t[14].when THEN t[14].state
             ELSE IF t[15].when THEN t[15].state ELSE IF t[16].when THEN t[16].state
             ELSE IF t[17].when THEN t[17].state ELSE IF t[18].when THEN t[18].state
             ELSE IF t[19].when THEN t[19].state ELSE t[20].state
  <2> HIDE DEF t
  <2> QED
    BY <1>1, FirstOf20
<1> QED
  BY <1>2, TypeScriptRows, TypeScriptStates
     DEF TypeScript, Parsed, TableStateOf, TableState, WellFormed, Conditions, Authoritative,
         ValidatorMatches, HasEmptyText

-----------------------------------------------------------------------------
(* Go *)

\* When each rule applies.
LEMMA GoRows ==
    ASSUME NEW c, NEW policy, c.isRevoked \in BOOLEAN
    PROVE  LET t == GoRules(c, policy)
           IN  /\ DOMAIN t = 1..16
               /\ t[1].when <=> c.isRevoked \/ c.receipt.revocation_ref # None
               /\ t[2].when <=>
                     \/ c.action.trust_scope # c.receipt.trust_scope
                     \/ c.action.trust_scope # c.receipt.action.trust_scope
                     \/ PointerString(c.action.authorization_scope_digest)
                           # PointerString(c.receipt.action.authorization_scope_digest)
               /\ t[3].when <=> ~ReadOnly(c.action) \/ ~ReadOnly(c.receipt.action)
               /\ t[4].when <=> c.receipt.reuse_class = "UNSAFE"
               /\ t[5].when <=> ~Complete(c.action) \/ ~Complete(c.receipt.action)
               /\ t[6].when <=> c.action # c.receipt.action
               /\ t[7].when <=> c.action.dependencies # c.receipt.dependency_snapshot
               /\ t[8].when <=> ResultRefused(c)
               /\ t[9].when <=> Authoritative(c.receipt) /\ ~Admits(policy, c.receipt)
               /\ t[10].when <=> c.receipt.reuse_class = "EXACT"
               /\ t[11].when <=>
                     /\ c.receipt.reuse_class = "VERIFIED"
                     /\ \/ c.receipt.validator_identity = None
                        \/ PointerString(c.receipt.validator_identity)
                              # PointerString(c.action.validator_identity)
               /\ t[12].when <=> c.receipt.reuse_class = "VERIFIED" /\ c.outcome = "none"
               /\ t[13].when <=> c.receipt.reuse_class = "VERIFIED" /\ c.outcome = "pass"
               /\ t[14].when <=> c.receipt.reuse_class = "VERIFIED"
               /\ t[15].when <=> c.receipt.reuse_class = "ADVISORY"
               /\ t[16].when
<1> DEFINE t == GoRules(c, policy)
<1>0. DOMAIN t = 1..16
  BY DEF GoRules
<1>1. t[1].when <=> c.isRevoked \/ c.receipt.revocation_ref # None
  BY DEF GoRules
<1>2. t[2].when <=>
        \/ c.action.trust_scope # c.receipt.trust_scope
        \/ c.action.trust_scope # c.receipt.action.trust_scope
        \/ PointerString(c.action.authorization_scope_digest)
              # PointerString(c.receipt.action.authorization_scope_digest)
  BY DEF GoRules
<1>3. t[3].when <=> ~ReadOnly(c.action) \/ ~ReadOnly(c.receipt.action)
  BY DEF GoRules
<1>4. t[4].when <=> c.receipt.reuse_class = "UNSAFE"
  BY DEF GoRules
<1>5. t[5].when <=> ~Complete(c.action) \/ ~Complete(c.receipt.action)
  BY DEF GoRules
<1>6. t[6].when <=> c.action # c.receipt.action
  BY DEF GoRules
<1>7. t[7].when <=> c.action.dependencies # c.receipt.dependency_snapshot
  BY DEF GoRules
<1>8. t[8].when <=> ResultRefused(c)
  BY DEF GoRules
<1>9. t[9].when <=> Authoritative(c.receipt) /\ ~Admits(policy, c.receipt)
  BY DEF GoRules
<1>10. t[10].when <=> c.receipt.reuse_class = "EXACT"
  BY DEF GoRules
<1>11. t[11].when <=>
        /\ c.receipt.reuse_class = "VERIFIED"
        /\ \/ c.receipt.validator_identity = None
           \/ PointerString(c.receipt.validator_identity)
                 # PointerString(c.action.validator_identity)
  BY DEF GoRules
<1>12. t[12].when <=> c.receipt.reuse_class = "VERIFIED" /\ c.outcome = "none"
  BY DEF GoRules
<1>13. t[13].when <=> c.receipt.reuse_class = "VERIFIED" /\ c.outcome = "pass"
  BY DEF GoRules
<1>14. t[14].when <=> c.receipt.reuse_class = "VERIFIED"
  BY DEF GoRules
<1>15. t[15].when <=> c.receipt.reuse_class = "ADVISORY"
  BY DEF GoRules
<1>16. t[16].when
  BY DEF GoRules
<1> HIDE DEF t
<1> QED
  BY <1>0, <1>1, <1>2, <1>3, <1>4, <1>5, <1>6, <1>7, <1>8, <1>9, <1>10,
     <1>11, <1>12, <1>13, <1>14, <1>15, <1>16
     DEF t

\* What each rule says.
LEMMA GoStates ==
    ASSUME NEW c, NEW policy
    PROVE  LET t == GoRules(c, policy)
           IN  /\ t[1].state = "REVOKED"
               /\ t[2].state = "SCOPE_MISMATCH"
               /\ t[3].state = "UNSAFE"
               /\ t[4].state = "UNSAFE"
               /\ t[5].state = "UNKNOWN"
               /\ t[6].state = "STALE"
               /\ t[7].state = "STALE"
               /\ t[8].state = "UNKNOWN"
               /\ t[9].state = "UNKNOWN"
               /\ t[10].state = "REUSABLE_EXACT"
               /\ t[11].state = "REQUIRES_VALIDATION"
               /\ t[12].state = "REQUIRES_VALIDATION"
               /\ t[13].state = "REUSABLE_EXACT"
               /\ t[14].state = "STALE"
               /\ t[15].state = "ADVISORY_ONLY"
               /\ t[16].state = "UNSAFE"
BY DEF GoRules

\* Go decides as the table where no text is empty (verifier.go:762-814).
LEMMA GoFollowsTheTable ==
    ASSUME NEW c, NEW policy, WellFormed(c), c.outcome \in {"none", "pass", "reject"},
           ~HasEmptyText(c), c.available # Empty,
           c.action.authorization_scope_digest # Empty,
           c.receipt.action.authorization_scope_digest # Empty
    PROVE  Go(c, policy) = TableStateOf(c, policy)
<1> DEFINE t == GoRules(c, policy)
<1>1. DOMAIN t = 1..16 /\ t[16].when
  BY GoRows DEF WellFormed
<1>2. FirstApplicable(t) =
             IF t[1].when THEN t[1].state ELSE IF t[2].when THEN t[2].state
             ELSE IF t[3].when THEN t[3].state ELSE IF t[4].when THEN t[4].state
             ELSE IF t[5].when THEN t[5].state ELSE IF t[6].when THEN t[6].state
             ELSE IF t[7].when THEN t[7].state ELSE IF t[8].when THEN t[8].state
             ELSE IF t[9].when THEN t[9].state ELSE IF t[10].when THEN t[10].state
             ELSE IF t[11].when THEN t[11].state ELSE IF t[12].when THEN t[12].state
             ELSE IF t[13].when THEN t[13].state ELSE IF t[14].when THEN t[14].state
             ELSE IF t[15].when THEN t[15].state ELSE t[16].state
  <2> HIDE DEF t
  <2> QED
    BY <1>1, FirstOf16
<1> QED
  BY <1>2, GoRows, GoStates
     DEF Go, Parsed, TableStateOf, TableState, WellFormed, Conditions, Authoritative,
         ValidatorMatches, HasEmptyText, PointerString, ResultRefused

-----------------------------------------------------------------------------
(* .NET *)

\* When each rule applies.
LEMMA DotNetRows ==
    ASSUME NEW c, NEW policy, c.isRevoked \in BOOLEAN
    PROVE  LET t == DotNetRules(c, policy)
           IN  /\ DOMAIN t = 1..16
               /\ t[1].when <=> c.isRevoked \/ c.receipt.revocation_ref # None
               /\ t[2].when <=>
                     \/ c.action.trust_scope # c.receipt.trust_scope
                     \/ c.action.trust_scope # c.receipt.action.trust_scope
                     \/ c.action.authorization_scope_digest
                           # c.receipt.action.authorization_scope_digest
               /\ t[3].when <=> ~(ReadOnly(c.action) /\ ReadOnly(c.receipt.action))
               /\ t[4].when <=> c.receipt.reuse_class = "UNSAFE"
               /\ t[5].when <=> ~(Complete(c.action) /\ Complete(c.receipt.action))
               /\ t[6].when <=> c.action # c.receipt.action
               /\ t[7].when <=> c.action.dependencies # c.receipt.dependency_snapshot
               /\ t[8].when <=> c.available \notin {None, c.receipt.result_digest}
               /\ t[9].when <=> Authoritative(c.receipt) /\ ~Admits(policy, c.receipt)
               /\ t[10].when <=> c.receipt.reuse_class = "EXACT"
               /\ t[11].when <=>
                     /\ c.receipt.reuse_class = "VERIFIED"
                     /\ \/ c.receipt.validator_identity = None
                        \/ c.receipt.validator_identity # c.action.validator_identity
               /\ t[12].when <=> c.receipt.reuse_class = "VERIFIED" /\ c.outcome = "none"
               /\ t[13].when <=> c.receipt.reuse_class = "VERIFIED" /\ c.outcome = "pass"
               /\ t[14].when <=> c.receipt.reuse_class = "VERIFIED"
               /\ t[15].when <=> c.receipt.reuse_class = "ADVISORY"
               /\ t[16].when
<1> DEFINE t == DotNetRules(c, policy)
<1>0. DOMAIN t = 1..16
  BY DEF DotNetRules
<1>1. t[1].when <=> c.isRevoked \/ c.receipt.revocation_ref # None
  BY DEF DotNetRules
<1>2. t[2].when <=>
        \/ c.action.trust_scope # c.receipt.trust_scope
        \/ c.action.trust_scope # c.receipt.action.trust_scope
        \/ c.action.authorization_scope_digest # c.receipt.action.authorization_scope_digest
  BY DEF DotNetRules
<1>3. t[3].when <=> ~(ReadOnly(c.action) /\ ReadOnly(c.receipt.action))
  BY DEF DotNetRules
<1>4. t[4].when <=> c.receipt.reuse_class = "UNSAFE"
  BY DEF DotNetRules
<1>5. t[5].when <=> ~(Complete(c.action) /\ Complete(c.receipt.action))
  BY DEF DotNetRules
<1>6. t[6].when <=> c.action # c.receipt.action
  BY DEF DotNetRules
<1>7. t[7].when <=> c.action.dependencies # c.receipt.dependency_snapshot
  BY DEF DotNetRules
<1>8. t[8].when <=> c.available \notin {None, c.receipt.result_digest}
  BY DEF DotNetRules
<1>9. t[9].when <=> Authoritative(c.receipt) /\ ~Admits(policy, c.receipt)
  BY DEF DotNetRules
<1>10. t[10].when <=> c.receipt.reuse_class = "EXACT"
  BY DEF DotNetRules
<1>11. t[11].when <=>
        /\ c.receipt.reuse_class = "VERIFIED"
        /\ \/ c.receipt.validator_identity = None
           \/ c.receipt.validator_identity # c.action.validator_identity
  BY DEF DotNetRules
<1>12. t[12].when <=> c.receipt.reuse_class = "VERIFIED" /\ c.outcome = "none"
  BY DEF DotNetRules
<1>13. t[13].when <=> c.receipt.reuse_class = "VERIFIED" /\ c.outcome = "pass"
  BY DEF DotNetRules
<1>14. t[14].when <=> c.receipt.reuse_class = "VERIFIED"
  BY DEF DotNetRules
<1>15. t[15].when <=> c.receipt.reuse_class = "ADVISORY"
  BY DEF DotNetRules
<1>16. t[16].when
  BY DEF DotNetRules
<1> HIDE DEF t
<1> QED
  BY <1>0, <1>1, <1>2, <1>3, <1>4, <1>5, <1>6, <1>7, <1>8, <1>9, <1>10,
     <1>11, <1>12, <1>13, <1>14, <1>15, <1>16
     DEF t

\* What each rule says.
LEMMA DotNetStates ==
    ASSUME NEW c, NEW policy
    PROVE  LET t == DotNetRules(c, policy)
           IN  /\ t[1].state = "REVOKED"
               /\ t[2].state = "SCOPE_MISMATCH"
               /\ t[3].state = "UNSAFE"
               /\ t[4].state = "UNSAFE"
               /\ t[5].state = "UNKNOWN"
               /\ t[6].state = "STALE"
               /\ t[7].state = "STALE"
               /\ t[8].state = "UNKNOWN"
               /\ t[9].state = "UNKNOWN"
               /\ t[10].state = "REUSABLE_EXACT"
               /\ t[11].state = "REQUIRES_VALIDATION"
               /\ t[12].state = "REQUIRES_VALIDATION"
               /\ t[13].state = "REUSABLE_EXACT"
               /\ t[14].state = "STALE"
               /\ t[15].state = "ADVISORY_ONLY"
               /\ t[16].state = "UNSAFE"
BY DEF DotNetRules

\* .NET decides as the table where no text is empty (Oncefold.cs:618-648).
LEMMA DotNetFollowsTheTable ==
    ASSUME NEW c, NEW policy, WellFormed(c), c.outcome \in {"none", "pass", "reject"},
           ~HasEmptyText(c)
    PROVE  DotNet(c, policy) = TableStateOf(c, policy)
<1> DEFINE t == DotNetRules(c, policy)
<1>1. DOMAIN t = 1..16 /\ t[16].when
  BY DotNetRows DEF WellFormed
<1>2. FirstApplicable(t) =
             IF t[1].when THEN t[1].state ELSE IF t[2].when THEN t[2].state
             ELSE IF t[3].when THEN t[3].state ELSE IF t[4].when THEN t[4].state
             ELSE IF t[5].when THEN t[5].state ELSE IF t[6].when THEN t[6].state
             ELSE IF t[7].when THEN t[7].state ELSE IF t[8].when THEN t[8].state
             ELSE IF t[9].when THEN t[9].state ELSE IF t[10].when THEN t[10].state
             ELSE IF t[11].when THEN t[11].state ELSE IF t[12].when THEN t[12].state
             ELSE IF t[13].when THEN t[13].state ELSE IF t[14].when THEN t[14].state
             ELSE IF t[15].when THEN t[15].state ELSE t[16].state
  <2> HIDE DEF t
  <2> QED
    BY <1>1, FirstOf16
<1> QED
  BY <1>2, DotNetRows, DotNetStates
     DEF DotNet, Parsed, TableStateOf, TableState, WellFormed, Conditions, Authoritative,
         ValidatorMatches, HasEmptyText

\* A revocation is Go's first check.
LEMMA GoRevokes ==
    ASSUME NEW c, NEW policy, WellFormed(c),
           c.isRevoked = TRUE \/ c.receipt.revocation_ref # None
    PROVE  Go(c, policy) \in {"REVOKED", "UNKNOWN"}
<1> DEFINE t == GoRules(c, policy)
<1>1. DOMAIN t = 1..16 /\ t[1].when /\ t[1].state = "REVOKED"
  BY GoRows, GoStates DEF WellFormed
<1>2. FirstApplicable(t) = "REVOKED"
  <2> HIDE DEF t
  <2> QED
    BY <1>1, FirstRowDecides
<1> QED
  BY <1>2 DEF Go, Parsed

\* A revocation is .NET's first check.
LEMMA DotNetRevokes ==
    ASSUME NEW c, NEW policy, WellFormed(c),
           c.isRevoked = TRUE \/ c.receipt.revocation_ref # None
    PROVE  DotNet(c, policy) \in {"REVOKED", "UNKNOWN"}
<1> DEFINE t == DotNetRules(c, policy)
<1>1. DOMAIN t = 1..16 /\ t[1].when /\ t[1].state = "REVOKED"
  BY DotNetRows, DotNetStates DEF WellFormed
<1>2. FirstApplicable(t) = "REVOKED"
  <2> HIDE DEF t
  <2> QED
    BY <1>1, FirstRowDecides
<1> QED
  BY <1>2 DEF DotNet, Parsed

-----------------------------------------------------------------------------
(* The theorems *)

\* Reuse takes all of its evidence and nothing else.
LEMMA EvidenceIsTheTable ==
    ASSUME NEW c, NEW policy, WellFormed(c)
    PROVE  TableStateOf(c, policy) = "REUSABLE_EXACT" <=>
             ReuseEvidence(c.condition, c.isRevoked, c.action, c.receipt, policy,
                           c.available, c.outcome)
BY DEF TableStateOf, TableState, WellFormed, ReuseEvidence, Conditions, Authoritative

\* The cases of the run are such cases, and have no empty digests.
CaseOK(c) ==
    /\ WellFormed(c)
    /\ c.action.authorization_scope_digest # Empty
    /\ c.receipt.action.authorization_scope_digest # Empty

IInv ==
    /\ CaseOK(case)
    /\ Decided =>
          decisions = [consumer \in GivenTo(case) |-> DecisionOf(consumer, case, Policy)]

\* At first one of the cases is given.
LEMMA IInvInit == Init => IInv
<1> SUFFICES ASSUME Init PROVE CaseOK(case)
  BY DEF Init, IInv, Decided
<1>1. PICK action \in CurrentActions : \E receipt \in ReceiptsFor(action) :
        case \in [action : {action}, receipt : {receipt},
                  condition : IF receipt.reuse_class = "EXACT"
                              THEN Conditions ELSE {"intact"},
                  isRevoked : BOOLEAN, available : {None, Empty, "r1", "r2", Malformed},
                  outcome : IF receipt.reuse_class = "VERIFIED"
                            THEN Outcomes \cup {"none"} ELSE {"none"}]
  BY DEF Init
<1>2. PICK receipt \in ReceiptsFor(action) :
        /\ case.action = action /\ case.receipt = receipt
        /\ case.condition \in Conditions /\ case.isRevoked \in BOOLEAN
        /\ case.outcome \in Outcomes \cup {"none"}
  BY <1>1 DEF Conditions
<1>3. /\ receipt.reuse_class \in {"EXACT", "VERIFIED", "ADVISORY", "UNSAFE"}
      /\ receipt.result_digest = "r1" /\ receipt.action \in Deviations(action)
  BY DEF ReceiptsFor
<1>4. action.authorization_scope_digest = None
  BY DEF CurrentActions
<1>5. receipt.action.authorization_scope_digest \in {None, "a1"}
  BY <1>3, <1>4 DEF Deviations, CurrentActions
<1> QED
  BY <1>2, <1>3, <1>4, <1>5, DistinctAbsences, DigestsAreTexts DEF CaseOK, WellFormed

\* A case is decided once.
LEMMA IInvNext == IInv /\ [Evaluate]_vars => IInv'
BY DEF IInv, Evaluate, vars, Decided

\* So every decision is one consumer's of the case.
LEMMA Invariance == Spec => []IInv
BY IInvInit, IInvNext, PTL DEF Spec

\* What each consumer decides.
LEMMA Decisions ==
    ASSUME IInv, Decided
    PROVE  /\ DOMAIN decisions \subseteq Consumers
           /\ DOMAIN decisions # {"python"} => case.outcome \in {"none", "pass", "reject"}
           /\ "python" \in DOMAIN decisions
           /\ decisions["python"] = Python(case, Policy)
           /\ "typescript" \in DOMAIN decisions =>
                 decisions["typescript"] = TypeScript(case, Policy)
           /\ "go" \in DOMAIN decisions => decisions["go"] = Go(case, Policy)
           /\ "dotnet" \in DOMAIN decisions => decisions["dotnet"] = DotNet(case, Policy)
BY DEF IInv, GivenTo, Consumers, DecisionOf

\* Python's evaluate is the precedence table of PROTOCOL.md, section 6
\* (protocol.py:686-804).
THEOREM TableFollowed == Spec => []FollowsProtocolTable
<1>1. IInv => FollowsProtocolTable
  BY Decisions, PythonFollowsTheTable, TableDecides
     DEF FollowsProtocolTable, IInv, CaseOK, WellFormed, TableStateOf
<1> QED
  BY <1>1, Invariance, PTL

\* Reuse is granted exactly on full evidence (protocol.py:686-804).
THEOREM ReuseOnEvidence == Spec => []ReusesExactlyOnEvidence
<1>1. IInv => ReusesExactlyOnEvidence
  BY Decisions, PythonFollowsTheTable, EvidenceIsTheTable
     DEF ReusesExactlyOnEvidence, IInv, CaseOK
<1> QED
  BY <1>1, Invariance, PTL

\* Without empty texts the four implementations decide alike
\* (protocol.py:686-804, verifier.ts:438-462, verifier.go:762-814,
\* Oncefold.cs:618-648).
THEOREM Agreement == Spec => []AgreeWithoutEmptyTexts
<1>1. ASSUME IInv, Decided, ~HasEmptyText(case), case.available # Empty,
             NEW consumer \in DOMAIN decisions
      PROVE  decisions[consumer] = decisions["python"]
  <2>1. consumer # "python" => case.outcome \in {"none", "pass", "reject"}
    BY <1>1, Decisions
  <2>2. WellFormed(case) /\ decisions["python"] = TableStateOf(case, Policy)
    BY <1>1, Decisions, PythonFollowsTheTable DEF IInv, CaseOK
  <2>3. CASE consumer = "typescript"
    BY <1>1, <2>1, <2>2, <2>3, Decisions, TypeScriptFollowsTheTable
  <2>4. CASE consumer = "go"
    BY <1>1, <2>1, <2>2, <2>4, Decisions, GoFollowsTheTable DEF IInv, CaseOK
  <2>5. CASE consumer = "dotnet"
    BY <1>1, <2>1, <2>2, <2>5, Decisions, DotNetFollowsTheTable
  <2> QED
    BY <1>1, <2>3, <2>4, <2>5, Decisions DEF Consumers
<1>2. IInv => AgreeWithoutEmptyTexts
  BY <1>1 DEF AgreeWithoutEmptyTexts
<1> QED
  BY <1>2, Invariance, PTL

\* TypeScript decides as Python or refuses the documents (verifier.ts:112-121).
THEOREM TypeScriptRefuses == Spec => []TypeScriptIsStricter
<1>1. IInv => TypeScriptIsStricter
  BY Decisions, PythonFollowsTheTable, TypeScriptFollowsTheTable
     DEF TypeScriptIsStricter, IInv, CaseOK
<1> QED
  BY <1>1, Invariance, PTL

\* A revocation keeps every consumer from every other decision than REVOKED and
\* UNKNOWN, empty texts included.
THEOREM Revocation == Spec => []RevocationIsUniversal
<1>1. ASSUME IInv, Decided, case.isRevoked \/ case.receipt.revocation_ref # None,
             NEW consumer \in DOMAIN decisions
      PROVE  decisions[consumer] \in {"REVOKED", "UNKNOWN"}
  <2>0. /\ WellFormed(case)
        /\ case.isRevoked = TRUE \/ case.receipt.revocation_ref # None
    BY <1>1 DEF IInv, CaseOK, WellFormed
  <2>1. TableStateOf(case, Policy) \in {"REVOKED", "UNKNOWN"}
    BY <2>0 DEF TableStateOf, TableState
  <2>2. CASE consumer = "python"
    BY <1>1, <2>0, <2>1, <2>2, Decisions, PythonFollowsTheTable
  <2>3. CASE consumer = "typescript"
    BY <1>1, <2>0, <2>1, <2>3, Decisions, TypeScriptFollowsTheTable
  <2>4. CASE consumer = "go"
    BY <1>1, <2>0, <2>4, Decisions, GoRevokes
  <2>5. CASE consumer = "dotnet"
    BY <1>1, <2>0, <2>5, Decisions, DotNetRevokes
  <2> QED
    BY <1>1, <2>2, <2>3, <2>4, <2>5, Decisions DEF Consumers
<1>2. IInv => RevocationIsUniversal
  BY <1>1 DEF RevocationIsUniversal
<1> QED
  BY <1>2, Invariance, PTL

-----------------------------------------------------------------------------
(* JSON values and texts, as the parsers read them *)

\* Go reads the same JSON values.
LEMMA InGoValues ==
    /\ InGo!Missing = Missing /\ InGo!Null = Null /\ InGo!Rejected = Rejected
    /\ InGo!RequiredOfActions = RequiredOfActions
    /\ InGo!RequiredOfReceipts = RequiredOfReceipts
    /\ InGo!RequiredOfDependencies = RequiredOfDependencies /\ InGo!SideEffects = SideEffects
    /\ InGo!ReuseClasses = ReuseClasses /\ InGo!ActionSchema = ActionSchema
    /\ InGo!ReceiptSchema = ReceiptSchema
    /\ \A v : InGo!Text(v) = Text(v)
    /\ \A v : InGo!Bool(v) = Bool(v)
    /\ \A v : InGo!Map(v) = Map(v)
    /\ \A v : InGo!Array(v) = Array(v)
    /\ \A v : InGo!Object(v) = Object(v)
    /\ \A v : InGo!Sha256(v) = Sha256(v)
    /\ \A v : InGo!NFC(v) = NFC(v)
    /\ \A v : InGo!Collected(v) = Collected(v)
    /\ \A v, w : InGo!Default(v, w) = Default(v, w)
    /\ \A v, w : InGo!Only(v, w) = Only(v, w)
    /\ \A v, w : InGo!HasFields(v, w) = HasFields(v, w)
BY DEF Missing, InGo!Missing, Null, InGo!Null, Rejected, InGo!Rejected,
       RequiredOfActions, InGo!RequiredOfActions, RequiredOfReceipts,
       InGo!RequiredOfReceipts, RequiredOfDependencies, InGo!RequiredOfDependencies,
       SideEffects, InGo!SideEffects, ReuseClasses, InGo!ReuseClasses, ActionSchema,
       InGo!ActionSchema, ReceiptSchema, InGo!ReceiptSchema, Text, InGo!Text,
       Bool, InGo!Bool, Map, InGo!Map, Array, InGo!Array, Object,
       InGo!Object, Sha256, InGo!Sha256, NFC, InGo!NFC, Collected,
       InGo!Collected, Default, InGo!Default, Only, InGo!Only, HasFields,
       InGo!HasFields

\* TypeScript reads the same JSON values.
LEMMA InTypeScriptValues ==
    /\ InTypeScript!Missing = Missing /\ InTypeScript!Null = Null
    /\ InTypeScript!Rejected = Rejected
    /\ InTypeScript!RequiredOfActions = RequiredOfActions
    /\ InTypeScript!RequiredOfReceipts = RequiredOfReceipts
    /\ InTypeScript!RequiredOfDependencies = RequiredOfDependencies
    /\ InTypeScript!SideEffects = SideEffects
    /\ InTypeScript!ReuseClasses = ReuseClasses /\ InTypeScript!ActionSchema = ActionSchema
    /\ InTypeScript!ReceiptSchema = ReceiptSchema
    /\ \A v : InTypeScript!Text(v) = Text(v)
    /\ \A v : InTypeScript!Bool(v) = Bool(v)
    /\ \A v : InTypeScript!Map(v) = Map(v)
    /\ \A v : InTypeScript!Array(v) = Array(v)
    /\ \A v : InTypeScript!Object(v) = Object(v)
    /\ \A v : InTypeScript!Sha256(v) = Sha256(v)
    /\ \A v : InTypeScript!NFC(v) = NFC(v)
    /\ \A v : InTypeScript!Collected(v) = Collected(v)
    /\ \A v, w : InTypeScript!Default(v, w) = Default(v, w)
    /\ \A v, w : InTypeScript!Only(v, w) = Only(v, w)
    /\ \A v, w : InTypeScript!HasFields(v, w) = HasFields(v, w)
BY DEF Missing, InTypeScript!Missing, Null, InTypeScript!Null, Rejected,
       InTypeScript!Rejected, RequiredOfActions, InTypeScript!RequiredOfActions,
       RequiredOfReceipts, InTypeScript!RequiredOfReceipts, RequiredOfDependencies,
       InTypeScript!RequiredOfDependencies, SideEffects, InTypeScript!SideEffects,
       ReuseClasses, InTypeScript!ReuseClasses, ActionSchema,
       InTypeScript!ActionSchema, ReceiptSchema, InTypeScript!ReceiptSchema, Text,
       InTypeScript!Text, Bool, InTypeScript!Bool, Map, InTypeScript!Map, Array,
       InTypeScript!Array, Object, InTypeScript!Object, Sha256,
       InTypeScript!Sha256, NFC, InTypeScript!NFC, Collected,
       InTypeScript!Collected, Default, InTypeScript!Default, Only,
       InTypeScript!Only, HasFields, InTypeScript!HasFields

\* .NET reads the same JSON values.
LEMMA InDotNetValues ==
    /\ InDotNet!Missing = Missing /\ InDotNet!Null = Null /\ InDotNet!Rejected = Rejected
    /\ InDotNet!RequiredOfActions = RequiredOfActions
    /\ InDotNet!RequiredOfReceipts = RequiredOfReceipts
    /\ InDotNet!RequiredOfDependencies = RequiredOfDependencies
    /\ InDotNet!SideEffects = SideEffects
    /\ InDotNet!ReuseClasses = ReuseClasses /\ InDotNet!ActionSchema = ActionSchema
    /\ InDotNet!ReceiptSchema = ReceiptSchema
    /\ \A v : InDotNet!Text(v) = Text(v)
    /\ \A v : InDotNet!Bool(v) = Bool(v)
    /\ \A v : InDotNet!Map(v) = Map(v)
    /\ \A v : InDotNet!Array(v) = Array(v)
    /\ \A v : InDotNet!Object(v) = Object(v)
    /\ \A v : InDotNet!Sha256(v) = Sha256(v)
    /\ \A v : InDotNet!NFC(v) = NFC(v)
    /\ \A v : InDotNet!Collected(v) = Collected(v)
    /\ \A v, w : InDotNet!Default(v, w) = Default(v, w)
    /\ \A v, w : InDotNet!Only(v, w) = Only(v, w)
    /\ \A v, w : InDotNet!HasFields(v, w) = HasFields(v, w)
BY DEF Missing, InDotNet!Missing, Null, InDotNet!Null, Rejected,
       InDotNet!Rejected, RequiredOfActions, InDotNet!RequiredOfActions,
       RequiredOfReceipts, InDotNet!RequiredOfReceipts, RequiredOfDependencies,
       InDotNet!RequiredOfDependencies, SideEffects, InDotNet!SideEffects,
       ReuseClasses, InDotNet!ReuseClasses, ActionSchema, InDotNet!ActionSchema,
       ReceiptSchema, InDotNet!ReceiptSchema, Text, InDotNet!Text, Bool,
       InDotNet!Bool, Map, InDotNet!Map, Array, InDotNet!Array, Object,
       InDotNet!Object, Sha256, InDotNet!Sha256, NFC, InDotNet!NFC, Collected,
       InDotNet!Collected, Default, InDotNet!Default, Only, InDotNet!Only,
       HasFields, InDotNet!HasFields

\* The type of a value keeps it apart from values of another.
LEMMA Tags ==
    /\ \A t : Text(t)[1] = "text" /\ Text(t)[2] = t
    /\ \A m : Map(m)[1] = "map" /\ Map(m)[2] = m
    /\ \A s : Array(s)[1] = "array" /\ Array(s)[2] = s
    /\ \A r : Object(r)[1] = "object" /\ Object(r)[2] = r
    /\ \A v : Sha256(v)[1] = "digest" /\ Sha256(v)[2] = v
    /\ Missing[1] = "missing" /\ Null[1] = "null" /\ Rejected[1] = "rejected"
BY DEF Text, Map, Array, Object, Sha256, Missing, Null, Rejected

\* A text is no map, no array and not rejected.
LEMMA TextsApart ==
    ASSUME NEW t, NEW v
    PROVE  Text(t) # Map(v) /\ Text(t) # Array(v) /\ Text(t) # Rejected
BY DEF Text, Map, Array, Rejected

\* Texts with different payloads differ.
LEMMA TextsDiffer ==
    ASSUME NEW t, NEW u, Text(t) = Text(u)
    PROVE  t = u
BY DEF Text

\* Normalization makes no text empty or prohibited that was not.
LEMMA NormalForms ==
    ASSUME NEW t
    PROVE  (NFC(t) = "" <=> t = "") /\ (NFC(t) = "prohibited" <=> t = "prohibited")
BY Zenon DEF NFC

\* What a text field makes of a value, as a chain of conditions.
LEMMA TextIs ==
    ASSUME NEW v
    PROVE  BoundedText(v) =
             IF v[1] = "digest" THEN v
             ELSE IF v[1] = "text" /\ v[2] \notin {"", "prohibited"} THEN Text(NFC(v[2]))
             ELSE Rejected
BY Zenon DEF BoundedText

\* The other three read required texts alike (protocol.py:34-55, verifier.go:374,
\* verifier.ts:88, Oncefold.cs:672).
LEMMA TextReaders ==
    ASSUME NEW v
    PROVE  /\ InGo!StringValue(v) = BoundedText(v)
           /\ InTypeScript!RequiredText(v) = BoundedText(v)
           /\ InDotNet!RequiredText(v) = BoundedText(v)
<1>1. InGo!StringValue(v) = BoundedText(v)
  <2>1. InGo!StringValue(v) =
             IF v[1] = "digest" THEN v
             ELSE IF v[1] = "text" /\ NFC(v[2]) \notin {"", "prohibited"} THEN Text(NFC(v[2]))
             ELSE Rejected
    BY InGoValues, Zenon DEF InGo!StringValue
  <2> QED
    BY <2>1, TextIs, NormalForms
<1>2. InTypeScript!RequiredText(v) = BoundedText(v)
  <2>1. InTypeScript!RequiredText(v) =
             IF v[1] = "digest" THEN v
             ELSE IF v[1] = "text" /\ v[2] # "" /\ NFC(v[2]) # "prohibited"
             THEN Text(NFC(v[2]))
             ELSE Rejected
    BY InTypeScriptValues, Zenon DEF InTypeScript!RequiredText
  <2> QED
    BY <2>1, TextIs, NormalForms
<1>3. InDotNet!RequiredText(v) = BoundedText(v)
  <2>1. InDotNet!RequiredText(v) =
             IF v[1] = "digest" THEN v
             ELSE IF v[1] = "text" /\ v[2] # "" /\ v[2] # "prohibited"
             THEN Text(NFC(v[2]))
             ELSE Rejected
    BY InDotNetValues, Zenon DEF InDotNet!RequiredText, InDotNet!BoundedText
  <2> QED
    BY <2>1, TextIs
<1> QED
  BY <1>1, <1>2, <1>3

\* What an optional text field makes of a value.
LEMMA OptionalTextIs ==
    ASSUME NEW v
    PROVE  OptionalText(v) = IF v \in {Missing, Null} THEN Null
                             ELSE IF v = Text("") THEN v ELSE BoundedText(v)
<1>1. Text("") \notin {Missing, Null}
  BY DEF Text, Missing, Null
<1> QED
  BY <1>1, Zenon DEF OptionalText

\* Optional texts are read alike, the empty one included.
LEMMA OptionalTextReaders ==
    ASSUME NEW v, IsJson(v)
    PROVE  /\ InGo!OptionalValue(v) = OptionalText(v)
           /\ InTypeScript!OptionalText(v) = OptionalText(v)
           /\ InDotNet!OptionalText(v) = OptionalText(v)
<1>1. /\ v = Text("") <=> v[1] = "text" /\ v[2] = ""
      /\ v = Missing => v[1] = "missing"
      /\ v = Null => v[1] = "null"
      /\ Text(NFC("")) = Text("")
  <2>1. ASSUME v = Text("") PROVE v[1] = "text"
    BY <2>1, Tags
  <2>4. ASSUME v = Text("") PROVE v[2] = ""
    BY <2>4, Tags
  <2>2. v[1] = "text" /\ v[2] = "" => v = Text("")
    BY DEF IsJson
  <2>3. NFC("") = ""
    BY NormalForms
  <2> QED
    BY <2>1, <2>2, <2>3, <2>4, Tags
<1>2. InGo!OptionalValue(v) = OptionalText(v)
  BY OptionalTextIs, TextReaders, InGoValues DEF InGo!OptionalValue
<1>3. InTypeScript!OptionalText(v) = OptionalText(v)
  <2>1. InTypeScript!OptionalText(v) =
             IF v \in {Missing, Null} THEN Null
             ELSE IF v[1] = "text" /\ NFC(v[2]) # "prohibited" THEN Text(NFC(v[2]))
             ELSE IF v[1] = "digest" THEN v ELSE Rejected
    BY <1>1, InTypeScriptValues, Zenon DEF InTypeScript!OptionalText
  <2> QED
    BY <1>1, <2>1, OptionalTextIs, TextIs, NormalForms
<1>4. InDotNet!OptionalText(v) = OptionalText(v)
  <2>1. InDotNet!BoundedText(v, FALSE) =
             IF v[1] = "digest" THEN v
             ELSE IF v[1] = "text" /\ v[2] # "prohibited" THEN Text(NFC(v[2]))
             ELSE Rejected
    BY InDotNetValues, Zenon DEF InDotNet!BoundedText
  <2> QED
    BY <1>1, <2>1, OptionalTextIs, TextIs, InDotNetValues DEF InDotNet!OptionalText
<1> QED
  BY <1>2, <1>3, <1>4

\* A text that is read is the digest or another text that is not empty.
LEMMA TextsAreNotEmpty ==
    ASSUME NEW v
    PROVE  BoundedText(v) # Text("") /\ BoundedText(v) # Missing
<1>1. CASE v[1] = "text" /\ v[2] \notin {"", "prohibited"}
  <2>1. NFC(v[2]) # ""
    BY <1>1, NormalForms
  <2>2. BoundedText(v) = Text(NFC(v[2]))
    BY <1>1, TextIs
  <2>3. BoundedText(v) # Text("")
    BY <2>1, <2>2, TextsDiffer
  <2> QED
    BY <2>2, <2>3, Tags
<1>2. CASE ~(v[1] = "text" /\ v[2] \notin {"", "prohibited"})
  BY <1>2, TextIs, Tags
<1> QED
  BY <1>1, <1>2

-----------------------------------------------------------------------------
(* Maps *)

\* The readers count members alike.
LEMMA SameCardinality ==
    /\ \A S : InDotNet!Cardinality(S) = Cardinality(S)
    /\ \A S : InTypeScript!Cardinality(S) = Cardinality(S)
BY DEF Cardinality, InDotNet!Cardinality, InTypeScript!Cardinality

\* The numbers from 1 to n are n in number.
LEMMA CountingTo ==
    ASSUME NEW n \in Nat
    PROVE  IsFiniteSet(1..n) /\ Cardinality(1..n) = n
<1> DEFINE S == 1..n
           k == IF 1 > n THEN 0 ELSE n - 1 + 1
<1>1. 1 \in Int /\ n \in Int /\ k = n
  OBVIOUS
<1>2. IsFiniteSet(S) /\ Cardinality(S) = k
  BY <1>1, FS_Interval, Zenon
<1> HIDE DEF S, k
<1>3. IsFiniteSet(S) /\ Cardinality(S) = n
  BY <1>1, <1>2
<1> QED
  BY <1>3 DEF S

\* As many images as elements means that no two elements have the same image.
LEMMA CountingImages ==
    ASSUME NEW S, IsFiniteSet(S), NEW f, DOMAIN f = S
    PROVE  LET T == {f[x] : x \in S}
           IN  /\ IsFiniteSet(T) /\ Cardinality(S) \in Nat /\ Cardinality(T) \in Nat
               /\ Cardinality(T) <= Cardinality(S)
               /\ Cardinality(T) = Cardinality(S) <=> \A x, y \in S : f[x] = f[y] => x = y
<1> DEFINE T == {f[x] : x \in S}
           g == [x \in S |-> f[x]]
<1>1. g \in Surjection(S, T)
  BY DEF Surjection
<1>2. /\ IsFiniteSet(T) /\ Cardinality(T) <= Cardinality(S)
      /\ Cardinality(T) = Cardinality(S) <=> g \in Injection(S, T)
  BY <1>1, FS_Surjection
<1>3. g \in Injection(S, T) <=> \A x, y \in S : f[x] = f[y] => x = y
  BY DEF Injection, IsInjective
<1>4. Cardinality(S) \in Nat /\ Cardinality(T) \in Nat
  BY <1>2, FS_CardinalityType
<1> QED
  BY <1>2, <1>3, <1>4

\* The members of a map are read without loss: no two keys become one, and no key
\* and no value is rejected.
Readable(members) ==
    /\ \A m, n \in members : BoundedText(m[1]) = BoundedText(n[1]) => m = n
    /\ \A m \in members : BoundedText(m[1]) # Rejected /\ BoundedText(m[2]) # Rejected

Normalized(members) == {<<BoundedText(m[1]), BoundedText(m[2])>> : m \in members}

\* No member of a normalized map is rejected if no key and no value was.
LEMMA NormalizedMembers ==
    ASSUME NEW S
    PROVE  (\A m \in Normalized(S) : Rejected \notin {m[1], m[2]})
             <=> \A m \in S : BoundedText(m[1]) # Rejected /\ BoundedText(m[2]) # Rejected
<1> DEFINE Pair(m) == <<BoundedText(m[1]), BoundedText(m[2])>>
<1>1. \A m : Rejected \notin {Pair(m)[1], Pair(m)[2]}
               <=> BoundedText(m[1]) # Rejected /\ BoundedText(m[2]) # Rejected
  OBVIOUS
<1>2. Normalized(S) = {Pair(m) : m \in S}
  BY DEF Normalized
<1> HIDE DEF Pair
<1> QED
  BY <1>1, <1>2

\* What Python's StringMapping makes of a value.
LEMMA MapIs ==
    ASSUME NEW v, IsJson(v)
    PROVE  StringMapping(v) = IF v[1] = "map" /\ Readable(v[2])
                              THEN Map(Normalized(v[2])) ELSE Rejected
<1>1. CASE v[1] = "map"
  <2> DEFINE S == v[2]
             f == [m \in S |-> BoundedText(m[1])]
             keys == {BoundedText(m[1]) : m \in S}
  <2>1. IsFiniteSet(S)
    BY <1>1 DEF IsJson
  <2>2. keys = {f[m] : m \in S} /\ DOMAIN f = S
    OBVIOUS
  <2>3. \A m, n \in S : (f[m] = f[n] => m = n)
                          <=> (BoundedText(m[1]) = BoundedText(n[1]) => m = n)
    OBVIOUS
  <2>4. Cardinality(keys) = Cardinality(S) <=> \A m, n \in S : f[m] = f[n] => m = n
    <3> HIDE DEF f, S, keys
    <3> QED
      BY <2>1, <2>2, CountingImages
  <2>5. StringMapping(v) =
          IF Cardinality(keys) = Cardinality(S)
             /\ \A m \in Normalized(S) : Rejected \notin {m[1], m[2]}
          THEN Map(Normalized(S)) ELSE Rejected
    BY <1>1, Zenon DEF StringMapping, Normalized
  <2> HIDE DEF f, keys
  <2> QED
    BY <1>1, <2>3, <2>4, <2>5, NormalizedMembers DEF Readable
<1>2. CASE v[1] # "map"
  BY <1>2 DEF StringMapping
<1> QED
  BY <1>1, <1>2

\* Maps are read alike; where the field is missing, the map is empty.
LEMMA MapReaders ==
    ASSUME NEW v, IsJson(v)
    PROVE  /\ InGo!StringMap(v) = StringMapping(v)
           /\ InTypeScript!StringMap(v) = StringMapping(Default(v, Map({})))
           /\ InDotNet!StringMap(v) = StringMapping(Default(v, Map({})))
<1> DEFINE S == v[2]
<1>0. /\ IsJson(Default(v, Map({})))
      /\ StringMapping(Map({})) = Map({})
  <2>1. IsJson(Map({}))
    BY Tags, FS_EmptySet DEF IsJson
  <2>2. Readable({}) /\ Normalized({}) = {}
    BY DEF Readable, Normalized
  <2>3. StringMapping(Map({})) = Map({})
    BY <2>1, <2>2, MapIs, Tags
  <2> QED
    BY <2>1, <2>3 DEF Default
<1>1. InGo!StringMap(v) = StringMapping(v)
  <2>1. InGo!StringMap(v) =
          IF v[1] # "map" THEN Rejected
          ELSE IF (\E m, n \in S : m # n /\ BoundedText(m[1]) = BoundedText(n[1]))
                  \/ \E m \in Normalized(S) : Rejected \in {m[1], m[2]}
          THEN Rejected ELSE Map(Normalized(S))
    <3> DEFINE Key(m) == InGo!StringValue(m[1])
               Value(m) == InGo!StringValue(m[2])
    <3>1. InGo!StringMap(v) =
            IF v[1] # "map" THEN Rejected
            ELSE IF (\E m, n \in S : m # n /\ Key(m) = Key(n))
                    \/ \E m \in {<<Key(k), Value(k)>> : k \in S} : Rejected \in {m[1], m[2]}
            THEN Rejected ELSE Map({<<Key(k), Value(k)>> : k \in S})
      BY InGoValues, Zenon DEF InGo!StringMap
    <3>2. \A m : Key(m) = BoundedText(m[1]) /\ Value(m) = BoundedText(m[2])
      BY TextReaders
    <3>3. {<<Key(m), Value(m)>> : m \in S} = Normalized(S)
      BY <3>2 DEF Normalized
    <3> HIDE DEF Key, Value
    <3> QED
      BY <3>1, <3>2, <3>3
  <2> QED
    BY <2>1, MapIs, NormalizedMembers DEF Readable
<1>2. ASSUME NEW w, IsJson(w), w = Default(v, Map({}))
      PROVE  InTypeScript!StringMap(v) = StringMapping(w)
  <2>1. InTypeScript!StringMap(v) =
          IF /\ w[1] = "map"
             /\ \A m \in w[2] : Rejected \notin {BoundedText(m[1]), BoundedText(m[2])}
             /\ \A m, n \in w[2] : BoundedText(m[1]) = BoundedText(n[1]) => m = n
          THEN Map(Normalized(w[2])) ELSE Rejected
    <3> DEFINE Key(m) == InTypeScript!RequiredText(m[1])
               Value(m) == InTypeScript!RequiredText(m[2])
    <3>1. InTypeScript!StringMap(v) =
            IF /\ w[1] = "map"
               /\ \A m \in w[2] : Rejected \notin {Key(m), Value(m)}
               /\ \A m, n \in w[2] : Key(m) = Key(n) => m = n
            THEN Map({<<Key(m), Value(m)>> : m \in w[2]}) ELSE Rejected
      BY <1>2, InTypeScriptValues, Zenon DEF InTypeScript!StringMap
    <3>2. \A m : Key(m) = BoundedText(m[1]) /\ Value(m) = BoundedText(m[2])
      BY TextReaders
    <3>3. {<<Key(m), Value(m)>> : m \in w[2]} = Normalized(w[2])
      BY <3>2 DEF Normalized
    <3> HIDE DEF Key, Value
    <3> QED
      BY <3>1, <3>2, <3>3
  <2> QED
    BY <1>2, <2>1, MapIs DEF Readable
<1>3. InDotNet!StringMap(v) = StringMapping(Default(v, Map({})))
  <2>1. CASE v[1] = "map"
    <3> DEFINE keys == {p[1] : p \in Normalized(S)}
               f == [m \in S |-> BoundedText(m[1])]
    <3>1. v # Missing /\ Default(v, Map({})) = v
      BY <2>1, Tags DEF Default
    <3>2. InDotNet!StringMap(v) =
            IF \E p \in Normalized(S) : Rejected \in {p[1], p[2]} THEN Rejected
            ELSE IF Cardinality(keys) # Cardinality(S) THEN Rejected
            ELSE Map(Normalized(S))
      <4> DEFINE pairs == {<<InDotNet!RequiredText(p[1]),
                             InDotNet!RequiredText(p[2])>> : p \in S}
      <4>1. InDotNet!StringMap(v) =
              IF \E p \in pairs : Rejected \in {p[1], p[2]} THEN Rejected
              ELSE IF Cardinality({p[1] : p \in pairs}) # Cardinality(S) THEN Rejected
              ELSE Map(pairs)
        BY <2>1, <3>1, SameCardinality, InDotNetValues, Zenon
           DEF InDotNet!StringMap
      <4>2. pairs = Normalized(S)
        BY TextReaders DEF Normalized
      <4> HIDE DEF pairs
      <4> QED
        BY <4>1, <4>2
    <3>3. IsFiniteSet(S)
      BY <2>1 DEF IsJson
    <3>4. keys = {f[m] : m \in S} /\ DOMAIN f = S
      <4>1. \A m \in S : <<BoundedText(m[1]), BoundedText(m[2])>>[1] = f[m]
        OBVIOUS
      <4>2. keys = {<<BoundedText(m[1]), BoundedText(m[2])>>[1] : m \in S}
        BY DEF Normalized
      <4> QED
        BY <4>1, <4>2
    <3>5. \A m, n \in S : (f[m] = f[n] => m = n)
                            <=> (BoundedText(m[1]) = BoundedText(n[1]) => m = n)
      OBVIOUS
    <3>6. Cardinality(keys) = Cardinality(S) <=> \A m, n \in S : f[m] = f[n] => m = n
      <4> HIDE DEF f, S, keys
      <4> QED
        BY <3>3, <3>4, CountingImages
    <3> HIDE DEF f, keys
    <3> QED
      BY <2>1, <3>1, <3>2, <3>5, <3>6, MapIs, NormalizedMembers DEF Readable
  <2>2. CASE v[1] # "map"
    <3>1. v # Missing => InDotNet!StringMap(v) = Rejected
      BY <2>2, InDotNetValues DEF InDotNet!StringMap
    <3>2. v = Missing => InDotNet!StringMap(v) = Map({})
      BY InDotNetValues DEF InDotNet!StringMap
    <3> QED
      BY <1>0, <2>2, <3>1, <3>2, MapIs DEF Default
  <2> QED
    BY <2>1, <2>2
<1> QED
  BY <1>0, <1>1, <1>2, <1>3

-----------------------------------------------------------------------------
(* Digests, flags and dependencies *)

\* The other fields are read alike.
LEMMA FieldReaders ==
    ASSUME NEW v
    PROVE  /\ InGo!RequiredDigest(v) = CheckDigestField(v)
           /\ InTypeScript!Digest(v) = CheckDigestField(v)
           /\ InDotNet!DigestValue(v) = CheckDigestField(v)
           /\ InGo!OptionalDigest(v) = OptionalDigest(v)
           /\ InDotNet!OptionalDigest(v) = OptionalDigest(v)
           /\ InGo!Flag(v) = Boolean(v)
           /\ InTypeScript!Boolean(v) = Boolean(v)
           /\ InDotNet!Boolean(v) = Boolean(v)
<1>1. /\ InGo!RequiredDigest(v) = CheckDigestField(v)
      /\ InTypeScript!Digest(v) = CheckDigestField(v)
      /\ InDotNet!DigestValue(v) = CheckDigestField(v)
  BY InGoValues, InTypeScriptValues, InDotNetValues
     DEF CheckDigestField, InGo!RequiredDigest, InTypeScript!Digest,
         InDotNet!DigestValue
<1>2. /\ InGo!OptionalDigest(v) = OptionalDigest(v)
      /\ InDotNet!OptionalDigest(v) = OptionalDigest(v)
  BY <1>1, InGoValues, InDotNetValues
     DEF OptionalDigest, InGo!OptionalDigest, InDotNet!OptionalDigest
<1>3. /\ InGo!Flag(v) = Boolean(v)
      /\ InTypeScript!Boolean(v) = Boolean(v)
      /\ InDotNet!Boolean(v) = Boolean(v)
  BY InGoValues, InTypeScriptValues, InDotNetValues
     DEF Boolean, InGo!Flag, InTypeScript!Boolean, InDotNet!Boolean
<1> QED
  BY <1>1, <1>2, <1>3

\* A dependency is read alike.
LEMMA DependencyReaders ==
    ASSUME NEW d
    PROVE  /\ InGo!ParseDependency(d) = Dependency(d)
           /\ InTypeScript!Dependency(d) = Dependency(d)
           /\ InDotNet!Dependency(d) = Dependency(d)
<1> DEFINE fields == [kind |-> BoundedText(d.kind), identity |-> BoundedText(d.identity),
                      digest |-> CheckDigestField(d.digest),
                      required |-> Boolean(Default(d.required, Bool(TRUE)))]
           result == IF ~HasFields(d, RequiredOfDependencies) THEN Rejected
                     ELSE Collected(fields)
<1>1. Dependency(d) = result
  BY DEF Dependency
<1>2. InGo!ParseDependency(d) = result
  <2>1. (IF d.required = Missing THEN Bool(TRUE) ELSE Boolean(d.required))
           = Boolean(Default(d.required, Bool(TRUE)))
    BY DEF Default, Boolean, Bool
  <2> QED
    BY <2>1, TextReaders, FieldReaders, InGoValues DEF InGo!ParseDependency
<1>3. InTypeScript!Dependency(d) = result
  BY TextReaders, FieldReaders, InTypeScriptValues DEF InTypeScript!Dependency
<1>4. InDotNet!Dependency(d) = result
  BY TextReaders, FieldReaders, InDotNetValues DEF InDotNet!Dependency
<1> QED
  BY <1>1, <1>2, <1>3, <1>4

\* What tells dependencies apart.
Identity(d) == <<d[2].kind, d[2].identity>>

\* All dependencies of a sequence are accepted, and no two are of one identity.
Distinct(items) ==
    /\ \A i \in DOMAIN items : Dependency(items[i]) # Rejected
    /\ \A i, j \in DOMAIN items :
          Identity(Dependency(items[i])) = Identity(Dependency(items[j])) => i = j

Accepted(items) == {Dependency(items[i]) : i \in DOMAIN items}

\* There are as many identities as dependencies if no two are of one identity.
LEMMA CountingIdentities ==
    ASSUME NEW items, Len(items) \in Nat, DOMAIN items = 1..Len(items)
    PROVE  LET ids == {Identity(d) : d \in Accepted(items)}
           IN  /\ Cardinality(ids) \in Nat /\ Cardinality(ids) <= Len(items)
               /\ Cardinality(ids) = Len(items) <=>
                    \A i, j \in DOMAIN items :
                      Identity(Dependency(items[i])) = Identity(Dependency(items[j])) => i = j
<1> DEFINE S == 1..Len(items)
           f == [i \in S |-> Identity(Dependency(items[i]))]
           ids == {Identity(d) : d \in Accepted(items)}
<1>1. IsFiniteSet(S) /\ Cardinality(S) = Len(items)
  <2>1. Len(items) \in Nat
    OBVIOUS
  <2> QED
    BY <2>1, CountingTo
<1>2. ids = {f[i] : i \in S} /\ DOMAIN f = S
  BY DEF Accepted
<1>3. \A i, j \in S :
        f[i] = f[j] <=> Identity(Dependency(items[i])) = Identity(Dependency(items[j]))
  OBVIOUS
<1> HIDE DEF f, ids, S
<1>4. /\ Cardinality(ids) \in Nat /\ Cardinality(ids) <= Cardinality(S)
      /\ Cardinality(ids) = Cardinality(S) <=> \A i, j \in S : f[i] = f[j] => i = j
  <2> DEFINE T == {f[x] : x \in S}
  <2>0. IsFiniteSet(S) /\ DOMAIN f = S
    BY <1>1, <1>2
  <2>1. Cardinality(T) \in Nat 
    BY <2>0, CountingImages
  <2>2. Cardinality(T) <= Cardinality(S)
    BY <2>0, CountingImages
  <2>3. Cardinality(T) = Cardinality(S) <=> \A i, j \in S : f[i] = f[j] => i = j
    BY <2>0, CountingImages
  <2> QED
    BY <1>2, <2>1, <2>2, <2>3
<1>5. DOMAIN items = S
  BY DEF S
<1> QED
  BY <1>1, <1>3, <1>4, <1>5 DEF ids

\* What Python's Dependencies makes of a value.
LEMMA DependenciesIs ==
    ASSUME NEW v, IsJson(v)
    PROVE  Dependencies(v) = IF v[1] = "array" /\ Distinct(v[2])
                             THEN Array(Accepted(v[2])) ELSE Rejected
<1> DEFINE items == v[2]
           ids == {Identity(d) : d \in Accepted(items)}
<1>1. Dependencies(v) =
        IF v[1] # "array" \/ Rejected \in Accepted(items) THEN Rejected
        ELSE IF Cardinality(ids) # Len(items) THEN Rejected ELSE Array(Accepted(items))
  BY Zenon DEF Dependencies, Accepted, Identity
<1>2. Rejected \in Accepted(items) <=> \E i \in DOMAIN items : Dependency(items[i]) = Rejected
  BY DEF Accepted
<1>3. CASE v[1] = "array"
  <2>1. Len(items) \in Nat /\ DOMAIN items = 1..Len(items)
    BY <1>3 DEF IsJson
  <2>2. Cardinality(ids) = Len(items) <=>
          \A i, j \in DOMAIN items :
            Identity(Dependency(items[i])) = Identity(Dependency(items[j])) => i = j
    BY <2>1, CountingIdentities
  <2> HIDE DEF ids
  <2> QED
    BY <1>1, <1>2, <1>3, <2>2 DEF Distinct
<1> QED
  BY <1>1, <1>3

\* Some indices of a finite interval share a property exactly if two are counted.
LEMMA CountingMore ==
    ASSUME NEW n \in Nat, NEW G \in SUBSET (1..n)
    PROVE  Cardinality(G) > 1 <=> \E i, j \in G : i # j
<1>1. IsFiniteSet(G)
  <2>1. IsFiniteSet(1..n)
    BY CountingTo
  <2> QED
    BY <2>1, FS_Subset
<1>2. Cardinality(G) \in Nat
  BY <1>1, FS_CardinalityType
<1>3. Cardinality(G) = 0 <=> G = {}
  BY <1>1, FS_EmptySet
<1>4. Cardinality(G) = 1 <=> \E i : G = {i}
  BY <1>1, FS_Singleton
<1>5. (\E i, j \in G : i # j) <=> ~(G = {} \/ \E i : G = {i})
  <2>1. ASSUME NEW i \in G, NEW j \in G, i # j
        PROVE  ~(G = {} \/ \E k : G = {k})
    BY <2>1
  <2>2. ASSUME G # {}, \A i : G # {i}
        PROVE  \E i, j \in G : i # j
    <3>1. PICK i \in G : TRUE
      BY <2>2
    <3>2. PICK j \in G : j # i
      <4>1. ASSUME \A j \in G : j = i
            PROVE  G = {i}
        BY <3>1, <4>1
      <4> QED
        BY <2>2, <4>1
    <3> QED
      BY <3>2
  <2> QED
    BY <2>1, <2>2
<1>6. Cardinality(G) > 1 <=> ~(Cardinality(G) = 0 \/ Cardinality(G) = 1)
  BY <1>2
<1> QED
  BY <1>3, <1>4, <1>5, <1>6

\* Lists of dependencies are read alike, whatever way duplicates are looked for
\* (protocol.py:101-126, verifier.go:466, verifier.ts:332, Oncefold.cs:712).
LEMMA GoDependencies ==
    ASSUME NEW v, IsJson(v)
    PROVE  InGo!ParseDependencies(v) = Dependencies(v)
<1> DEFINE items == v[2]
           P(i) == Dependency(items[i])
<1>1. InGo!ParseDependencies(v) =
        IF v[1] # "array" THEN Rejected
        ELSE IF \E i \in DOMAIN items : P(i) = Rejected THEN Rejected
        ELSE IF \E i, j \in DOMAIN items :
                  i < j /\ P(i)[2].kind = P(j)[2].kind /\ P(i)[2].identity = P(j)[2].identity
        THEN Rejected ELSE Array(Accepted(items))
  <2> DEFINE Q == [i \in DOMAIN items |-> InGo!ParseDependency(items[i])]
  <2>1. InGo!ParseDependencies(v) =
          IF v[1] # "array" THEN Rejected
          ELSE IF \E i \in DOMAIN items : Q[i] = Rejected THEN Rejected
          ELSE IF \E i, j \in DOMAIN items :
                    i < j /\ Q[i][2].kind = Q[j][2].kind /\ Q[i][2].identity = Q[j][2].identity
          THEN Rejected ELSE Array({Q[i] : i \in DOMAIN items})
    BY InGoValues, Zenon DEF InGo!ParseDependencies
  <2>2. \A i \in DOMAIN items : Q[i] = P(i)
    BY DependencyReaders
  <2>3. {Q[i] : i \in DOMAIN items} = Accepted(items)
    BY <2>2 DEF Accepted
  <2> HIDE DEF Q, P
  <2>4. (\E i \in DOMAIN items : Q[i] = Rejected)
          <=> (\E i \in DOMAIN items : P(i) = Rejected)
    BY <2>2
  <2>5. (\E i, j \in DOMAIN items :
           i < j /\ Q[i][2].kind = Q[j][2].kind /\ Q[i][2].identity = Q[j][2].identity)
          <=> (\E i, j \in DOMAIN items :
                i < j /\ P(i)[2].kind = P(j)[2].kind /\ P(i)[2].identity = P(j)[2].identity)
    BY <2>2
  <2> QED
    BY <2>1, <2>3, <2>4, <2>5
<1>2. CASE v[1] = "array"
  <2>1. DOMAIN items = 1..Len(items) /\ Len(items) \in Nat
    BY <1>2 DEF IsJson
  <2>2. \A i, j \in DOMAIN items :
          Identity(P(i)) = Identity(P(j))
            <=> P(i)[2].kind = P(j)[2].kind /\ P(i)[2].identity = P(j)[2].identity
    BY DEF Identity
  <2>3. (\E i, j \in DOMAIN items : i < j /\ Identity(P(i)) = Identity(P(j)))
          <=> ~(\A i, j \in DOMAIN items : Identity(P(i)) = Identity(P(j)) => i = j)
    <3> HIDE DEF P
    <3>1. \A i, j \in DOMAIN items : i < j \/ i = j \/ j < i
      BY <2>1
    <3>2. \A i, j \in DOMAIN items : i < j => i # j
      BY <2>1
    <3> QED
      BY <3>1, <3>2
  <2>4. Distinct(items) <=> /\ \A i \in DOMAIN items : P(i) # Rejected
                            /\ \A i, j \in DOMAIN items :
                                  Identity(P(i)) = Identity(P(j)) => i = j
    BY DEF Distinct
  <2> HIDE DEF P
  <2> QED
    BY <1>1, <1>2, <2>2, <2>3, <2>4, DependenciesIs
<1>3. CASE v[1] # "array"
  BY <1>1, <1>3, DependenciesIs
<1> QED
  BY <1>2, <1>3

\* TypeScript counts the identities, as Python does.
LEMMA TypeScriptDependencies ==
    ASSUME NEW v, IsJson(v)
    PROVE  InTypeScript!Dependencies(v) = Dependencies(v)
<1> DEFINE items == v[2]
           ids == {Identity(d) : d \in Accepted(items)}
<1>1. InTypeScript!Dependencies(v) =
        IF v[1] # "array" THEN Rejected
        ELSE IF Rejected \in Accepted(items) THEN Rejected
        ELSE IF Cardinality(ids) < Len(items) THEN Rejected ELSE Array(Accepted(items))
  <2> DEFINE parsedItems == {InTypeScript!Dependency(items[i]) : i \in DOMAIN items}
             itemIds == {<<d[2].kind, d[2].identity>> : d \in parsedItems}
  <2>1. parsedItems = Accepted(items)
    BY DependencyReaders DEF Accepted
  <2>2. InTypeScript!Dependencies(v) =
          CASE v[1] # "array" -> Rejected
            [] Rejected \in parsedItems -> Rejected
            [] Cardinality(itemIds) < Len(items) -> Rejected
            [] OTHER -> Array(parsedItems)
    BY InTypeScriptValues, SameCardinality, Zenon DEF InTypeScript!Dependencies
  <2>3. InTypeScript!Dependencies(v) =
          IF v[1] # "array" THEN Rejected
          ELSE IF Rejected \in parsedItems THEN Rejected
          ELSE IF Cardinality(itemIds) < Len(items) THEN Rejected ELSE Array(parsedItems)
    <3> HIDE DEF parsedItems, itemIds, items
    <3> QED
      BY <2>2, Zenon
  <2>4. itemIds = {Identity(d) : d \in parsedItems}
    BY DEF Identity
  <2> HIDE DEF parsedItems, itemIds
  <2> QED
    BY <2>1, <2>3, <2>4
<1>2. CASE v[1] = "array"
  <2>1. DOMAIN items = 1..Len(items) /\ Len(items) \in Nat
    BY <1>2 DEF IsJson
  <2>2. Cardinality(ids) \in Nat /\ Cardinality(ids) <= Len(items)
    BY <2>1, CountingIdentities
  <2>3. Cardinality(ids) = Len(items) <=>
          \A i, j \in DOMAIN items :
            Identity(Dependency(items[i])) = Identity(Dependency(items[j])) => i = j
    BY <2>1, CountingIdentities
  <2>4. Rejected \in Accepted(items)
          <=> \E i \in DOMAIN items : Dependency(items[i]) = Rejected
    BY DEF Accepted
  <2> HIDE DEF ids
  <2>5. Cardinality(ids) < Len(items) <=> ~(Cardinality(ids) = Len(items))
    BY <2>1, <2>2
  <2> QED
    BY <1>1, <1>2, <2>3, <2>4, <2>5, DependenciesIs DEF Distinct
<1>3. CASE v[1] # "array"
  BY <1>1, <1>3, DependenciesIs
<1> QED
  BY <1>2, <1>3

\* .NET groups the indices by identity.
LEMMA DotNetDependencies ==
    ASSUME NEW v, IsJson(v)
    PROVE  InDotNet!Dependencies(v) = Dependencies(v)
<1> DEFINE items == v[2]
           Group(d) == {i \in DOMAIN items : Identity(Dependency(items[i])) = Identity(d)}
<1>1. InDotNet!Dependencies(v) =
        IF v[1] # "array" \/ Rejected \in Accepted(items) THEN Rejected
        ELSE IF \E g \in {Group(d) : d \in Accepted(items)} : Cardinality(g) > 1
        THEN Rejected ELSE Array(Accepted(items))
  <2> DEFINE parsedItems == {InDotNet!Dependency(items[i]) : i \in DOMAIN items}
             G(d) == {i \in DOMAIN items :
                        LET other == InDotNet!Dependency(items[i])
                        IN  <<other[2].kind, other[2].identity>> = <<d[2].kind, d[2].identity>>}
  <2>1. parsedItems = Accepted(items)
    BY DependencyReaders DEF Accepted
  <2>2. \A d : G(d) = Group(d)
    BY DependencyReaders DEF Identity
  <2>3. InDotNet!Dependencies(v) =
          IF v[1] # "array" \/ Rejected \in parsedItems THEN Rejected
          ELSE IF \E g \in {G(d) : d \in parsedItems} : Cardinality(g) > 1
          THEN Rejected ELSE Array(parsedItems)
    BY InDotNetValues, SameCardinality, Zenon DEF InDotNet!Dependencies
  <2> HIDE DEF parsedItems, G, Group
  <2>4. {G(d) : d \in parsedItems} = {Group(d) : d \in Accepted(items)}
    BY <2>1, <2>2
  <2> QED
    BY <2>1, <2>3, <2>4
<1>2. CASE v[1] = "array"
  <2>1. DOMAIN items = 1..Len(items) /\ Len(items) \in Nat
    BY <1>2 DEF IsJson
  <2>2. ASSUME NEW d
        PROVE  Cardinality(Group(d)) > 1 <=> \E i, j \in Group(d) : i # j
    <3>1. Group(d) \in SUBSET (1..Len(items))
      BY <2>1
    <3> HIDE DEF Group, items
    <3> QED
      BY <2>1, <3>1, CountingMore
  <2>3. (\E g \in {Group(d) : d \in Accepted(items)} : Cardinality(g) > 1)
          <=> \E d \in Accepted(items) : \E i, j \in Group(d) : i # j
    <3> HIDE DEF Group
    <3> QED
      BY <2>2
  <2>4. (\E d \in Accepted(items) : \E i, j \in Group(d) : i # j)
          <=> ~(\A i, j \in DOMAIN items :
                  Identity(Dependency(items[i])) = Identity(Dependency(items[j])) => i = j)
    BY DEF Accepted
  <2>5. Rejected \in Accepted(items)
          <=> \E i \in DOMAIN items : Dependency(items[i]) = Rejected
    BY DEF Accepted
  <2> HIDE DEF Group
  <2> QED
    BY <1>1, <1>2, <2>3, <2>4, <2>5, DependenciesIs DEF Distinct
<1>3. CASE v[1] # "array"
  BY <1>1, <1>3, DependenciesIs
<1> QED
  BY <1>2, <1>3

-----------------------------------------------------------------------------
(* Actions *)

\* Texts that normalization does not touch are read from themselves only.
LEMMA PlainTexts ==
    ASSUME NEW v, IsJson(v),
           NEW u, u \notin {"nfc", "nfd", "short", "shrinks", "long", "grows",
                            "UNKNOWN", "UN(U+212A)NOWN", "", "prohibited"}
    PROVE  BoundedText(v) = Text(u) <=> v = Text(u)
<1>1. \A t : NFC(t) = u <=> t = u
  <2>1. \A t : NFC(t) = IF t = "nfd" THEN "nfc" ELSE IF t = "shrinks" THEN "short"
                        ELSE IF t = "grows" THEN "long"
                        ELSE IF t = "UN(U+212A)NOWN" THEN "UNKNOWN" ELSE t
    BY Zenon DEF NFC
  <2> QED
    BY <2>1
<1>2. ASSUME v = Text(u)
      PROVE  BoundedText(v) = Text(u)
  <2>1. v[1] = "text" /\ v[2] = u
    BY <1>2, Tags
  <2> QED
    BY <1>1, <2>1, TextIs
<1>3. ASSUME BoundedText(v) = Text(u)
      PROVE  v = Text(u)
  <2>1. CASE v[1] = "digest"
    BY <1>3, <2>1, TextIs
  <2>2. CASE v[1] = "text" /\ v[2] \notin {"", "prohibited"}
    <3>1. Text(NFC(v[2])) = Text(u)
      BY <1>3, <2>2, TextIs
    <3>2. v[2] = u
      BY <1>1, <3>1, TextsDiffer
    <3> QED
      BY <2>2, <3>2 DEF IsJson
  <2>3. CASE ~(v[1] = "digest") /\ ~(v[1] = "text" /\ v[2] \notin {"", "prohibited"})
    BY <1>3, <2>3, TextIs, Tags
  <2> QED
    BY <2>1, <2>2, <2>3
<1> QED
  BY <1>2, <1>3

\* A value that is one of the side effect classes only in normal form.
ClassRespelled(v) == v[1] = "text" /\ v[2] \notin SideEffects /\ NFC(v[2]) \in SideEffects

\* A class is compared before or after normalization: for a reuse class that is the
\* same, for a side effect class unless it is respelled.
LEMMA Classes ==
    ASSUME NEW v, IsJson(v)
    PROVE  /\ Only(ReuseClasses, BoundedText(v)) = Only(ReuseClasses, v)
           /\ Only(SideEffects, v) =
                IF ClassRespelled(v) THEN Rejected ELSE Only(SideEffects, BoundedText(v))
<1>1. Only(ReuseClasses, BoundedText(v)) = Only(ReuseClasses, v)
  <2>1. \A t \in ReuseClasses : BoundedText(v) = Text(t) <=> v = Text(t)
    BY PlainTexts DEF ReuseClasses
  <2>2. ASSUME \E t \in ReuseClasses : v = Text(t)
        PROVE  BoundedText(v) = v
    BY <2>1, <2>2
  <2> QED
    BY <2>1, <2>2 DEF Only
<1>2. CASE ClassRespelled(v)
  <2>1. \A t \in SideEffects : v # Text(t)
    BY <1>2, Tags DEF ClassRespelled
  <2> QED
    BY <1>1, <1>2, <2>1 DEF Only
<1>3. CASE ~ClassRespelled(v)
  <2>1. \A t : NFC(t) = IF t = "nfd" THEN "nfc" ELSE IF t = "shrinks" THEN "short"
                        ELSE IF t = "grows" THEN "long"
                        ELSE IF t = "UN(U+212A)NOWN" THEN "UNKNOWN" ELSE t
    BY Zenon DEF NFC
  <2>2. ASSUME NEW t \in SideEffects, v = Text(t)
        PROVE  BoundedText(v) = v
    <3>1. v[1] = "text" /\ v[2] = t /\ t \notin {"", "prohibited"} /\ NFC(t) = t
      BY <2>1, <2>2, Tags DEF SideEffects
    <3> QED
      BY <2>2, <3>1, TextIs
  <2>3. ASSUME NEW t \in SideEffects, BoundedText(v) = Text(t)
        PROVE  v = Text(t)
    <3>1. CASE v[1] = "digest"
      BY <2>3, <3>1, TextIs
    <3>2. CASE v[1] = "text" /\ v[2] \notin {"", "prohibited"}
      <4>1. NFC(v[2]) = t
        BY <2>3, <3>2, TextIs, TextsDiffer
      <4>2. v[2] \in SideEffects
        BY <1>3, <3>2, <4>1 DEF ClassRespelled
      <4>3. v[2] = t
        BY <2>1, <4>1, <4>2 DEF SideEffects
      <4> QED
        BY <3>2, <4>3 DEF IsJson
    <3>3. CASE ~(v[1] = "digest") /\ ~(v[1] = "text" /\ v[2] \notin {"", "prohibited"})
      BY <2>3, <3>3, TextIs, Tags
    <3> QED
      BY <3>1, <3>2, <3>3
  <2>4. ASSUME \E t \in SideEffects : v = Text(t)
        PROVE  BoundedText(v) = v
    BY <2>2, <2>4
  <2>5. (\E t \in SideEffects : v = Text(t))
          <=> \E t \in SideEffects : BoundedText(v) = Text(t)
    BY <2>2, <2>3
  <2> QED
    BY <1>1, <1>3, <2>4, <2>5 DEF Only
<1> QED
  BY <1>1, <1>2, <1>3

\* A value or its default.
LEMMA Defaults ==
    ASSUME NEW v, IsJson(v)
    PROVE  /\ IsJson(Default(v, Map({}))) /\ IsJson(Default(v, Array(<<>>)))
           /\ \A t : IsJson(Default(v, Text(t)))
<1>1. IsJson(Map({})) /\ \A t : IsJson(Text(t))
  BY Tags, FS_EmptySet DEF IsJson
<1>2. IsJson(Array(<<>>))
  BY Tags DEF IsJson
<1> QED
  BY <1>1, <1>2 DEF Default

\* What an action's fields are read as, its class of side effects apart.
PartsOfAction(d, class) == [
    schema_version     |-> Only({ActionSchema}, BoundedText(d.schema_version)),
    operation_identity |-> BoundedText(d.operation_identity),
    operation_version  |-> BoundedText(d.operation_version),
    input_digest       |-> CheckDigestField(d.input_digest),
    trust_scope        |-> BoundedText(Default(d.trust_scope, Text("local"))),
    environment        |-> StringMapping(Default(d.environment, Map({}))),
    dependencies       |-> Dependencies(Default(d.dependencies, Array(<<>>))),
    side_effect_class  |-> class,
    authorization_scope_digest |-> OptionalDigest(d.authorization_scope_digest),
    freshness          |-> StringMapping(Default(d.freshness, Map({}))),
    dependency_completeness |-> Boolean(d.dependency_completeness),
    validator_identity |-> OptionalText(d.validator_identity)]

\* Python's parts, and those of the parsers that normalize the class first.
ActionParts(d) ==
    PartsOfAction(d, Only(SideEffects, Default(d.side_effect_class, Text("UNKNOWN"))))
NormalParts(d) ==
    PartsOfAction(d, Only(SideEffects,
                          BoundedText(Default(d.side_effect_class, Text("UNKNOWN")))))

NormalAction(d) ==
    IF HasFields(d, RequiredOfActions) THEN Collected(NormalParts(d)) ELSE Rejected

\* An action's document and its fields.
ActionDocument(d) == DOMAIN d = ActionFields /\ AreJson(d)

\* The fields of an action's document are JSON values.
LEMMA ActionValues ==
    ASSUME NEW d, ActionDocument(d)
    PROVE  /\ IsJson(d.trust_scope) /\ IsJson(d.environment) /\ IsJson(d.dependencies)
           /\ IsJson(d.side_effect_class) /\ IsJson(d.freshness) /\ IsJson(d.validator_identity)
BY DEF ActionDocument, ActionFields, RequiredOfActions, AreJson

\* Python's Action, with its fields named.
LEMMA ActionIs ==
    ASSUME NEW d
    PROVE  Action(d) = IF HasFields(d, RequiredOfActions) THEN Collected(ActionParts(d))
                       ELSE Rejected
BY DEF Action, ActionParts, PartsOfAction

\* Python reads the action that the others read, or none if its class is respelled
\* (protocol.py:258-260).
LEMMA PythonAction ==
    ASSUME NEW d, ActionDocument(d)
    PROVE  Action(d) =
             IF ClassRespelled(d.side_effect_class) THEN Rejected ELSE NormalAction(d)
<1> DEFINE given == Default(d.side_effect_class, Text("UNKNOWN"))
<1>1. IsJson(given)
  BY ActionValues, Defaults
<1>2. ClassRespelled(given) <=> ClassRespelled(d.side_effect_class)
  <2>1. ~ClassRespelled(Missing) /\ ~ClassRespelled(Text("UNKNOWN"))
    BY Tags DEF ClassRespelled, SideEffects
  <2> QED
    BY <2>1 DEF Default
<1> HIDE DEF given
<1>3. Only(SideEffects, given) =
        IF ClassRespelled(given) THEN Rejected ELSE Only(SideEffects, BoundedText(given))
  BY <1>1, Classes
<1>4. ASSUME ClassRespelled(given)
      PROVE  Collected(ActionParts(d)) = Rejected
  <2>1. "side_effect_class" \in DOMAIN ActionParts(d)
        /\ ActionParts(d)["side_effect_class"] = Only(SideEffects, given)
    BY DEF ActionParts, PartsOfAction, given
  <2> QED
    BY <1>3, <1>4, <2>1 DEF Collected
<1>5. ASSUME ~ClassRespelled(given)
      PROVE  ActionParts(d) = NormalParts(d)
  BY <1>3, <1>5 DEF ActionParts, NormalParts, given
<1> QED
  BY <1>2, <1>4, <1>5, ActionIs DEF NormalAction

\* Go normalizes the class of an action first (protocol.py:225, verifier.go:562).
LEMMA GoAction ==
    ASSUME NEW d, ActionDocument(d)
    PROVE  InGo!ParseAction(d) = NormalAction(d)
<1> DEFINE parts == [
        schema_version     |-> Only({ActionSchema}, InGo!StringValue(d.schema_version)),
        operation_identity |-> InGo!StringValue(d.operation_identity),
        operation_version  |-> InGo!StringValue(d.operation_version),
        input_digest       |-> InGo!RequiredDigest(d.input_digest),
        trust_scope        |-> IF d.trust_scope = Missing
                               THEN Text("local") ELSE InGo!StringValue(d.trust_scope),
        environment        |-> InGo!StringMap(Default(d.environment, Map({}))),
        dependencies       |-> InGo!ParseDependencies(Default(d.dependencies, Array(<<>>))),
        side_effect_class  |-> IF d.side_effect_class = Missing THEN Text("UNKNOWN")
                               ELSE Only(SideEffects,
                                         InGo!StringValue(d.side_effect_class)),
        authorization_scope_digest |-> InGo!OptionalDigest(d.authorization_scope_digest),
        freshness          |-> InGo!StringMap(Default(d.freshness, Map({}))),
        dependency_completeness |-> InGo!Flag(d.dependency_completeness),
        validator_identity |-> InGo!OptionalValue(d.validator_identity)]
<1>1. InGo!ParseAction(d) = IF HasFields(d, RequiredOfActions) THEN Collected(parts)
                                ELSE Rejected
  BY InGoValues, Zenon DEF InGo!ParseAction
<1>2. parts = NormalParts(d)
  <2>1. (IF d.trust_scope = Missing THEN Text("local") ELSE BoundedText(d.trust_scope))
          = BoundedText(Default(d.trust_scope, Text("local")))
    BY Defaults, ActionValues, PlainTexts DEF Default
  <2>2. (IF d.side_effect_class = Missing THEN Text("UNKNOWN")
         ELSE Only(SideEffects, BoundedText(d.side_effect_class)))
          = Only(SideEffects, BoundedText(Default(d.side_effect_class, Text("UNKNOWN"))))
    <3>1. Only(SideEffects, Text("UNKNOWN")) = Text("UNKNOWN")
      BY DEF Only, SideEffects
    <3>2. IsJson(Text("UNKNOWN")) /\ ~ClassRespelled(Text("UNKNOWN"))
      BY Tags DEF IsJson, ClassRespelled, SideEffects
    <3>3. Only(SideEffects, BoundedText(Text("UNKNOWN"))) = Text("UNKNOWN")
      BY <3>1, <3>2, Classes
    <3> QED
      BY <3>3 DEF Default
  <2>3. /\ InGo!StringMap(Default(d.environment, Map({})))
             = StringMapping(Default(d.environment, Map({})))
        /\ InGo!StringMap(Default(d.freshness, Map({})))
             = StringMapping(Default(d.freshness, Map({})))
    BY Defaults, ActionValues, MapReaders
  <2>4. InGo!ParseDependencies(Default(d.dependencies, Array(<<>>)))
          = Dependencies(Default(d.dependencies, Array(<<>>)))
    BY Defaults, ActionValues, GoDependencies
  <2>5. InGo!OptionalValue(d.validator_identity) = OptionalText(d.validator_identity)
    BY ActionValues, OptionalTextReaders
  <2> QED
    BY <2>1, <2>2, <2>3, <2>4, <2>5, TextReaders, FieldReaders DEF NormalParts, PartsOfAction
<1> HIDE DEF parts
<1> QED
  BY <1>1, <1>2 DEF NormalAction

\* .NET reads an action as Go does (Oncefold.cs:481).
LEMMA DotNetAction ==
    ASSUME NEW d, ActionDocument(d)
    PROVE  InDotNet!ParseAction(d) = NormalAction(d)
<1> DEFINE parts == [
        schema_version     |-> Only({ActionSchema}, InDotNet!RequiredText(d.schema_version)),
        operation_identity |-> InDotNet!RequiredText(d.operation_identity),
        operation_version  |-> InDotNet!RequiredText(d.operation_version),
        input_digest       |-> InDotNet!DigestValue(d.input_digest),
        trust_scope        |-> InDotNet!RequiredText(Default(d.trust_scope, Text("local"))),
        environment        |-> InDotNet!StringMap(d.environment),
        dependencies       |-> InDotNet!Dependencies(Default(d.dependencies, Array(<<>>))),
        side_effect_class  |-> Only(SideEffects, InDotNet!RequiredText(
                                    Default(d.side_effect_class, Text("UNKNOWN")))),
        authorization_scope_digest |->
            InDotNet!OptionalDigest(d.authorization_scope_digest),
        freshness          |-> InDotNet!StringMap(d.freshness),
        dependency_completeness |-> InDotNet!Boolean(d.dependency_completeness),
        validator_identity |-> InDotNet!OptionalText(d.validator_identity)]
<1>1. InDotNet!ParseAction(d) = IF HasFields(d, RequiredOfActions) THEN Collected(parts)
                                    ELSE Rejected
  BY InDotNetValues, Zenon DEF InDotNet!ParseAction
<1>2. parts = NormalParts(d)
  <2>2. /\ InDotNet!StringMap(d.environment)
             = StringMapping(Default(d.environment, Map({})))
        /\ InDotNet!StringMap(d.freshness) = StringMapping(Default(d.freshness, Map({})))
    BY ActionValues, MapReaders
  <2>3. InDotNet!Dependencies(Default(d.dependencies, Array(<<>>)))
          = Dependencies(Default(d.dependencies, Array(<<>>)))
    BY Defaults, ActionValues, DotNetDependencies
  <2>4. InDotNet!OptionalText(d.validator_identity) = OptionalText(d.validator_identity)
    BY ActionValues, OptionalTextReaders
  <2> QED
    BY <2>2, <2>3, <2>4, TextReaders, FieldReaders DEF NormalParts, PartsOfAction
<1> HIDE DEF parts
<1> QED
  BY <1>1, <1>2 DEF NormalAction

\* Only an optional text is read as the empty text.
LEMMA EmptyTexts ==
    ASSUME NEW v
    PROVE  /\ CheckDigestField(v) # Text("") /\ OptionalDigest(v) # Text("")
           /\ Boolean(v) # Text("") /\ StringMapping(v) # Text("")
           /\ Dependencies(v) # Text("") /\ BoundedText(v) # Text("")
           /\ OptionalText(v) = Text("") <=> v = Text("")
           /\ \A texts : "" \notin texts => Only(texts, v) # Text("")
           /\ Rejected # Text("")
<1>1. CheckDigestField(v) # Text("") /\ OptionalDigest(v) # Text("") /\ Boolean(v) # Text("")
  BY Tags DEF CheckDigestField, OptionalDigest, Boolean
<1>2. StringMapping(v) # Text("") /\ Dependencies(v) # Text("")
  <2>1. StringMapping(v) = Rejected \/ \E m : StringMapping(v) = Map(m)
    BY Zenon DEF StringMapping
  <2>2. Dependencies(v) = Rejected \/ \E s : Dependencies(v) = Array(s)
    BY Zenon DEF Dependencies
  <2> QED
    BY <2>1, <2>2, TextsApart, Zenon
<1>3. OptionalText(v) = Text("") <=> v = Text("")
  BY OptionalTextIs, TextsAreNotEmpty, Tags
<1>4. ASSUME NEW texts, "" \notin texts
      PROVE  Only(texts, v) # Text("")
  <2>1. Only(texts, v) = Rejected \/ \E t \in texts : Only(texts, v) = Text(t)
    BY DEF Only
  <2>2. \A t \in texts : Text(t) # Text("")
    BY <1>4, TextsDiffer
  <2> QED
    BY <2>1, <2>2, Tags
<1> QED
  BY <1>1, <1>2, <1>3, <1>4, TextsAreNotEmpty, Tags

\* Canonicalization refuses an object that has the empty text in a field.
LEMMA CanonicalIs ==
    ASSUME NEW fields
    PROVE  InTypeScript!Canonical(Collected(fields)) =
             IF \E f \in DOMAIN fields : fields[f] = Text("") THEN Rejected
             ELSE Collected(fields)
<1>1. CASE \E f \in DOMAIN fields : fields[f] = Rejected
  BY <1>1, InTypeScriptValues DEF InTypeScript!Canonical, Collected
<1>2. CASE ~\E f \in DOMAIN fields : fields[f] = Rejected
  <2>1. Collected(fields) = Object(fields) /\ Object(fields) # Rejected
        /\ Object(fields)[2] = fields
    BY <1>2, Tags DEF Collected
  <2> QED
    BY <2>1, InTypeScriptValues DEF InTypeScript!Canonical
<1> QED
  BY <1>1, <1>2

\* TypeScript reads an action as Go does or refuses it for its empty validator
\* (verifier.ts:351).
LEMMA TypeScriptAction ==
    ASSUME NEW d, ActionDocument(d)
    PROVE  InTypeScript!ParseAction(d) =
             IF d.validator_identity = Text("") THEN Rejected ELSE NormalAction(d)
<1> DEFINE parts == [
        schema_version     |-> Only({ActionSchema},
                                    InTypeScript!RequiredText(d.schema_version)),
        operation_identity |-> InTypeScript!RequiredText(d.operation_identity),
        operation_version  |-> InTypeScript!RequiredText(d.operation_version),
        input_digest       |-> InTypeScript!Digest(d.input_digest),
        trust_scope        |-> InTypeScript!RequiredText(
                                    Default(d.trust_scope, Text("local"))),
        environment        |-> InTypeScript!StringMap(d.environment),
        dependencies       |-> InTypeScript!Dependencies(
                                    Default(d.dependencies, Array(<<>>))),
        side_effect_class  |-> Only(SideEffects, InTypeScript!RequiredText(
                                    Default(d.side_effect_class, Text("UNKNOWN")))),
        authorization_scope_digest |->
            IF d.authorization_scope_digest \in {Missing, Null}
            THEN Null ELSE InTypeScript!Digest(d.authorization_scope_digest),
        freshness          |-> InTypeScript!StringMap(d.freshness),
        dependency_completeness |-> InTypeScript!Boolean(d.dependency_completeness),
        validator_identity |-> InTypeScript!OptionalText(d.validator_identity)]
<1>1. InTypeScript!ParseAction(d) =
        IF HasFields(d, RequiredOfActions) THEN InTypeScript!Canonical(Collected(parts))
        ELSE Rejected
  BY InTypeScriptValues, Zenon DEF InTypeScript!ParseAction
<1>2. parts = NormalParts(d)
  <2>2. /\ InTypeScript!StringMap(d.environment)
             = StringMapping(Default(d.environment, Map({})))
        /\ InTypeScript!StringMap(d.freshness)
             = StringMapping(Default(d.freshness, Map({})))
    BY ActionValues, MapReaders
  <2>3. InTypeScript!Dependencies(Default(d.dependencies, Array(<<>>)))
          = Dependencies(Default(d.dependencies, Array(<<>>)))
    BY Defaults, ActionValues, TypeScriptDependencies
  <2>4. InTypeScript!OptionalText(d.validator_identity) = OptionalText(d.validator_identity)
    BY ActionValues, OptionalTextReaders
  <2>5. (IF d.authorization_scope_digest \in {Missing, Null}
         THEN Null ELSE CheckDigestField(d.authorization_scope_digest))
          = OptionalDigest(d.authorization_scope_digest)
    BY DEF OptionalDigest
  <2> QED
    BY <2>2, <2>3, <2>4, <2>5, TextReaders, FieldReaders DEF NormalParts, PartsOfAction
<1> HIDE DEF parts
<1>3. (\E f \in DOMAIN NormalParts(d) : NormalParts(d)[f] = Text(""))
        <=> d.validator_identity = Text("")
  <2>1. "" \notin {ActionSchema} /\ "" \notin SideEffects
    BY DEF ActionSchema, SideEffects
  <2> DEFINE P == NormalParts(d)
  <2>2. /\ P.schema_version # Text("") /\ P.operation_identity # Text("")
        /\ P.operation_version # Text("") /\ P.input_digest # Text("")
        /\ P.trust_scope # Text("") /\ P.environment # Text("")
        /\ P.dependencies # Text("") /\ P.side_effect_class # Text("")
        /\ P.authorization_scope_digest # Text("") /\ P.freshness # Text("")
        /\ P.dependency_completeness # Text("")
        /\ P.validator_identity = Text("") <=> d.validator_identity = Text("")
    BY <2>1, EmptyTexts, Zenon DEF NormalParts, PartsOfAction
  <2>3. DOMAIN P = {"schema_version", "operation_identity", "operation_version",
                    "input_digest", "trust_scope", "environment", "dependencies",
                    "side_effect_class", "authorization_scope_digest", "freshness",
                    "dependency_completeness", "validator_identity"}
    BY DEF NormalParts, PartsOfAction
  <2> HIDE DEF P
  <2>4. (\E f \in DOMAIN P : P[f] = Text("")) <=> d.validator_identity = Text("")
    BY <2>2, <2>3
  <2> QED
    BY <2>4 DEF P
<1> QED
  BY <1>1, <1>2, <1>3, CanonicalIs, InTypeScriptValues DEF NormalAction

-----------------------------------------------------------------------------
(* Receipts *)

\* A receipt's document and its fields.
ReceiptDocument(d) ==
    /\ DOMAIN d = ReceiptFields /\ AreJson(d)
    /\ d.action[1] = "object" => ActionDocument(d.action[2])

\* The fields of a receipt's document are JSON values.
LEMMA ReceiptValues ==
    ASSUME NEW d, ReceiptDocument(d)
    PROVE  /\ IsJson(d.reuse_class) /\ IsJson(d.created_at) /\ IsJson(d.dependency_snapshot)
           /\ IsJson(d.result_reference) /\ IsJson(d.revocation_ref)
           /\ IsJson(d.validator_identity) /\ IsJson(d.provenance)
           /\ IsJson(d.execution_metadata) /\ IsJson(d.economics)
BY DEF ReceiptDocument, ReceiptFields, RequiredOfReceipts, AreJson

\* The action of a receipt as Python reads it, and as the others do.
ActionOf(d) == IF d.action[1] = "object" THEN Action(d.action[2]) ELSE Rejected

NormalActionOf(d) ==
    IF d.action[1] = "object" THEN NormalAction(d.action[2]) ELSE Rejected

\* What a receipt's fields are read as, its action apart.
PartsOfContent(d, action) == [
    schema_version    |-> Only({ReceiptSchema}, BoundedText(d.schema_version)),
    action            |-> action,
    action_digest     |-> Sha256(action),
    result_digest     |-> CheckDigestField(d.result_digest),
    result_reference  |-> OptionalText(d.result_reference),
    media_type        |-> BoundedText(d.media_type),
    producer_identity |-> BoundedText(d.producer_identity),
    reuse_class       |-> Only(ReuseClasses, d.reuse_class),
    created_at        |-> CanonicalTimestamp(d.created_at),
    dependency_snapshot |-> Dependencies(d.dependency_snapshot),
    provenance        |-> StringMapping(Default(d.provenance, Map({}))),
    trust_scope       |-> BoundedText(d.trust_scope),
    cache_scope       |-> BoundedText(d.cache_scope),
    revocation_ref    |-> OptionalText(d.revocation_ref),
    validator_identity |-> OptionalText(d.validator_identity),
    execution_metadata |-> StringMapping(Default(d.execution_metadata, Map({}))),
    economics         |-> StringMapping(Default(d.economics, Map({})))]

ContentParts(d) == PartsOfContent(d, ActionOf(d))
NormalContentParts(d) == PartsOfContent(d, NormalActionOf(d))

\* A receipt as the parsers read it that normalize the side effect class first.
NormalContent(d) ==
    IF \/ ~HasFields(d, RequiredOfReceipts) \/ NormalActionOf(d) = Rejected
       \/ d.action_digest # Sha256(NormalActionOf(d))
    THEN Rejected ELSE Collected(NormalContentParts(d))

NormalReceipt(d) ==
    IF NormalContent(d) # Rejected /\ d.receipt_digest = Sha256(NormalContent(d))
    THEN NormalContent(d) ELSE Rejected

\* Python's Content, with its fields named.
LEMMA ContentIs ==
    ASSUME NEW d
    PROVE  Content(d) =
             IF \/ ~HasFields(d, RequiredOfReceipts) \/ ActionOf(d) = Rejected
                \/ d.action_digest # Sha256(ActionOf(d))
             THEN Rejected ELSE Collected(ContentParts(d))
BY Zenon DEF Content, ContentParts, PartsOfContent, ActionOf

\* Python reads the receipt that the others read, or none if the class of its action
\* is respelled.
LEMMA PythonReceipt ==
    ASSUME NEW d, ReceiptDocument(d)
    PROVE  Receipt(d) = IF CarriesRespelledClass(d) THEN Rejected ELSE NormalReceipt(d)
<1>1. CarriesRespelledClass(d)
        <=> d.action[1] = "object" /\ ClassRespelled(d.action[2].side_effect_class)
  BY DEF CarriesRespelledClass, ClassRespelled
<1>2. ActionOf(d) = IF CarriesRespelledClass(d) THEN Rejected ELSE NormalActionOf(d)
  BY <1>1, PythonAction DEF ActionOf, NormalActionOf, ReceiptDocument
<1>3. ASSUME CarriesRespelledClass(d)
      PROVE  Receipt(d) = Rejected
  BY <1>2, <1>3, ContentIs DEF Receipt
<1>4. ASSUME ~CarriesRespelledClass(d)
      PROVE  Receipt(d) = NormalReceipt(d)
  <2>1. ContentParts(d) = NormalContentParts(d)
    BY <1>2, <1>4 DEF ContentParts, NormalContentParts
  <2>2. Content(d) = NormalContent(d)
    BY <1>2, <1>4, <2>1, ContentIs DEF NormalContent
  <2> QED
    BY <2>2 DEF Receipt, ReceiptDigest, NormalReceipt
<1> QED
  BY <1>3, <1>4

\* Timestamps are read alike, before or after normalization.
LEMMA Timestamps ==
    ASSUME NEW v, IsJson(v)
    PROVE  /\ InGo!CanonicalTimestamp(BoundedText(v)) = CanonicalTimestamp(v)
           /\ InTypeScript!CanonicalTimestamp(BoundedText(v)) = CanonicalTimestamp(v)
           /\ InDotNet!CanonicalTimestamp(BoundedText(v)) = CanonicalTimestamp(v)
           /\ CanonicalTimestamp(v) # Text("")
<1> DEFINE Plain == {"12:00:00Z", "12:00:00.000000Z", "12:00:00.500000Z"}
           Stamp(w) == IF w = Text("12:00:00Z") \/ w = Text("12:00:00.000000Z")
                       THEN Text("12:00:00Z")
                       ELSE IF w = Text("12:00:00.500000Z") THEN w ELSE Rejected
<1>0. /\ Text("12:00:00Z") # Text("12:00:00.000000Z")
      /\ Text("12:00:00Z") # Text("12:00:00.500000Z")
      /\ Text("12:00:00.500000Z") # Text("12:00:00.000000Z")
  BY TextsDiffer
<1>1. \A w : CanonicalTimestamp(w) = Stamp(w)
  BY <1>0, Zenon DEF CanonicalTimestamp
<1>2. \A w : InGo!CanonicalTimestamp(w) = Stamp(w)
  BY <1>0, InGoValues, Zenon DEF InGo!CanonicalTimestamp
<1>3. \A w : InTypeScript!CanonicalTimestamp(w) = Stamp(w)
  BY <1>0, InTypeScriptValues, Zenon DEF InTypeScript!CanonicalTimestamp
<1>4. \A w : InDotNet!CanonicalTimestamp(w) = Stamp(w)
  BY <1>0, InDotNetValues, Zenon DEF InDotNet!CanonicalTimestamp
<1>5. \A t \in Plain : BoundedText(v) = Text(t) <=> v = Text(t)
  BY PlainTexts
<1>6. Stamp(BoundedText(v)) = Stamp(v)
  BY <1>5
<1>7. Stamp(v) # Text("")
  BY EmptyTexts, TextsDiffer
<1> QED
  BY <1>1, <1>2, <1>3, <1>4, <1>6, <1>7

\* A digest that stands in a field is that of a value or is not one at all.
LEMMA DigestMatches ==
    ASSUME NEW v, NEW w
    PROVE  CheckDigestField(v) = Sha256(w) <=> v = Sha256(w)
BY Tags DEF CheckDigestField

\* What Go reads of a receipt before the receipt digest is compared
\* (protocol.py:387, verifier.go:648).
LEMMA GoContent ==
    ASSUME NEW d, ReceiptDocument(d)
    PROVE  InGo!Content(d) = NormalContent(d)
<1> DEFINE action == IF d.action[1] = "object" THEN InGo!ParseAction(d.action[2])
                     ELSE Rejected
           parts == [
        schema_version    |-> Only({ReceiptSchema}, InGo!StringValue(d.schema_version)),
        action            |-> action,
        action_digest     |-> d.action_digest,
        result_digest     |-> InGo!RequiredDigest(d.result_digest),
        result_reference  |-> InGo!OptionalValue(d.result_reference),
        media_type        |-> InGo!StringValue(d.media_type),
        producer_identity |-> InGo!StringValue(d.producer_identity),
        reuse_class       |-> Only(ReuseClasses, InGo!StringValue(d.reuse_class)),
        created_at        |-> InGo!CanonicalTimestamp(InGo!StringValue(d.created_at)),
        dependency_snapshot |-> InGo!ParseDependencies(d.dependency_snapshot),
        provenance        |-> InGo!StringMap(Default(d.provenance, Map({}))),
        trust_scope       |-> InGo!StringValue(d.trust_scope),
        cache_scope       |-> InGo!StringValue(d.cache_scope),
        revocation_ref    |-> InGo!OptionalValue(d.revocation_ref),
        validator_identity |-> InGo!OptionalValue(d.validator_identity),
        execution_metadata |-> InGo!StringMap(Default(d.execution_metadata, Map({}))),
        economics         |-> InGo!StringMap(Default(d.economics, Map({})))]
<1>1. InGo!Content(d) =
        IF \/ ~HasFields(d, RequiredOfReceipts) \/ action = Rejected
           \/ InGo!RequiredDigest(d.action_digest) # Sha256(action)
        THEN Rejected ELSE Collected(parts)
  BY InGoValues, Zenon DEF InGo!Content
<1>2. action = NormalActionOf(d)
  BY GoAction DEF NormalActionOf, ReceiptDocument
<1>3. InGo!RequiredDigest(d.action_digest) = Sha256(action) <=> d.action_digest = Sha256(action)
  BY DigestMatches, FieldReaders
<1>4. d.action_digest = Sha256(NormalActionOf(d)) /\ action = NormalActionOf(d)
        => parts = NormalContentParts(d)
  <2>1. Only(ReuseClasses, BoundedText(d.reuse_class)) = Only(ReuseClasses, d.reuse_class)
    BY ReceiptValues, Classes
  <2>2. InGo!CanonicalTimestamp(BoundedText(d.created_at))
          = CanonicalTimestamp(d.created_at)
    BY ReceiptValues, Timestamps
  <2>3. /\ InGo!StringMap(Default(d.provenance, Map({})))
             = StringMapping(Default(d.provenance, Map({})))
        /\ InGo!StringMap(Default(d.execution_metadata, Map({})))
             = StringMapping(Default(d.execution_metadata, Map({})))
        /\ InGo!StringMap(Default(d.economics, Map({})))
             = StringMapping(Default(d.economics, Map({})))
    BY Defaults, ReceiptValues, MapReaders
  <2>4. InGo!ParseDependencies(d.dependency_snapshot) = Dependencies(d.dependency_snapshot)
    BY ReceiptValues, GoDependencies
  <2>5. /\ InGo!OptionalValue(d.result_reference) = OptionalText(d.result_reference)
        /\ InGo!OptionalValue(d.revocation_ref) = OptionalText(d.revocation_ref)
        /\ InGo!OptionalValue(d.validator_identity) = OptionalText(d.validator_identity)
    BY ReceiptValues, OptionalTextReaders
  <2> HIDE DEF action
  <2> QED
    BY <2>1, <2>2, <2>3, <2>4, <2>5, TextReaders, FieldReaders
       DEF NormalContentParts, PartsOfContent
<1> HIDE DEF action, parts
<1> QED
  BY <1>1, <1>2, <1>3, <1>4 DEF NormalContent

\* .NET reads a receipt as Go does (Oncefold.cs:525).
LEMMA DotNetContent ==
    ASSUME NEW d, ReceiptDocument(d)
    PROVE  InDotNet!Content(d) = NormalContent(d)
<1> DEFINE action == IF d.action[1] = "object" THEN InDotNet!ParseAction(d.action[2])
                     ELSE Rejected
           parts == [
        schema_version    |-> Only({ReceiptSchema}, InDotNet!RequiredText(d.schema_version)),
        action            |-> action,
        action_digest     |-> Sha256(action),
        result_digest     |-> InDotNet!DigestValue(d.result_digest),
        result_reference  |-> InDotNet!OptionalText(d.result_reference),
        media_type        |-> InDotNet!RequiredText(d.media_type),
        producer_identity |-> InDotNet!RequiredText(d.producer_identity),
        reuse_class       |-> Only(ReuseClasses, InDotNet!RequiredText(d.reuse_class)),
        created_at        |-> InDotNet!CanonicalTimestamp(InDotNet!RequiredText(d.created_at)),
        dependency_snapshot |-> InDotNet!Dependencies(d.dependency_snapshot),
        provenance        |-> InDotNet!StringMap(d.provenance),
        trust_scope       |-> InDotNet!RequiredText(d.trust_scope),
        cache_scope       |-> InDotNet!RequiredText(d.cache_scope),
        revocation_ref    |-> InDotNet!OptionalText(d.revocation_ref),
        validator_identity |-> InDotNet!OptionalText(d.validator_identity),
        execution_metadata |-> InDotNet!StringMap(d.execution_metadata),
        economics         |-> InDotNet!StringMap(d.economics)]
<1>1. InDotNet!Content(d) =
        IF \/ ~HasFields(d, RequiredOfReceipts) \/ action = Rejected
           \/ InDotNet!DigestValue(d.action_digest) # Sha256(action)
        THEN Rejected ELSE Collected(parts)
  BY InDotNetValues, Zenon DEF InDotNet!Content
<1>2. action = NormalActionOf(d)
  BY DotNetAction DEF NormalActionOf, ReceiptDocument
<1>3. InDotNet!DigestValue(d.action_digest) = Sha256(action)
        <=> d.action_digest = Sha256(action)
  BY DigestMatches, FieldReaders
<1>4. d.action_digest = Sha256(NormalActionOf(d)) /\ action = NormalActionOf(d)
        => parts = NormalContentParts(d)
  <2>1. Only(ReuseClasses, BoundedText(d.reuse_class)) = Only(ReuseClasses, d.reuse_class)
    BY ReceiptValues, Classes
  <2>2. InDotNet!CanonicalTimestamp(BoundedText(d.created_at))
          = CanonicalTimestamp(d.created_at)
    BY ReceiptValues, Timestamps
  <2>3. /\ InDotNet!StringMap(d.provenance)
             = StringMapping(Default(d.provenance, Map({})))
        /\ InDotNet!StringMap(d.execution_metadata)
             = StringMapping(Default(d.execution_metadata, Map({})))
        /\ InDotNet!StringMap(d.economics)
             = StringMapping(Default(d.economics, Map({})))
    BY Defaults, ReceiptValues, MapReaders
  <2>4. InDotNet!Dependencies(d.dependency_snapshot) = Dependencies(d.dependency_snapshot)
    BY ReceiptValues, DotNetDependencies
  <2>5. /\ InDotNet!OptionalText(d.result_reference) = OptionalText(d.result_reference)
        /\ InDotNet!OptionalText(d.revocation_ref) = OptionalText(d.revocation_ref)
        /\ InDotNet!OptionalText(d.validator_identity) = OptionalText(d.validator_identity)
    BY ReceiptValues, OptionalTextReaders
  <2> HIDE DEF action
  <2> QED
    BY <2>1, <2>2, <2>3, <2>4, <2>5, TextReaders, FieldReaders
       DEF NormalContentParts, PartsOfContent
<1> HIDE DEF action, parts
<1> QED
  BY <1>1, <1>2, <1>3, <1>4 DEF NormalContent

\* Which of a receipt's fields can be the empty text.
LEMMA EmptyParts ==
    ASSUME NEW d, ReceiptDocument(d)
    PROVE  (\E f \in DOMAIN NormalContentParts(d) : NormalContentParts(d)[f] = Text(""))
             <=> \E f \in {"result_reference", "revocation_ref", "validator_identity"} :
                    d[f] = Text("")
<1> DEFINE P == NormalContentParts(d)
<1>1. "" \notin {ReceiptSchema} /\ "" \notin ReuseClasses
  BY DEF ReceiptSchema, ReuseClasses
<1>2. NormalActionOf(d) # Text("") /\ Sha256(NormalActionOf(d)) # Text("")
      /\ CanonicalTimestamp(d.created_at) # Text("")
  <2>1. \A fields : Collected(fields) # Text("")
    BY Tags DEF Collected
  <2>2. NormalActionOf(d) # Text("")
    BY <2>1, TextsApart DEF NormalActionOf, NormalAction
  <2>3. CanonicalTimestamp(d.created_at) # Text("")
    BY ReceiptValues, Timestamps
  <2> QED
    BY <2>2, <2>3, Tags
<1>3. /\ P.schema_version # Text("") /\ P.action # Text("") /\ P.action_digest # Text("")
      /\ P.result_digest # Text("") /\ P.media_type # Text("")
      /\ P.producer_identity # Text("") /\ P.reuse_class # Text("")
      /\ P.created_at # Text("") /\ P.dependency_snapshot # Text("")
      /\ P.provenance # Text("") /\ P.trust_scope # Text("") /\ P.cache_scope # Text("")
      /\ P.execution_metadata # Text("") /\ P.economics # Text("")
      /\ P.result_reference = Text("") <=> d.result_reference = Text("")
      /\ P.revocation_ref = Text("") <=> d.revocation_ref = Text("")
      /\ P.validator_identity = Text("") <=> d.validator_identity = Text("")
  BY <1>1, <1>2, EmptyTexts, Zenon DEF NormalContentParts, PartsOfContent
<1>4. DOMAIN P = {"schema_version", "action", "action_digest", "result_digest",
                  "result_reference", "media_type", "producer_identity", "reuse_class",
                  "created_at", "dependency_snapshot", "provenance", "trust_scope",
                  "cache_scope", "revocation_ref", "validator_identity",
                  "execution_metadata", "economics"}
  BY DEF NormalContentParts, PartsOfContent
<1> HIDE DEF P
<1>5. (\E f \in DOMAIN P : P[f] = Text(""))
        <=> \E f \in {"result_reference", "revocation_ref", "validator_identity"} :
               d[f] = Text("")
  BY <1>3, <1>4
<1> QED
  BY <1>5 DEF P

\* TypeScript reads a receipt as Go does or refuses it for an empty text
\* (verifier.ts:386).
LEMMA TypeScriptContent ==
    ASSUME NEW d, ReceiptDocument(d)
    PROVE  InTypeScript!Content(d) =
             IF CarriesEmptyText(d) THEN Rejected ELSE NormalContent(d)
<1> DEFINE action == IF d.action[1] = "object" THEN InTypeScript!ParseAction(d.action[2])
                     ELSE Rejected
           parts == [
        schema_version    |-> Only({ReceiptSchema},
                                  InTypeScript!RequiredText(d.schema_version)),
        action            |-> action,
        action_digest     |-> Sha256(action),
        result_digest     |-> InTypeScript!Digest(d.result_digest),
        result_reference  |-> InTypeScript!OptionalText(d.result_reference),
        media_type        |-> InTypeScript!RequiredText(d.media_type),
        producer_identity |-> InTypeScript!RequiredText(d.producer_identity),
        reuse_class       |-> Only(ReuseClasses, InTypeScript!RequiredText(d.reuse_class)),
        created_at        |-> InTypeScript!CanonicalTimestamp(
                                  InTypeScript!RequiredText(d.created_at)),
        dependency_snapshot |-> InTypeScript!Dependencies(d.dependency_snapshot),
        provenance        |-> InTypeScript!StringMap(d.provenance),
        trust_scope       |-> InTypeScript!RequiredText(d.trust_scope),
        cache_scope       |-> InTypeScript!RequiredText(d.cache_scope),
        revocation_ref    |-> InTypeScript!OptionalText(d.revocation_ref),
        validator_identity |-> InTypeScript!OptionalText(d.validator_identity),
        execution_metadata |-> InTypeScript!StringMap(d.execution_metadata),
        economics         |-> InTypeScript!StringMap(d.economics)]
<1>1. InTypeScript!Content(d) =
        IF \/ ~HasFields(d, RequiredOfReceipts) \/ action = Rejected
           \/ InTypeScript!Digest(d.action_digest) # Sha256(action)
        THEN Rejected ELSE InTypeScript!Canonical(Collected(parts))
  BY InTypeScriptValues, Zenon DEF InTypeScript!Content
<1>2. action = IF d.action[1] = "object" /\ d.action[2].validator_identity = Text("")
               THEN Rejected ELSE NormalActionOf(d)
  BY TypeScriptAction DEF NormalActionOf, ReceiptDocument
<1>3. InTypeScript!Digest(d.action_digest) = Sha256(action)
        <=> d.action_digest = Sha256(action)
  BY DigestMatches, FieldReaders
<1>4. d.action_digest = Sha256(NormalActionOf(d)) /\ action = NormalActionOf(d)
        => parts = NormalContentParts(d)
  <2>1. Only(ReuseClasses, BoundedText(d.reuse_class)) = Only(ReuseClasses, d.reuse_class)
    BY ReceiptValues, Classes
  <2>2. InTypeScript!CanonicalTimestamp(BoundedText(d.created_at))
          = CanonicalTimestamp(d.created_at)
    BY ReceiptValues, Timestamps
  <2>3. /\ InTypeScript!StringMap(d.provenance)
             = StringMapping(Default(d.provenance, Map({})))
        /\ InTypeScript!StringMap(d.execution_metadata)
             = StringMapping(Default(d.execution_metadata, Map({})))
        /\ InTypeScript!StringMap(d.economics)
             = StringMapping(Default(d.economics, Map({})))
    BY Defaults, ReceiptValues, MapReaders
  <2>4. InTypeScript!Dependencies(d.dependency_snapshot) = Dependencies(d.dependency_snapshot)
    BY ReceiptValues, TypeScriptDependencies
  <2>5. /\ InTypeScript!OptionalText(d.result_reference) = OptionalText(d.result_reference)
        /\ InTypeScript!OptionalText(d.revocation_ref) = OptionalText(d.revocation_ref)
        /\ InTypeScript!OptionalText(d.validator_identity) = OptionalText(d.validator_identity)
    BY ReceiptValues, OptionalTextReaders
  <2> HIDE DEF action
  <2> QED
    BY <2>1, <2>2, <2>3, <2>4, <2>5, TextReaders, FieldReaders
       DEF NormalContentParts, PartsOfContent
<1> HIDE DEF action, parts
<1>5. (\E f \in DOMAIN NormalContentParts(d) : NormalContentParts(d)[f] = Text(""))
        <=> \E f \in {"result_reference", "revocation_ref", "validator_identity"} :
               d[f] = Text("")
  BY EmptyParts
<1>6. CASE action = NormalActionOf(d)
  <2>1. \/ action = Rejected
        \/ ~(d.action[1] = "object" /\ d.action[2].validator_identity = Text(""))
    BY <1>2
  <2> QED
    BY <1>1, <1>3, <1>4, <1>5, <1>6, <2>1, CanonicalIs, InTypeScriptValues
       DEF CarriesEmptyText, NormalContent
<1>7. CASE action # NormalActionOf(d)
  <2>1. action = Rejected /\ CarriesEmptyText(d)
    BY <1>2, <1>7 DEF CarriesEmptyText
  <2> QED
    BY <1>1, <2>1
<1> QED
  BY <1>6, <1>7

\* With the comparison of the receipt digest the three parsers that normalize the
\* class read one receipt, and TypeScript refuses empty texts.
LEMMA ReceiptReaders ==
    ASSUME NEW d, ReceiptDocument(d)
    PROVE  /\ InGo!ParseReceipt(d) = NormalReceipt(d)
           /\ InDotNet!ParseReceipt(d) = NormalReceipt(d)
           /\ InTypeScript!ParseReceipt(d) =
                IF CarriesEmptyText(d) THEN Rejected ELSE NormalReceipt(d)
<1>1. InGo!ParseReceipt(d) = NormalReceipt(d)
  BY GoContent, DigestMatches, FieldReaders, InGoValues
     DEF NormalReceipt, InGo!ParseReceipt
<1>2. InDotNet!ParseReceipt(d) = NormalReceipt(d)
  BY DotNetContent, DigestMatches, FieldReaders, InDotNetValues
     DEF NormalReceipt, InDotNet!ParseReceipt
<1>3. InTypeScript!ParseReceipt(d) = IF CarriesEmptyText(d) THEN Rejected ELSE NormalReceipt(d)
  BY TypeScriptContent, DigestMatches, FieldReaders, InTypeScriptValues
     DEF NormalReceipt, InTypeScript!ParseReceipt
<1> QED
  BY <1>1, <1>2, <1>3

-----------------------------------------------------------------------------
(* Python's writing, read again *)

\* A text that was read is read as itself.
LEMMA TextsAgain ==
    ASSUME NEW v
    PROVE  /\ BoundedText(v) # Rejected => BoundedText(BoundedText(v)) = BoundedText(v)
           /\ OptionalText(v) # Rejected => OptionalText(OptionalText(v)) = OptionalText(v)
           /\ IsJson(v) => IsJson(BoundedText(v)) /\ IsJson(OptionalText(v))
           /\ BoundedText(v) # Missing /\ OptionalText(v) # Missing
<1>1. ASSUME BoundedText(v) # Rejected
      PROVE  BoundedText(BoundedText(v)) = BoundedText(v)
  <2>1. CASE v[1] = "digest"
    BY <2>1, TextIs
  <2>2. CASE v[1] = "text" /\ v[2] \notin {"", "prohibited"}
    <3>1. BoundedText(v) = Text(NFC(v[2]))
      BY <2>2, TextIs
    <3>2. NFC(v[2]) \notin {"", "prohibited"} /\ NFC(NFC(v[2])) = NFC(v[2])
      <4>1. \A t : NFC(t) = IF t = "nfd" THEN "nfc" ELSE IF t = "shrinks" THEN "short"
                            ELSE IF t = "grows" THEN "long"
                            ELSE IF t = "UN(U+212A)NOWN" THEN "UNKNOWN" ELSE t
        BY Zenon DEF NFC
      <4> QED
        BY <2>2, <4>1, NormalForms
    <3>3. Text(NFC(v[2]))[1] = "text" /\ Text(NFC(v[2]))[2] = NFC(v[2])
      BY Tags
    <3> QED
      BY <3>1, <3>2, <3>3, TextIs
  <2>3. CASE ~(v[1] = "digest") /\ ~(v[1] = "text" /\ v[2] \notin {"", "prohibited"})
    BY <1>1, <2>3, TextIs
  <2> QED
    BY <2>1, <2>2, <2>3
<1>2. BoundedText(v) # Missing /\ BoundedText(v) # Null
  BY TextIs, Tags
<1>3. ASSUME OptionalText(v) # Rejected
      PROVE  OptionalText(OptionalText(v)) = OptionalText(v)
  BY <1>1, <1>2, <1>3, OptionalTextIs, TextsAreNotEmpty, Tags
<1>4. IsJson(Null) /\ IsJson(Rejected) /\ \A t : IsJson(Text(t))
  BY Tags DEF IsJson
<1>5. ASSUME IsJson(v)
      PROVE  IsJson(BoundedText(v)) /\ IsJson(OptionalText(v))
  BY <1>4, <1>5, TextIs, OptionalTextIs
<1>6. OptionalText(v) # Missing
  BY <1>2, OptionalTextIs, Tags
<1> QED
  BY <1>1, <1>2, <1>3, <1>5, <1>6

\* So are digests, flags, chosen texts and timestamps.
LEMMA FieldsAgain ==
    ASSUME NEW v
    PROVE  /\ CheckDigestField(v) # Rejected =>
                /\ CheckDigestField(CheckDigestField(v)) = CheckDigestField(v)
                /\ IsJson(CheckDigestField(v)) /\ CheckDigestField(v) # Missing
           /\ OptionalDigest(v) # Rejected =>
                /\ OptionalDigest(OptionalDigest(v)) = OptionalDigest(v)
                /\ IsJson(OptionalDigest(v)) /\ OptionalDigest(v) # Missing
           /\ Boolean(v) # Rejected =>
                /\ Boolean(Boolean(v)) = Boolean(v)
                /\ IsJson(Boolean(v)) /\ Boolean(v) # Missing
           /\ \A texts : Only(texts, v) # Rejected =>
                /\ Only(texts, Only(texts, v)) = Only(texts, v)
                /\ IsJson(Only(texts, v)) /\ Only(texts, v) # Missing
           /\ CanonicalTimestamp(v) # Rejected =>
                /\ CanonicalTimestamp(CanonicalTimestamp(v)) = CanonicalTimestamp(v)
                /\ IsJson(CanonicalTimestamp(v)) /\ CanonicalTimestamp(v) # Missing
<1>0. IsJson(Null) /\ Null # Missing /\ (\A t : IsJson(Text(t)) /\ Text(t) # Missing)
      /\ Null # Rejected
  BY Tags DEF IsJson
<1>1. \A w : w[1] \in {"digest", "boolean"} => IsJson(w) /\ w # Missing /\ w # Null
  BY Tags DEF IsJson
<1>2. CheckDigestField(v) # Rejected => v[1] = "digest" /\ CheckDigestField(v) = v
  BY DEF CheckDigestField
<1>3. OptionalDigest(v) # Rejected =>
        OptionalDigest(v) = Null \/ (v[1] = "digest" /\ OptionalDigest(v) = v)
  BY <1>2 DEF OptionalDigest
<1>4. OptionalDigest(Null) = Null
  BY DEF OptionalDigest
<1>5. Boolean(v) # Rejected => v[1] = "boolean" /\ Boolean(v) = v
  BY DEF Boolean
<1>6. ASSUME NEW texts, Only(texts, v) # Rejected
      PROVE  Only(texts, v) = v /\ \E t : v = Text(t)
  BY <1>6 DEF Only
<1>7. ASSUME CanonicalTimestamp(v) # Rejected
      PROVE  /\ CanonicalTimestamp(CanonicalTimestamp(v)) = CanonicalTimestamp(v)
             /\ \E t : CanonicalTimestamp(v) = Text(t)
  <2>0. /\ Text("12:00:00Z") # Text("12:00:00.000000Z")
        /\ Text("12:00:00Z") # Text("12:00:00.500000Z")
        /\ Text("12:00:00.500000Z") # Text("12:00:00.000000Z")
    BY TextsDiffer
  <2>1. \A w : CanonicalTimestamp(w) =
          IF w = Text("12:00:00Z") \/ w = Text("12:00:00.000000Z")
          THEN Text("12:00:00Z")
          ELSE IF w = Text("12:00:00.500000Z") THEN w ELSE Rejected
    BY <2>0, Zenon DEF CanonicalTimestamp
  <2> QED
    BY <1>7, <2>0, <2>1
<1> QED
  BY <1>0, <1>1, <1>2, <1>3, <1>4, <1>5, <1>6, <1>7

\* A map that was read is read as itself.
LEMMA MapsAgain ==
    ASSUME NEW v, IsJson(v), StringMapping(v) # Rejected
    PROVE  /\ StringMapping(StringMapping(v)) = StringMapping(v)
           /\ IsJson(StringMapping(v)) /\ StringMapping(v) # Missing
<1> DEFINE S == v[2]
           N == Normalized(S)
<1>1. v[1] = "map" /\ Readable(S) /\ StringMapping(v) = Map(N)
  BY MapIs
<1>2. IsFiniteSet(N)
  <2> DEFINE f == [m \in S |-> <<BoundedText(m[1]), BoundedText(m[2])>>]
             T == {f[m] : m \in S}
  <2>1. IsFiniteSet(S) /\ DOMAIN f = S
    BY <1>1 DEF IsJson
  <2>2. N = T
    BY DEF Normalized
  <2>3. IsFiniteSet(T)
    <3> HIDE DEF f, S
    <3> QED
      BY <2>1, CountingImages
  <2> QED
    BY <2>2, <2>3
<1>3. \A p \in N : \E m \in S : /\ p = <<BoundedText(m[1]), BoundedText(m[2])>>
                                /\ BoundedText(p[1]) = p[1] /\ BoundedText(p[2]) = p[2]
                                /\ p[1] # Rejected /\ p[2] # Rejected
  BY <1>1, TextsAgain DEF Normalized, Readable
<1>4. Readable(N)
  <2>1. ASSUME NEW p \in N, NEW q \in N, BoundedText(p[1]) = BoundedText(q[1])
        PROVE  p = q
    <3>1. PICK m \in S : /\ p = <<BoundedText(m[1]), BoundedText(m[2])>>
                         /\ BoundedText(p[1]) = p[1]
      BY <1>3
    <3>2. PICK n \in S : /\ q = <<BoundedText(n[1]), BoundedText(n[2])>>
                         /\ BoundedText(q[1]) = q[1]
      BY <1>3
    <3>3. BoundedText(m[1]) = BoundedText(n[1])
      BY <2>1, <3>1, <3>2
    <3> QED
      BY <1>1, <3>1, <3>2, <3>3 DEF Readable
  <2> HIDE DEF N, S
  <2> QED
    BY <1>3, <2>1 DEF Readable
<1>5. Normalized(N) = N
  <2>1. \A p \in N : <<BoundedText(p[1]), BoundedText(p[2])>> = p
    BY <1>3
  <2> HIDE DEF N
  <2> QED
    BY <2>1 DEF Normalized
<1>6. IsJson(Map(N))
  BY <1>2, Tags DEF IsJson
<1> HIDE DEF N
<1>7. StringMapping(Map(N)) = Map(N)
  BY <1>4, <1>5, <1>6, MapIs, Tags
<1> QED
  BY <1>1, <1>6, <1>7, Tags


\* The sequence that a finite set is written as has each element once.
LEMMA Enumerated ==
    ASSUME NEW W, IsFiniteSet(W)
    PROVE  LET s == SetToSeq(W)
           IN  /\ Len(s) \in Nat /\ DOMAIN s = 1..Len(s)
               /\ \A i, j \in DOMAIN s : s[i] = s[j] => i = j
               /\ {s[i] : i \in DOMAIN s} = W
<1> DEFINE n == Cardinality(W)
           s == SetToSeq(W)
<1>1. n \in Nat /\ ExistsBijection(1..n, W)
  BY FS_CardinalityType
<1>2. \E f \in [1..n -> W] : IsInjective(f)
  <2>1. PICK f \in Bijection(1..n, W) : TRUE
    BY <1>1 DEF ExistsBijection
  <2>2. f \in [1..n -> W] /\ IsInjective(f)
    BY <2>1 DEF Bijection, Injection
  <2> QED
    BY <2>2
<1>3. s \in [1..n -> W] /\ IsInjective(s)
  BY <1>2 DEF SetToSeq
<1>4. {s[i] : i \in 1..n} = W
  <2> DEFINE T == {s[i] : i \in 1..n}
  <2>1. IsFiniteSet(1..n) /\ Cardinality(1..n) = n
    BY <1>1, CountingTo
  <2>2. DOMAIN s = 1..n /\ \A i, j \in 1..n : s[i] = s[j] => i = j
    BY <1>3 DEF IsInjective
  <2>3. Cardinality(T) = n
    <3> DEFINE S == 1..n
    <3>1. IsFiniteSet(S) /\ DOMAIN s = S /\ Cardinality(S) = n
          /\ \A i, j \in S : s[i] = s[j] => i = j
      BY <2>1, <2>2
    <3> HIDE DEF S, s, n
    <3>2. Cardinality({s[i] : i \in S}) = Cardinality(S)
      BY <3>1, CountingImages
    <3> QED
      BY <3>1, <3>2 DEF S
  <2>4. T \subseteq W
    BY <1>3
  <2> HIDE DEF T
  <2> QED
    BY <2>3, <2>4, FS_Subset DEF T
<1>5. Len(s) = n /\ DOMAIN s = 1..n
  <2> HIDE DEF s, n
  <2>1. s \in Seq(W)
    BY <1>1, <1>3
  <2> QED
    BY <1>1, <1>3, <2>1
<1> HIDE DEF n
<1> QED
  BY <1>1, <1>3, <1>4, <1>5 DEF IsInjective

\* A dependency that was read and written is read as itself.
LEMMA DependencyAgain ==
    ASSUME NEW x, Dependency(x) # Rejected
    PROVE  Dependency(Written(Dependency(x))) = Dependency(x)
<1> DEFINE F == [kind |-> BoundedText(x.kind), identity |-> BoundedText(x.identity),
                 digest |-> CheckDigestField(x.digest),
                 required |-> Boolean(Default(x.required, Bool(TRUE)))]
           w == Written(Object(F))
<1>1. Dependency(x) = Object(F)
  BY DEF Dependency, Collected
<1>2. /\ F.kind # Rejected /\ F.identity # Rejected /\ F.digest # Rejected
      /\ F.required # Rejected
  <2>1. \A f \in DOMAIN F : F[f] # Rejected
    BY DEF Dependency, Collected
  <2>2. DOMAIN F = {"kind", "identity", "digest", "required"}
    OBVIOUS
  <2> HIDE DEF F
  <2> QED
    BY <2>1, <2>2
<1>3. /\ w.kind = F.kind /\ w.identity = F.identity /\ w.digest = F.digest
      /\ w.required = F.required /\ w.extra = Missing
  <2>1. DOMAIN F = {"kind", "identity", "digest", "required"}
    OBVIOUS
  <2> HIDE DEF F
  <2>2. w = [f \in DOMAIN F \cup {"extra"} |-> IF f = "extra" THEN Missing ELSE F[f]]
    BY Tags DEF Written
  <2> HIDE DEF w
  <2> QED
    BY <2>1, <2>2
<1>4. /\ BoundedText(F.kind) = F.kind /\ F.kind # Missing
      /\ BoundedText(F.identity) = F.identity /\ F.identity # Missing
      /\ CheckDigestField(F.digest) = F.digest /\ F.digest # Missing
      /\ Boolean(F.required) = F.required /\ F.required # Missing
  BY <1>2, TextsAgain, FieldsAgain
<1>5. /\ HasFields(w, RequiredOfDependencies)
      /\ BoundedText(w.kind) = F.kind /\ BoundedText(w.identity) = F.identity
      /\ CheckDigestField(w.digest) = F.digest
      /\ Boolean(Default(w.required, Bool(TRUE))) = F.required
  <2> HIDE DEF w, F
  <2> QED
    BY <1>3, <1>4 DEF HasFields, RequiredOfDependencies, Default
<1>6. [kind |-> BoundedText(w.kind), identity |-> BoundedText(w.identity),
       digest |-> CheckDigestField(w.digest),
       required |-> Boolean(Default(w.required, Bool(TRUE)))] = F
  <2> HIDE DEF w
  <2> QED
    BY <1>5
<1>7. Dependency(w) = Collected(F)
  <2> HIDE DEF F, w
  <2> QED
    BY <1>5, <1>6 DEF Dependency
<1>8. Collected(F) = Object(F)
  BY DEF Dependency, Collected
<1> QED
  BY <1>1, <1>7, <1>8

\* So is a list of dependencies, in whatever order it is written.
LEMMA DependenciesAgain ==
    ASSUME NEW v, IsJson(v), Dependencies(v) # Rejected
    PROVE  LET w == WrittenDependencies(Dependencies(v))
           IN  Dependencies(w) = Dependencies(v) /\ IsJson(w) /\ w # Missing
<1> DEFINE items == v[2]
           A == Accepted(items)
           W == {Written(d) : d \in A}
           s == SetToSeq(W)
<1>1. v[1] = "array" /\ Distinct(items) /\ Dependencies(v) = Array(A)
  BY DependenciesIs
<1>2. WrittenDependencies(Dependencies(v)) = Array(s)
  <2>1. Dependencies(v)[2] = A
    BY <1>1, Tags
  <2>2. {Written(d) : d \in Dependencies(v)[2]} = W
    BY <2>1
  <2> HIDE DEF A, W
  <2> QED
    BY <2>2 DEF WrittenDependencies
<1>3. IsFiniteSet(W)
  <2> DEFINE f == [i \in DOMAIN items |-> Written(Dependency(items[i]))]
             T == {f[i] : i \in DOMAIN items}
  <2>1. DOMAIN items = 1..Len(items) /\ Len(items) \in Nat
    BY <1>1 DEF IsJson
  <2>2. IsFiniteSet(DOMAIN items)
    <3>1. IsFiniteSet(1..Len(items))
      BY <2>1, CountingTo
    <3> QED
      BY <2>1, <3>1
  <2>3. W = T
    BY DEF Accepted
  <2>4. IsFiniteSet(T)
    <3> DEFINE S == DOMAIN items
    <3>1. IsFiniteSet(S) /\ DOMAIN f = S
      BY <2>2
    <3> HIDE DEF f, S
    <3>2. IsFiniteSet({f[i] : i \in S})
      BY <3>1, CountingImages
    <3> QED
      BY <3>2 DEF S
  <2> QED
    BY <2>3, <2>4
<1>4. /\ Len(s) \in Nat /\ DOMAIN s = 1..Len(s)
      /\ \A i, j \in DOMAIN s : s[i] = s[j] => i = j
      /\ {s[i] : i \in DOMAIN s} = W
  <2> HIDE DEF W
  <2> QED
    BY <1>3, Enumerated
<1>5. \A d \in A : d # Rejected /\ Dependency(Written(d)) = d
  BY <1>1, DependencyAgain DEF Distinct, Accepted
<1>6. \A d, e \in A : Identity(d) = Identity(e) => d = e
  BY <1>1 DEF Distinct, Accepted
<1> HIDE DEF A, s
<1>7. \A i \in DOMAIN s : /\ Dependency(s[i]) \in A
                          /\ s[i] = Written(Dependency(s[i]))
  BY <1>4, <1>5
<1>8. Accepted(s) = A
  <2>1. \A d \in A : \E i \in DOMAIN s : Dependency(s[i]) = d
    BY <1>4, <1>5
  <2> QED
    BY <1>7, <2>1 DEF Accepted
<1>9. Distinct(s)
  <2>1. ASSUME NEW i \in DOMAIN s, NEW j \in DOMAIN s,
               Identity(Dependency(s[i])) = Identity(Dependency(s[j]))
        PROVE  i = j
    <3>1. Dependency(s[i]) = Dependency(s[j])
      BY <1>6, <1>7, <2>1
    <3> QED
      BY <1>4, <1>7, <3>1
  <2> QED
    BY <1>5, <1>7, <2>1 DEF Distinct
<1>10. IsJson(Array(s))
  BY <1>4, Tags DEF IsJson
<1>11. Dependencies(Array(s)) = Array(A)
  BY <1>8, <1>9, <1>10, DependenciesIs, Tags
<1> QED
  BY <1>1, <1>2, <1>10, <1>11, Tags

\* A written action is read as the action it was written from, with an empty
\* validator if that had one.
LEMMA ActionAgain ==
    ASSUME NEW d, ActionDocument(d), Action(d) # Rejected
    PROVE  LET w == ActionAsDict(Action(d))
           IN  /\ ActionDocument(w) /\ Action(w) = Action(d)
               /\ w.validator_identity = Text("") <=> d.validator_identity = Text("")
<1> DEFINE P == ActionParts(d)
           w == ActionAsDict(Action(d))
           names == {"schema_version", "operation_identity", "operation_version",
                     "input_digest", "trust_scope", "environment", "dependencies",
                     "side_effect_class", "authorization_scope_digest", "freshness",
                     "dependency_completeness", "validator_identity"}
<1>1. /\ Action(d) = Object(P) /\ Collected(P) = Object(P)
      /\ \A f \in DOMAIN P : P[f] # Rejected
  <2> HIDE DEF P
  <2> QED
    BY ActionIs DEF Collected, P
<1>2. DOMAIN P = names
  BY DEF ActionParts, PartsOfAction
<1>3. /\ DOMAIN w = ActionFields
      /\ w.dependencies = WrittenDependencies(P.dependencies) /\ w.extra = Missing
      /\ \A f \in names \ {"dependencies"} : w[f] = P[f]
  <2> HIDE DEF P
  <2>1. Written(Action(d)) =
          [f \in names \cup {"extra"} |-> IF f = "extra" THEN Missing ELSE P[f]]
    BY <1>1, <1>2, Tags DEF Written
  <2>2. w = [f \in names \cup {"extra"} |->
               IF f = "dependencies" THEN WrittenDependencies(P[f])
               ELSE IF f = "extra" THEN Missing ELSE P[f]]
    BY <1>1, <2>1, Tags DEF ActionAsDict
  <2>3. names \cup {"extra"} = ActionFields
    BY DEF ActionFields, RequiredOfActions
  <2> HIDE DEF w
  <2> QED
    BY <2>2, <2>3
<1>4. /\ P.schema_version # Rejected /\ P.operation_identity # Rejected
      /\ P.operation_version # Rejected /\ P.input_digest # Rejected
      /\ P.trust_scope # Rejected /\ P.environment # Rejected /\ P.dependencies # Rejected
      /\ P.side_effect_class # Rejected /\ P.authorization_scope_digest # Rejected
      /\ P.freshness # Rejected /\ P.dependency_completeness # Rejected
      /\ P.validator_identity # Rejected
  <2> HIDE DEF P
  <2> QED
    BY <1>1, <1>2
<1>5. /\ Only({ActionSchema}, BoundedText(P.schema_version)) = P.schema_version
      /\ IsJson(P.schema_version) /\ P.schema_version # Missing
  <2> DEFINE t == BoundedText(d.schema_version)
  <2>1. P.schema_version = Only({ActionSchema}, t)
    BY DEF ActionParts, PartsOfAction
  <2>2. Only({ActionSchema}, t) = t /\ t # Rejected
    BY <1>4, <2>1 DEF Only
  <2>3. BoundedText(t) = t
    BY <2>2, TextsAgain
  <2> HIDE DEF t, P
  <2> QED
    BY <1>4, <2>1, <2>2, <2>3, FieldsAgain
<1>6. /\ BoundedText(P.operation_identity) = P.operation_identity
      /\ IsJson(P.operation_identity) /\ P.operation_identity # Missing
      /\ BoundedText(P.operation_version) = P.operation_version
      /\ IsJson(P.operation_version) /\ P.operation_version # Missing
      /\ BoundedText(P.trust_scope) = P.trust_scope
      /\ IsJson(P.trust_scope) /\ P.trust_scope # Missing
  <2>1. /\ P.operation_identity = BoundedText(d.operation_identity)
        /\ P.operation_version = BoundedText(d.operation_version)
        /\ P.trust_scope = BoundedText(Default(d.trust_scope, Text("local")))
    BY DEF ActionParts, PartsOfAction
  <2>2. /\ IsJson(d.operation_identity) /\ IsJson(d.operation_version)
        /\ IsJson(Default(d.trust_scope, Text("local")))
    BY ActionValues, Defaults DEF ActionDocument, ActionFields, RequiredOfActions, AreJson
  <2> HIDE DEF P
  <2> QED
    BY <1>4, <2>1, <2>2, TextsAgain
<1>7. /\ CheckDigestField(P.input_digest) = P.input_digest
      /\ IsJson(P.input_digest) /\ P.input_digest # Missing
      /\ OptionalDigest(P.authorization_scope_digest) = P.authorization_scope_digest
      /\ IsJson(P.authorization_scope_digest) /\ P.authorization_scope_digest # Missing
      /\ Boolean(P.dependency_completeness) = P.dependency_completeness
      /\ IsJson(P.dependency_completeness) /\ P.dependency_completeness # Missing
      /\ Only(SideEffects, P.side_effect_class) = P.side_effect_class
      /\ IsJson(P.side_effect_class) /\ P.side_effect_class # Missing
  <2>1. /\ P.input_digest = CheckDigestField(d.input_digest)
        /\ P.authorization_scope_digest = OptionalDigest(d.authorization_scope_digest)
        /\ P.dependency_completeness = Boolean(d.dependency_completeness)
        /\ P.side_effect_class =
             Only(SideEffects, Default(d.side_effect_class, Text("UNKNOWN")))
    BY DEF ActionParts, PartsOfAction
  <2> HIDE DEF P
  <2> QED
    BY <1>4, <2>1, FieldsAgain
<1>8. /\ StringMapping(P.environment) = P.environment
      /\ IsJson(P.environment) /\ P.environment # Missing
      /\ StringMapping(P.freshness) = P.freshness
      /\ IsJson(P.freshness) /\ P.freshness # Missing
  <2>1. /\ P.environment = StringMapping(Default(d.environment, Map({})))
        /\ P.freshness = StringMapping(Default(d.freshness, Map({})))
    BY DEF ActionParts, PartsOfAction
  <2>2. IsJson(Default(d.environment, Map({}))) /\ IsJson(Default(d.freshness, Map({})))
    BY ActionValues, Defaults
  <2> HIDE DEF P
  <2> QED
    BY <1>4, <2>1, <2>2, MapsAgain
<1>9. /\ Dependencies(WrittenDependencies(P.dependencies)) = P.dependencies
      /\ IsJson(WrittenDependencies(P.dependencies))
      /\ WrittenDependencies(P.dependencies) # Missing
  <2>1. P.dependencies = Dependencies(Default(d.dependencies, Array(<<>>)))
    BY DEF ActionParts, PartsOfAction
  <2>2. IsJson(Default(d.dependencies, Array(<<>>)))
    BY ActionValues, Defaults
  <2> HIDE DEF P
  <2> QED
    BY <1>4, <2>1, <2>2, DependenciesAgain
<1>10. /\ OptionalText(P.validator_identity) = P.validator_identity
       /\ IsJson(P.validator_identity) /\ P.validator_identity # Missing
       /\ P.validator_identity = Text("") <=> d.validator_identity = Text("")
  <2>1. P.validator_identity = OptionalText(d.validator_identity)
    BY DEF ActionParts, PartsOfAction
  <2> HIDE DEF P
  <2> QED
    BY <1>4, <2>1, ActionValues, TextsAgain, EmptyTexts
<1> HIDE DEF P, w
<1>11. /\ w.schema_version = P.schema_version
       /\ w.operation_identity = P.operation_identity
       /\ w.operation_version = P.operation_version /\ w.input_digest = P.input_digest
       /\ w.trust_scope = P.trust_scope /\ w.environment = P.environment
       /\ w.side_effect_class = P.side_effect_class
       /\ w.authorization_scope_digest = P.authorization_scope_digest
       /\ w.freshness = P.freshness
       /\ w.dependency_completeness = P.dependency_completeness
       /\ w.validator_identity = P.validator_identity
  BY <1>3
<1>12. ActionDocument(w)
  <2>1. IsJson(Missing)
    BY Tags DEF IsJson
  <2>2. \A f \in ActionFields : IsJson(w[f])
    BY <1>3, <1>5, <1>6, <1>7, <1>8, <1>9, <1>10, <1>11, <2>1
       DEF ActionFields, RequiredOfActions
  <2> QED
    BY <1>3, <2>2 DEF ActionDocument, AreJson
<1>13. HasFields(w, RequiredOfActions)
  BY <1>3, <1>5, <1>6, <1>7, <1>11 DEF HasFields, RequiredOfActions
<1>14. ActionParts(w) = P
  <2> DEFINE Q == ActionParts(w)
  <2>1. /\ Q.schema_version = P.schema_version
        /\ Q.operation_identity = P.operation_identity
        /\ Q.operation_version = P.operation_version /\ Q.input_digest = P.input_digest
    BY <1>5, <1>6, <1>7, <1>11 DEF ActionParts, PartsOfAction
  <2>2. /\ Q.trust_scope = P.trust_scope /\ Q.environment = P.environment
        /\ Q.dependencies = P.dependencies /\ Q.side_effect_class = P.side_effect_class
    BY <1>3, <1>6, <1>7, <1>8, <1>9, <1>11 DEF ActionParts, PartsOfAction, Default
  <2>3. /\ Q.authorization_scope_digest = P.authorization_scope_digest
        /\ Q.freshness = P.freshness
        /\ Q.dependency_completeness = P.dependency_completeness
        /\ Q.validator_identity = P.validator_identity
    BY <1>7, <1>8, <1>10, <1>11 DEF ActionParts, PartsOfAction, Default
  <2>4. /\ DOMAIN Q = names /\ Q = [f \in names |-> Q[f]]
        /\ P = [f \in names |-> P[f]]
    BY DEF ActionParts, PartsOfAction, P
  <2> HIDE DEF Q
  <2>5. \A f \in names : Q[f] = P[f]
    BY <2>1, <2>2, <2>3
  <2> HIDE DEF names
  <2>6. Q = P
    BY <2>4, <2>5
  <2> QED
    BY <2>6 DEF Q
<1>15. Action(w) = Action(d)
  BY <1>1, <1>13, <1>14, ActionIs
<1> QED
  BY <1>10, <1>11, <1>12, <1>15 DEF w

\* A written receipt is read as the receipt it was written from, and has an empty
\* text if the document that was read had one.
LEMMA ReceiptAgain ==
    ASSUME NEW d, ReceiptDocument(d), Receipt(d) # Rejected
    PROVE  LET w == ReceiptAsDict(Receipt(d))
           IN  /\ ReceiptDocument(w) /\ Receipt(w) = Receipt(d)
               /\ CarriesEmptyText(w) <=> CarriesEmptyText(d)
<1> DEFINE P == ContentParts(d)
           w == ReceiptAsDict(Content(d))
           names == {"schema_version", "action", "action_digest", "result_digest",
                     "result_reference", "media_type", "producer_identity", "reuse_class",
                     "created_at", "dependency_snapshot", "provenance", "trust_scope",
                     "cache_scope", "revocation_ref", "validator_identity",
                     "execution_metadata", "economics"}
<1>1. /\ Receipt(d) = Content(d) /\ Content(d) # Rejected
      /\ Content(d) = Object(P) /\ Collected(P) = Object(P)
      /\ ActionOf(d) # Rejected /\ \A f \in DOMAIN P : P[f] # Rejected
  <2> HIDE DEF P
  <2> QED
    BY ContentIs DEF Receipt, Collected, P
<1>2. DOMAIN P = names
  BY DEF ContentParts, PartsOfContent
<1>3. /\ DOMAIN w = ReceiptFields
      /\ w.action = Object(ActionAsDict(P.action))
      /\ w.dependency_snapshot = WrittenDependencies(P.dependency_snapshot)
      /\ w.receipt_digest = Sha256(Content(d)) /\ w.extra = Missing
      /\ \A f \in names \ {"action", "dependency_snapshot"} : w[f] = P[f]
  <2> HIDE DEF P
  <2>1. Written(Content(d)) =
          [f \in names \cup {"extra"} |-> IF f = "extra" THEN Missing ELSE P[f]]
    BY <1>1, <1>2, Tags DEF Written
  <2>2. w = [f \in DOMAIN Written(Content(d)) \cup {"receipt_digest"} |->
               IF f = "action" THEN Object(ActionAsDict(Content(d)[2][f]))
               ELSE IF f = "dependency_snapshot"
               THEN WrittenDependencies(Content(d)[2][f])
               ELSE IF f = "receipt_digest" THEN Sha256(Content(d))
               ELSE Written(Content(d))[f]]
    BY Zenon DEF ReceiptAsDict, ReceiptDigest
  <2>3. Content(d)[2] = P
    BY <1>1, Tags
  <2>4. w = [f \in names \cup {"extra", "receipt_digest"} |->
               IF f = "action" THEN Object(ActionAsDict(P[f]))
               ELSE IF f = "dependency_snapshot" THEN WrittenDependencies(P[f])
               ELSE IF f = "receipt_digest" THEN Sha256(Content(d))
               ELSE IF f = "extra" THEN Missing ELSE P[f]]
    <3> HIDE DEF w
    <3> QED
      BY <2>1, <2>2, <2>3
  <2>5. names \cup {"extra", "receipt_digest"} = ReceiptFields
    BY DEF ReceiptFields, RequiredOfReceipts
  <2> HIDE DEF w
  <2> QED
    BY <2>4, <2>5
<1>4. /\ P.schema_version # Rejected /\ P.result_digest # Rejected
      /\ P.result_reference # Rejected /\ P.media_type # Rejected
      /\ P.producer_identity # Rejected /\ P.reuse_class # Rejected
      /\ P.created_at # Rejected /\ P.dependency_snapshot # Rejected
      /\ P.provenance # Rejected /\ P.trust_scope # Rejected /\ P.cache_scope # Rejected
      /\ P.revocation_ref # Rejected /\ P.validator_identity # Rejected
      /\ P.execution_metadata # Rejected /\ P.economics # Rejected
  <2> HIDE DEF P
  <2> QED
    BY <1>1, <1>2
<1>5. /\ Only({ReceiptSchema}, BoundedText(P.schema_version)) = P.schema_version
      /\ IsJson(P.schema_version) /\ P.schema_version # Missing
  <2> DEFINE t == BoundedText(d.schema_version)
  <2>1. P.schema_version = Only({ReceiptSchema}, t)
    BY DEF ContentParts, PartsOfContent
  <2>2. Only({ReceiptSchema}, t) = t /\ t # Rejected
    BY <1>4, <2>1 DEF Only
  <2>3. BoundedText(t) = t
    BY <2>2, TextsAgain
  <2> HIDE DEF t, P
  <2> QED
    BY <1>4, <2>1, <2>2, <2>3, FieldsAgain
<1>6. /\ BoundedText(P.media_type) = P.media_type
      /\ IsJson(P.media_type) /\ P.media_type # Missing
      /\ BoundedText(P.producer_identity) = P.producer_identity
      /\ IsJson(P.producer_identity) /\ P.producer_identity # Missing
      /\ BoundedText(P.trust_scope) = P.trust_scope
      /\ IsJson(P.trust_scope) /\ P.trust_scope # Missing
      /\ BoundedText(P.cache_scope) = P.cache_scope
      /\ IsJson(P.cache_scope) /\ P.cache_scope # Missing
  <2>1. /\ P.media_type = BoundedText(d.media_type)
        /\ P.producer_identity = BoundedText(d.producer_identity)
        /\ P.trust_scope = BoundedText(d.trust_scope)
        /\ P.cache_scope = BoundedText(d.cache_scope)
    BY DEF ContentParts, PartsOfContent
  <2>2. /\ IsJson(d.media_type) /\ IsJson(d.producer_identity)
        /\ IsJson(d.trust_scope) /\ IsJson(d.cache_scope)
    BY DEF ReceiptDocument, ReceiptFields, RequiredOfReceipts, AreJson
  <2> HIDE DEF P
  <2> QED
    BY <1>4, <2>1, <2>2, TextsAgain
<1>7. /\ CheckDigestField(P.result_digest) = P.result_digest
      /\ IsJson(P.result_digest) /\ P.result_digest # Missing
      /\ Only(ReuseClasses, P.reuse_class) = P.reuse_class
      /\ IsJson(P.reuse_class) /\ P.reuse_class # Missing
      /\ CanonicalTimestamp(P.created_at) = P.created_at
      /\ IsJson(P.created_at) /\ P.created_at # Missing
  <2>1. /\ P.result_digest = CheckDigestField(d.result_digest)
        /\ P.reuse_class = Only(ReuseClasses, d.reuse_class)
        /\ P.created_at = CanonicalTimestamp(d.created_at)
    BY DEF ContentParts, PartsOfContent
  <2> HIDE DEF P
  <2> QED
    BY <1>4, <2>1, FieldsAgain
<1>8. /\ StringMapping(P.provenance) = P.provenance
      /\ IsJson(P.provenance) /\ P.provenance # Missing
      /\ StringMapping(P.execution_metadata) = P.execution_metadata
      /\ IsJson(P.execution_metadata) /\ P.execution_metadata # Missing
      /\ StringMapping(P.economics) = P.economics
      /\ IsJson(P.economics) /\ P.economics # Missing
  <2>1. /\ P.provenance = StringMapping(Default(d.provenance, Map({})))
        /\ P.execution_metadata = StringMapping(Default(d.execution_metadata, Map({})))
        /\ P.economics = StringMapping(Default(d.economics, Map({})))
    BY DEF ContentParts, PartsOfContent
  <2>2. /\ IsJson(Default(d.provenance, Map({})))
        /\ IsJson(Default(d.execution_metadata, Map({})))
        /\ IsJson(Default(d.economics, Map({})))
    BY ReceiptValues, Defaults
  <2> HIDE DEF P
  <2> QED
    BY <1>4, <2>1, <2>2, MapsAgain
<1>9. /\ Dependencies(WrittenDependencies(P.dependency_snapshot)) = P.dependency_snapshot
      /\ IsJson(WrittenDependencies(P.dependency_snapshot))
      /\ WrittenDependencies(P.dependency_snapshot) # Missing
  <2>1. P.dependency_snapshot = Dependencies(d.dependency_snapshot)
    BY DEF ContentParts, PartsOfContent
  <2> HIDE DEF P
  <2> QED
    BY <1>4, <2>1, ReceiptValues, DependenciesAgain
<1>10. /\ OptionalText(P.result_reference) = P.result_reference
       /\ IsJson(P.result_reference) /\ P.result_reference # Missing
       /\ P.result_reference = Text("") <=> d.result_reference = Text("")
       /\ OptionalText(P.revocation_ref) = P.revocation_ref
       /\ IsJson(P.revocation_ref) /\ P.revocation_ref # Missing
       /\ P.revocation_ref = Text("") <=> d.revocation_ref = Text("")
       /\ OptionalText(P.validator_identity) = P.validator_identity
       /\ IsJson(P.validator_identity) /\ P.validator_identity # Missing
       /\ P.validator_identity = Text("") <=> d.validator_identity = Text("")
  <2>1. /\ P.result_reference = OptionalText(d.result_reference)
        /\ P.revocation_ref = OptionalText(d.revocation_ref)
        /\ P.validator_identity = OptionalText(d.validator_identity)
    BY DEF ContentParts, PartsOfContent
  <2> HIDE DEF P
  <2> QED
    BY <1>4, <2>1, ReceiptValues, TextsAgain, EmptyTexts
<1>11. /\ P.action = ActionOf(d) /\ P.action_digest = Sha256(ActionOf(d))
       /\ d.action[1] = "object" /\ Action(d.action[2]) = ActionOf(d)
       /\ ActionDocument(d.action[2])
  BY <1>1 DEF ContentParts, PartsOfContent, ActionOf, ReceiptDocument
<1> HIDE DEF P, w
<1>12. /\ w.action[1] = "object" /\ w.action[2] = ActionAsDict(ActionOf(d))
       /\ ActionDocument(w.action[2]) /\ ActionOf(w) = ActionOf(d)
       /\ w.action[2].validator_identity = Text("")
            <=> d.action[2].validator_identity = Text("")
  <2>1. w.action[1] = "object" /\ w.action[2] = ActionAsDict(ActionOf(d))
    BY <1>3, <1>11, Tags
  <2> QED
    BY <1>1, <1>11, <2>1, ActionAgain DEF ActionOf
<1>13. /\ w.schema_version = P.schema_version /\ w.action_digest = P.action_digest
       /\ w.result_digest = P.result_digest /\ w.result_reference = P.result_reference
       /\ w.media_type = P.media_type /\ w.producer_identity = P.producer_identity
       /\ w.reuse_class = P.reuse_class /\ w.created_at = P.created_at
       /\ w.provenance = P.provenance /\ w.trust_scope = P.trust_scope
       /\ w.cache_scope = P.cache_scope /\ w.revocation_ref = P.revocation_ref
       /\ w.validator_identity = P.validator_identity
       /\ w.execution_metadata = P.execution_metadata /\ w.economics = P.economics
  BY <1>3
<1>14. /\ IsJson(w.action) /\ w.action # Missing
       /\ IsJson(w.action_digest) /\ w.action_digest # Missing
       /\ IsJson(w.receipt_digest) /\ IsJson(w.extra)
  BY <1>3, <1>11, <1>13, Tags DEF IsJson
<1>15. ReceiptDocument(w)
  <2>1. \A f \in ReceiptFields : IsJson(w[f])
    BY <1>3, <1>5, <1>6, <1>7, <1>8, <1>9, <1>10, <1>13, <1>14
       DEF ReceiptFields, RequiredOfReceipts
  <2> QED
    BY <1>3, <1>12, <2>1 DEF ReceiptDocument, AreJson
<1>16. HasFields(w, RequiredOfReceipts)
  BY <1>3, <1>5, <1>6, <1>7, <1>9, <1>13, <1>14 DEF HasFields, RequiredOfReceipts
<1>17. ContentParts(w) = P
  <2> DEFINE Q == ContentParts(w)
  <2>1. /\ Q.schema_version = P.schema_version /\ Q.action = P.action
        /\ Q.action_digest = P.action_digest /\ Q.result_digest = P.result_digest
        /\ Q.result_reference = P.result_reference /\ Q.media_type = P.media_type
    BY <1>5, <1>6, <1>7, <1>10, <1>11, <1>12, <1>13 DEF ContentParts, PartsOfContent
  <2>2. /\ Q.producer_identity = P.producer_identity /\ Q.reuse_class = P.reuse_class
        /\ Q.created_at = P.created_at /\ Q.dependency_snapshot = P.dependency_snapshot
        /\ Q.trust_scope = P.trust_scope /\ Q.cache_scope = P.cache_scope
    BY <1>3, <1>6, <1>7, <1>9, <1>13 DEF ContentParts, PartsOfContent
  <2>3. /\ Q.provenance = P.provenance /\ Q.revocation_ref = P.revocation_ref
        /\ Q.validator_identity = P.validator_identity
        /\ Q.execution_metadata = P.execution_metadata /\ Q.economics = P.economics
    BY <1>8, <1>10, <1>13 DEF ContentParts, PartsOfContent, Default
  <2>4. /\ DOMAIN Q = names /\ Q = [f \in names |-> Q[f]]
        /\ P = [f \in names |-> P[f]]
    BY DEF ContentParts, PartsOfContent, P
  <2> HIDE DEF Q
  <2>5. \A f \in names : Q[f] = P[f]
    BY <2>1, <2>2, <2>3
  <2> HIDE DEF names
  <2>6. Q = P
    BY <2>4, <2>5
  <2> QED
    BY <2>6 DEF Q
<1>18. Content(w) = Content(d)
  BY <1>1, <1>11, <1>12, <1>13, <1>16, <1>17, ContentIs
<1>19. Receipt(w) = Receipt(d)
  BY <1>1, <1>3, <1>18 DEF Receipt, ReceiptDigest
<1>20. CarriesEmptyText(w) <=> CarriesEmptyText(d)
  BY <1>10, <1>11, <1>12, <1>13 DEF CarriesEmptyText
<1> QED
  BY <1>1, <1>15, <1>19, <1>20 DEF w

-----------------------------------------------------------------------------
(* The parsers over a document *)

\* The document is one of those, what was read is what the parsers make of it, and
\* what was read again is what they make of Python's writing.
DocumentsInvariant ==
    /\ doc \in Documents
    /\ parsed \in {Unread, Parse(doc)}
    /\ \/ reread = Unread
       \/ /\ parsed = Parse(doc) /\ parsed["python"] # Rejected
          /\ reread = Parse(ReceiptAsDict(parsed["python"]))

\* The document never changes, and each reading is the parsers' one.
LEMMA DocumentsAreRead == DocumentSpec => []DocumentsInvariant
<1>1. DocumentInit => DocumentsInvariant
  BY DEF DocumentInit, DocumentsInvariant
<1>2. DocumentsInvariant /\ [DocumentNext]_documentVars => DocumentsInvariant'
  <2> SUFFICES ASSUME DocumentsInvariant, [DocumentNext]_documentVars
               PROVE  DocumentsInvariant'
    OBVIOUS
  <2> USE DEF DocumentsInvariant
  <2>1. CASE Read
    BY <2>1 DEF Read
  <2>2. CASE Reissue
    BY <2>2 DEF Reissue
  <2>3. CASE UNCHANGED documentVars
    BY <2>3 DEF documentVars
  <2> QED
    BY <2>1, <2>2, <2>3 DEF DocumentNext
<1> QED
  BY <1>1, <1>2, PTL DEF DocumentSpec

\* What a reading holds, parser by parser.
LEMMA Readings ==
    ASSUME NEW d, ReceiptDocument(d)
    PROVE  \A parser \in Parsers : Parse(d)[parser] =
             IF RefusedBy(parser, d) THEN Rejected ELSE NormalReceipt(d)
<1>1. /\ Parse(d)["python"] = Receipt(d)
      /\ Parse(d)["go"] = InGo!ParseReceipt(d)
      /\ Parse(d)["typescript"] = InTypeScript!ParseReceipt(d)
      /\ Parse(d)["dotnet"] = InDotNet!ParseReceipt(d)
  BY Zenon DEF Parse, Parsers
<1> QED
  BY <1>1, ReceiptReaders, PythonReceipt DEF Parsers, RefusedBy

\* The documents are receipts' documents.
LEMMA Given ==
    ASSUME NEW d \in Documents
    PROVE  ReceiptDocument(d)
BY DocumentsAreJson DEF ReceiptDocument, ActionDocument

\* The four parsers read the same receipt out of every document, but that TypeScript
\* refuses those with an empty optional text, and Python those whose side effect class
\* is one in normal form only (protocol.py:258, 387, verifier.go:648, verifier.ts:386,
\* Oncefold.cs:525).
THEOREM ReadersOfDocumentsAgree == DocumentSpec => []ParsersAgree
<1>1. DocumentsInvariant => ParsersAgree
  <2> SUFFICES ASSUME DocumentsInvariant, parsed # Unread
               PROVE  \A parser \in Parsers : parsed[parser] =
                        IF RefusedBy(parser, doc) THEN Rejected ELSE parsed["go"]
    BY DEF ParsersAgree
  <2>1. parsed = Parse(doc) /\ ReceiptDocument(doc)
    BY Given DEF DocumentsInvariant
  <2>2. "go" \in Parsers /\ ~RefusedBy("go", doc)
    BY DEF Parsers, RefusedBy
  <2> QED
    BY <2>1, <2>2, Readings
<1> QED
  BY <1>1, DocumentsAreRead, PTL

\* No document that carries the base receipt's digest is read as another receipt
\* (protocol.py:447, the comparison of the receipt digest).
THEOREM AlteredDocumentsAreRefused == DocumentSpec => []AlterationIsDetected
<1>1. DocumentsInvariant => AlterationIsDetected
  <2> SUFFICES ASSUME DocumentsInvariant, parsed # Unread,
                      doc.receipt_digest = BaseDocument.receipt_digest,
                      NEW parser \in Parsers
               PROVE  parsed[parser] \in {BaseContent, Rejected}
    BY DEF AlterationIsDetected
  <2>1. parsed = Parse(doc) /\ ReceiptDocument(doc)
    BY Given DEF DocumentsInvariant
  <2>2. parsed[parser] \in {NormalReceipt(doc), Rejected}
    BY <2>1, Readings
  <2>3. BaseDocument.receipt_digest = Sha256(BaseContent)
    <3> DEFINE F == DOMAIN Written(BaseContent) \cup {"receipt_digest"}
    <3>1. "receipt_digest" \in F
      OBVIOUS
    <3> QED
      BY <3>1, Zenon DEF BaseDocument, ReceiptAsDict, ReceiptDigest
  <2>4. NormalReceipt(doc) = Rejected \/ Sha256(NormalReceipt(doc)) = Sha256(BaseContent)
    BY <2>3 DEF NormalReceipt
  <2>5. NormalReceipt(doc) = Rejected \/ NormalReceipt(doc) = BaseContent
    BY <2>4, Tags
  <2> QED
    BY <2>2, <2>5
<1> QED
  BY <1>1, DocumentsAreRead, PTL

\* What Python writes of a receipt it accepted, every parser reads as that receipt,
\* but for TypeScript's empty texts (as_dict, protocol.py:201, 353).
THEOREM ReissuedReceiptsAreKept == DocumentSpec => []ReissueKeepsReceipt
<1>1. DocumentsInvariant => ReissueKeepsReceipt
  <2> SUFFICES ASSUME DocumentsInvariant, reread # Unread
               PROVE  \A parser \in Parsers : reread[parser] =
                        IF parser = "typescript" /\ CarriesEmptyText(doc) THEN Rejected
                        ELSE parsed["python"]
    BY DEF ReissueKeepsReceipt
  <2>1. /\ ReceiptDocument(doc) /\ parsed = Parse(doc) /\ parsed["python"] # Rejected
        /\ reread = Parse(ReceiptAsDict(parsed["python"]))
    BY Given DEF DocumentsInvariant
  <2>2. parsed["python"] = Receipt(doc)
    BY <2>1, Zenon DEF Parse, Parsers
  <2> DEFINE w == ReceiptAsDict(Receipt(doc))
  <2>3. /\ ReceiptDocument(w) /\ Receipt(w) = Receipt(doc)
        /\ CarriesEmptyText(w) <=> CarriesEmptyText(doc)
    BY <2>1, <2>2, ReceiptAgain
  <2>4. reread = Parse(w)
    BY <2>1, <2>2
  <2> HIDE DEF w
  <2>5. ~CarriesRespelledClass(w) /\ Receipt(w) = NormalReceipt(w)
    BY <2>1, <2>2, <2>3, PythonReceipt
  <2>6. \A parser \in Parsers : RefusedBy(parser, w)
          <=> parser = "typescript" /\ CarriesEmptyText(doc)
    BY <2>3, <2>5 DEF RefusedBy
  <2> QED
    BY <2>2, <2>3, <2>4, <2>5, <2>6, Readings
<1> QED
  BY <1>1, DocumentsAreRead, PTL

-----------------------------------------------------------------------------
(* Recursion over the levels of a JSON value *)

\* A set of naturals that has 0 and with every number the next has them all: the
\* induction that the proofs about recursive functions go by.
LEMMA Induction ==
    ASSUME NEW S, 0 \in S, \A n \in Nat : n \in S => n + 1 \in S
    PROVE  \A n \in Nat : n \in S
<1> DEFINE R == OpToRel(<, Nat)
           T == {n \in Nat : n \notin S}
<1>1. \A m, n \in Nat : <<m, n>> \in R <=> m < n
  BY DEF OpToRel
<1>2. IsWellFoundedOn(R, Nat)
  BY NatLessThanWellFounded, Zenon
<1> HIDE DEF R
<1> SUFFICES ASSUME T # {}
             PROVE  FALSE
  OBVIOUS
<1>3. T \subseteq Nat
  OBVIOUS
<1> HIDE DEF T
<1>4. PICK n \in T : \A m \in T : ~(<<m, n>> \in R)
  BY <1>2, <1>3, WFMin
<1>5. n \in Nat /\ n # 0 /\ n - 1 \in Nat /\ n - 1 < n /\ (n - 1) + 1 = n
  BY DEF T
<1>6. n - 1 \in S
  BY <1>1, <1>4, <1>5 DEF T
<1> QED
  BY <1>5, <1>6 DEF T

JsonUpToBody(f, n) == IF n = 0 THEN {} ELSE Over(f[n - 1])

\* The recursion of JsonUpTo defines a function.
LEMMA JsonUpToExists == JsonUpTo = [n \in Nat |-> JsonUpToBody(JsonUpTo, n)]
<1> DEFINE Upto(g, n) == \A i \in 0..n : g[i] = JsonUpToBody(g, i)
<1>1. \A g, h, n : n = 0 \/ g[n - 1] = h[n - 1] => JsonUpToBody(g, n) = JsonUpToBody(h, n)
  BY DEF JsonUpToBody
<1>2. \A n \in Nat : \E g : Upto(g, n)
  <2> DEFINE S == {n \in Nat : \E g : Upto(g, n)}
  <2>1. 0 \in S
    <3> DEFINE g == [i \in {0} |-> JsonUpToBody(<<>>, 0)]
    <3>1. g[0] = JsonUpToBody(g, 0)
      BY <1>1
    <3> HIDE DEF g
    <3> QED
      BY <3>1
  <2>2. ASSUME NEW n \in Nat, n \in S
        PROVE  n + 1 \in S
    <3>1. PICK g : Upto(g, n)
      BY <2>2
    <3> DEFINE h == [i \in 0..(n + 1) |-> IF i = n + 1 THEN JsonUpToBody(g, n + 1) ELSE g[i]]
    <3>2. ASSUME NEW i \in 0..(n + 1)
          PROVE  h[i] = JsonUpToBody(h, i)
      <4>1. h[i] = JsonUpToBody(g, i)
        BY <3>1
      <4>2. i = 0 \/ g[i - 1] = h[i - 1]
        OBVIOUS
      <4> HIDE DEF h
      <4> QED
        BY <1>1, <4>1, <4>2
    <3> HIDE DEF h
    <3> QED
      BY <3>2
  <2> HIDE DEF S
  <2>3. \A n \in Nat : n \in S
    BY <2>1, <2>2, Induction
  <2> QED
    BY <2>3 DEF S
<1>3. \A n \in Nat : \A g, h : Upto(g, n) /\ Upto(h, n) => g[n] = h[n]
  <2> DEFINE S == {n \in Nat : \A g, h : Upto(g, n) /\ Upto(h, n) => g[n] = h[n]}
  <2>1. 0 \in S
    BY <1>1
  <2>2. ASSUME NEW n \in Nat, n \in S
        PROVE  n + 1 \in S
    <3> SUFFICES ASSUME NEW g, NEW h, Upto(g, n + 1), Upto(h, n + 1)
                 PROVE  g[n + 1] = h[n + 1]
      OBVIOUS
    <3>1. g[n] = h[n]
      BY <2>2
    <3>2. (n + 1) - 1 = n /\ n + 1 \in 0..(n + 1)
      OBVIOUS
    <3>3. g[n + 1] = JsonUpToBody(g, n + 1) /\ h[n + 1] = JsonUpToBody(h, n + 1)
      BY <3>2
    <3> QED
      BY <1>1, <3>1, <3>2, <3>3
  <2> HIDE DEF S
  <2>3. \A n \in Nat : n \in S
    BY <2>1, <2>2, Induction
  <2> QED
    BY <2>3 DEF S
<1> DEFINE F == [n \in Nat |-> (CHOOSE g : Upto(g, n))[n]]
<1>4. ASSUME NEW n \in Nat
      PROVE  F[n] = JsonUpToBody(F, n)
  <2> DEFINE g == CHOOSE h : Upto(h, n)
  <2>1. Upto(g, n)
    BY <1>2
  <2>2. F[n] = g[n]
    OBVIOUS
  <2>3. ASSUME n # 0
        PROVE  F[n - 1] = g[n - 1]
    <3>1. n - 1 \in Nat /\ Upto(g, n - 1)
      BY <2>1, <2>3
    <3> DEFINE h == CHOOSE k : Upto(k, n - 1)
    <3>2. Upto(h, n - 1) /\ F[n - 1] = h[n - 1]
      BY <1>2, <3>1
    <3> HIDE DEF h, g
    <3> QED
      BY <1>3, <3>1, <3>2
  <2> HIDE DEF g, F
  <2> QED
    BY <1>1, <2>1, <2>2, <2>3
<1>5. F = [n \in Nat |-> JsonUpToBody(F, n)]
  BY <1>4
<1> HIDE DEF F
<1> QED
  BY <1>5, Zenon DEF JsonUpTo, JsonUpToBody

\* Values of no level there are none; those of one level more are made of the others.
LEMMA Levels ==
    /\ JsonUpTo[0] = {}
    /\ \A n \in Nat : JsonUpTo[n + 1] = Over(JsonUpTo[n])
<1>1. \A n \in Nat : JsonUpTo[n] = JsonUpToBody(JsonUpTo, n)
  BY JsonUpToExists
<1> QED
  BY <1>1 DEF JsonUpToBody

NormalizeBody(f, n) ==
    [c \in Canonicalizers |-> [depth \in Nat |-> [v \in JsonUpTo[n] |->
        IF ~WithinBounds(c, v, depth) THEN Rejected
        ELSE NormalValue(c, v, f[n - 1][c][depth + 1])]]]

\* The recursion of Normalize defines a function: at level 0 there are no values.
LEMMA NormalizeExists == Normalize = [n \in Nat |-> NormalizeBody(Normalize, n)]
<1> DEFINE Upto(g, n) == \A i \in 0..n : g[i] = NormalizeBody(g, i)
<1>1. \A g, h, n : n = 0 \/ g[n - 1] = h[n - 1] => NormalizeBody(g, n) = NormalizeBody(h, n)
  <2>1. \A g, h : NormalizeBody(g, 0) = NormalizeBody(h, 0)
    <3> SUFFICES ASSUME NEW g, NEW h
                 PROVE  NormalizeBody(g, 0) = NormalizeBody(h, 0)
      OBVIOUS
    <3>1. \A c, depth : [v \in JsonUpTo[0] |->
                            IF ~WithinBounds(c, v, depth) THEN Rejected
                            ELSE NormalValue(c, v, g[0 - 1][c][depth + 1])]
                       = [v \in JsonUpTo[0] |->
                            IF ~WithinBounds(c, v, depth) THEN Rejected
                            ELSE NormalValue(c, v, h[0 - 1][c][depth + 1])]
      BY Levels
    <3> QED
      BY <3>1 DEF NormalizeBody
  <2>2. \A g, h, n : g[n - 1] = h[n - 1] => NormalizeBody(g, n) = NormalizeBody(h, n)
    BY Zenon DEF NormalizeBody
  <2> QED
    BY <2>1, <2>2
<1>2. \A n \in Nat : \E g : Upto(g, n)
  <2> DEFINE S == {n \in Nat : \E g : Upto(g, n)}
  <2>1. 0 \in S
    <3> DEFINE g == [i \in {0} |-> NormalizeBody(<<>>, 0)]
    <3>1. g[0] = NormalizeBody(g, 0)
      BY <1>1
    <3> HIDE DEF g
    <3> QED
      BY <3>1
  <2>2. ASSUME NEW n \in Nat, n \in S
        PROVE  n + 1 \in S
    <3>1. PICK g : Upto(g, n)
      BY <2>2
    <3> DEFINE h == [i \in 0..(n + 1) |-> IF i = n + 1 THEN NormalizeBody(g, n + 1) ELSE g[i]]
    <3>2. ASSUME NEW i \in 0..(n + 1)
          PROVE  h[i] = NormalizeBody(h, i)
      <4>1. h[i] = NormalizeBody(g, i)
        BY <3>1
      <4>2. i = 0 \/ g[i - 1] = h[i - 1]
        OBVIOUS
      <4> HIDE DEF h
      <4> QED
        BY <1>1, <4>1, <4>2
    <3> HIDE DEF h
    <3> QED
      BY <3>2
  <2> HIDE DEF S
  <2>3. \A n \in Nat : n \in S
    BY <2>1, <2>2, Induction
  <2> QED
    BY <2>3 DEF S
<1>3. \A n \in Nat : \A g, h : Upto(g, n) /\ Upto(h, n) => g[n] = h[n]
  <2> DEFINE S == {n \in Nat : \A g, h : Upto(g, n) /\ Upto(h, n) => g[n] = h[n]}
  <2>1. 0 \in S
    BY <1>1
  <2>2. ASSUME NEW n \in Nat, n \in S
        PROVE  n + 1 \in S
    <3> SUFFICES ASSUME NEW g, NEW h, Upto(g, n + 1), Upto(h, n + 1)
                 PROVE  g[n + 1] = h[n + 1]
      OBVIOUS
    <3>1. g[n] = h[n]
      BY <2>2
    <3>2. (n + 1) - 1 = n /\ n + 1 \in 0..(n + 1)
      OBVIOUS
    <3>3. g[n + 1] = NormalizeBody(g, n + 1) /\ h[n + 1] = NormalizeBody(h, n + 1)
      BY <3>2
    <3> QED
      BY <1>1, <3>1, <3>2, <3>3
  <2> HIDE DEF S
  <2>3. \A n \in Nat : n \in S
    BY <2>1, <2>2, Induction
  <2> QED
    BY <2>3 DEF S
<1> DEFINE F == [n \in Nat |-> (CHOOSE g : Upto(g, n))[n]]
<1>4. ASSUME NEW n \in Nat
      PROVE  F[n] = NormalizeBody(F, n)
  <2> DEFINE g == CHOOSE h : Upto(h, n)
  <2>1. Upto(g, n)
    BY <1>2
  <2>2. F[n] = g[n]
    OBVIOUS
  <2>3. ASSUME n # 0
        PROVE  F[n - 1] = g[n - 1]
    <3>1. n - 1 \in Nat /\ Upto(g, n - 1)
      BY <2>1, <2>3
    <3> DEFINE h == CHOOSE k : Upto(k, n - 1)
    <3>2. Upto(h, n - 1) /\ F[n - 1] = h[n - 1]
      BY <1>2, <3>1
    <3> HIDE DEF h, g
    <3> QED
      BY <1>3, <3>1, <3>2
  <2> HIDE DEF g, F
  <2> QED
    BY <1>1, <2>1, <2>2, <2>3
<1>5. F = [n \in Nat |-> NormalizeBody(F, n)]
  BY <1>4
<1> HIDE DEF F
<1> QED
  BY <1>5, Zenon DEF Normalize, NormalizeBody

\* The normal form of a value, from those of its items.
LEMMA NormalFormIs ==
    ASSUME NEW n \in Nat, NEW c \in Canonicalizers, NEW depth \in Nat,
           NEW v \in JsonUpTo[n + 1]
    PROVE  Normalize[n + 1][c][depth][v] =
             IF WithinBounds(c, v, depth) THEN NormalValue(c, v, Normalize[n][c][depth + 1])
             ELSE Rejected
<1>1. Normalize[n + 1] = NormalizeBody(Normalize, n + 1)
  BY NormalizeExists
<1>2. (n + 1) - 1 = n
  OBVIOUS
<1> QED
  BY <1>1, <1>2 DEF NormalizeBody

RespelledBody(f, n) == [v \in JsonUpTo[n] |-> OtherValue(v, f[n - 1])]

\* The recursion of Respelled defines a function.
LEMMA RespelledExists == Respelled = [n \in Nat |-> RespelledBody(Respelled, n)]
<1> DEFINE Upto(g, n) == \A i \in 0..n : g[i] = RespelledBody(g, i)
<1>1. \A g, h, n : n = 0 \/ g[n - 1] = h[n - 1] => RespelledBody(g, n) = RespelledBody(h, n)
  BY Levels DEF RespelledBody
<1>2. \A n \in Nat : \E g : Upto(g, n)
  <2> DEFINE S == {n \in Nat : \E g : Upto(g, n)}
  <2>1. 0 \in S
    <3> DEFINE g == [i \in {0} |-> RespelledBody(<<>>, 0)]
    <3>1. g[0] = RespelledBody(g, 0)
      BY <1>1
    <3> HIDE DEF g
    <3> QED
      BY <3>1
  <2>2. ASSUME NEW n \in Nat, n \in S
        PROVE  n + 1 \in S
    <3>1. PICK g : Upto(g, n)
      BY <2>2
    <3> DEFINE h == [i \in 0..(n + 1) |-> IF i = n + 1 THEN RespelledBody(g, n + 1) ELSE g[i]]
    <3>2. ASSUME NEW i \in 0..(n + 1)
          PROVE  h[i] = RespelledBody(h, i)
      <4>1. h[i] = RespelledBody(g, i)
        BY <3>1
      <4>2. i = 0 \/ g[i - 1] = h[i - 1]
        OBVIOUS
      <4> HIDE DEF h
      <4> QED
        BY <1>1, <4>1, <4>2
    <3> HIDE DEF h
    <3> QED
      BY <3>2
  <2> HIDE DEF S
  <2>3. \A n \in Nat : n \in S
    BY <2>1, <2>2, Induction
  <2> QED
    BY <2>3 DEF S
<1>3. \A n \in Nat : \A g, h : Upto(g, n) /\ Upto(h, n) => g[n] = h[n]
  <2> DEFINE S == {n \in Nat : \A g, h : Upto(g, n) /\ Upto(h, n) => g[n] = h[n]}
  <2>1. 0 \in S
    BY <1>1
  <2>2. ASSUME NEW n \in Nat, n \in S
        PROVE  n + 1 \in S
    <3> SUFFICES ASSUME NEW g, NEW h, Upto(g, n + 1), Upto(h, n + 1)
                 PROVE  g[n + 1] = h[n + 1]
      OBVIOUS
    <3>1. g[n] = h[n]
      BY <2>2
    <3>2. (n + 1) - 1 = n /\ n + 1 \in 0..(n + 1)
      OBVIOUS
    <3>3. g[n + 1] = RespelledBody(g, n + 1) /\ h[n + 1] = RespelledBody(h, n + 1)
      BY <3>2
    <3> QED
      BY <1>1, <3>1, <3>2, <3>3
  <2> HIDE DEF S
  <2>3. \A n \in Nat : n \in S
    BY <2>1, <2>2, Induction
  <2> QED
    BY <2>3 DEF S
<1> DEFINE F == [n \in Nat |-> (CHOOSE g : Upto(g, n))[n]]
<1>4. ASSUME NEW n \in Nat
      PROVE  F[n] = RespelledBody(F, n)
  <2> DEFINE g == CHOOSE h : Upto(h, n)
  <2>1. Upto(g, n)
    BY <1>2
  <2>2. F[n] = g[n]
    OBVIOUS
  <2>3. ASSUME n # 0
        PROVE  F[n - 1] = g[n - 1]
    <3>1. n - 1 \in Nat /\ Upto(g, n - 1)
      BY <2>1, <2>3
    <3> DEFINE h == CHOOSE k : Upto(k, n - 1)
    <3>2. Upto(h, n - 1) /\ F[n - 1] = h[n - 1]
      BY <1>2, <3>1
    <3> HIDE DEF h, g
    <3> QED
      BY <1>3, <3>1, <3>2
  <2> HIDE DEF g, F
  <2> QED
    BY <1>1, <2>1, <2>2, <2>3
<1>5. F = [n \in Nat |-> RespelledBody(F, n)]
  BY <1>4
<1> HIDE DEF F
<1> QED
  BY <1>5, Zenon DEF Respelled, RespelledBody

\* A value spelled otherwise, from its items spelled otherwise.
LEMMA RespelledIs ==
    ASSUME NEW n \in Nat, NEW v \in JsonUpTo[n + 1]
    PROVE  Respelled[n + 1][v] = OtherValue(v, Respelled[n])
<1>1. Respelled[n + 1] = RespelledBody(Respelled, n + 1)
  BY RespelledExists
<1>2. (n + 1) - 1 = n
  OBVIOUS
<1> QED
  BY <1>1, <1>2 DEF RespelledBody

PartsBody(f, n) ==
    [v \in JsonUpTo[n] |-> {v} \cup UNION {f[n - 1][item] : item \in Items(v)}]

\* The recursion of Parts defines a function.
LEMMA PartsExists == Parts = [n \in Nat |-> PartsBody(Parts, n)]
<1> DEFINE Upto(g, n) == \A i \in 0..n : g[i] = PartsBody(g, i)
<1>1. \A g, h, n : n = 0 \/ g[n - 1] = h[n - 1] => PartsBody(g, n) = PartsBody(h, n)
  BY Levels, Zenon DEF PartsBody
<1>2. \A n \in Nat : \E g : Upto(g, n)
  <2> DEFINE S == {n \in Nat : \E g : Upto(g, n)}
  <2>1. 0 \in S
    <3> DEFINE g == [i \in {0} |-> PartsBody(<<>>, 0)]
    <3>1. g[0] = PartsBody(g, 0)
      BY <1>1
    <3> HIDE DEF g
    <3> QED
      BY <3>1
  <2>2. ASSUME NEW n \in Nat, n \in S
        PROVE  n + 1 \in S
    <3>1. PICK g : Upto(g, n)
      BY <2>2
    <3> DEFINE h == [i \in 0..(n + 1) |-> IF i = n + 1 THEN PartsBody(g, n + 1) ELSE g[i]]
    <3>2. ASSUME NEW i \in 0..(n + 1)
          PROVE  h[i] = PartsBody(h, i)
      <4>1. h[i] = PartsBody(g, i)
        BY <3>1
      <4>2. i = 0 \/ g[i - 1] = h[i - 1]
        OBVIOUS
      <4> HIDE DEF h
      <4> QED
        BY <1>1, <4>1, <4>2
    <3> HIDE DEF h
    <3> QED
      BY <3>2
  <2> HIDE DEF S
  <2>3. \A n \in Nat : n \in S
    BY <2>1, <2>2, Induction
  <2> QED
    BY <2>3 DEF S
<1>3. \A n \in Nat : \A g, h : Upto(g, n) /\ Upto(h, n) => g[n] = h[n]
  <2> DEFINE S == {n \in Nat : \A g, h : Upto(g, n) /\ Upto(h, n) => g[n] = h[n]}
  <2>1. 0 \in S
    BY <1>1
  <2>2. ASSUME NEW n \in Nat, n \in S
        PROVE  n + 1 \in S
    <3> SUFFICES ASSUME NEW g, NEW h, Upto(g, n + 1), Upto(h, n + 1)
                 PROVE  g[n + 1] = h[n + 1]
      OBVIOUS
    <3>1. g[n] = h[n]
      BY <2>2
    <3>2. (n + 1) - 1 = n /\ n + 1 \in 0..(n + 1)
      OBVIOUS
    <3>3. g[n + 1] = PartsBody(g, n + 1) /\ h[n + 1] = PartsBody(h, n + 1)
      BY <3>2
    <3> QED
      BY <1>1, <3>1, <3>2, <3>3
  <2> HIDE DEF S
  <2>3. \A n \in Nat : n \in S
    BY <2>1, <2>2, Induction
  <2> QED
    BY <2>3 DEF S
<1> DEFINE F == [n \in Nat |-> (CHOOSE g : Upto(g, n))[n]]
<1>4. ASSUME NEW n \in Nat
      PROVE  F[n] = PartsBody(F, n)
  <2> DEFINE g == CHOOSE h : Upto(h, n)
  <2>1. Upto(g, n)
    BY <1>2
  <2>2. F[n] = g[n]
    OBVIOUS
  <2>3. ASSUME n # 0
        PROVE  F[n - 1] = g[n - 1]
    <3>1. n - 1 \in Nat /\ Upto(g, n - 1)
      BY <2>1, <2>3
    <3> DEFINE h == CHOOSE k : Upto(k, n - 1)
    <3>2. Upto(h, n - 1) /\ F[n - 1] = h[n - 1]
      BY <1>2, <3>1
    <3> HIDE DEF h, g
    <3> QED
      BY <1>3, <3>1, <3>2
  <2> HIDE DEF g, F
  <2> QED
    BY <1>1, <2>1, <2>2, <2>3
<1>5. F = [n \in Nat |-> PartsBody(F, n)]
  BY <1>4
<1> HIDE DEF F
<1> QED
  BY <1>5, Zenon DEF Parts, PartsBody

\* The parts of a value, from those of its items.
LEMMA PartsIs ==
    ASSUME NEW n \in Nat, NEW v \in JsonUpTo[n + 1]
    PROVE  Parts[n + 1][v] = {v} \cup UNION {Parts[n][item] : item \in Items(v)}
<1>1. Parts[n + 1] = PartsBody(Parts, n + 1)
  BY PartsExists
<1>2. (n + 1) - 1 = n
  OBVIOUS
<1> QED
  BY <1>1, <1>2 DEF PartsBody

-----------------------------------------------------------------------------
(* Canonical forms: the values and the texts in them *)

\* Texts that are the same JSON text are the same; no text is null, a number or
\* rejected.
LEMMA TextsAreTagged ==
    /\ \A a, b : Text(a) = Text(b) => a = b
    /\ \A a : Text(a) \notin {Null, Other, Rejected}
BY DEF Text, Null, Other, Rejected

\* What a value is, and what its items are.
LEMMA ValueIs ==
    ASSUME NEW n \in Nat, NEW v \in JsonUpTo[n + 1]
    PROVE  \/ v \in {Null, Other} \cup {Bool(b) : b \in BOOLEAN}
           \/ \E t \in Texts : v = Text(t)
           \/ v[1] = "array" /\ v = Array(v[2]) /\ v[2] \in Seq(JsonUpTo[n])
           \/ v[1] = "members" /\ v = Members(v[2]) /\ v[2] \in Seq(Keys \X JsonUpTo[n])
<1>1. v \in Over(JsonUpTo[n])
  BY Levels
<1> QED
  BY <1>1 DEF Over, Scalars, Keys, Array, Members

\* Scalars, arrays and objects are told apart by their type.
LEMMA Types ==
    /\ Null[1] = "null" /\ Other[1] = "other" /\ \A b : Bool(b)[1] = "boolean"
    /\ \A t : Text(t)[1] = "text" /\ Text(t)[2] = t
    /\ \A s : Array(s)[1] = "array" /\ Array(s)[2] = s
    /\ \A s : Members(s)[1] = "members" /\ Members(s)[2] = s
    /\ Rejected[1] = "rejected" /\ Missing[1] = "missing"
BY DEF Null, Other, Bool, Text, Array, Members, Rejected, Missing

\* What canonicalizers make of a text.
LEMMA Readers ==
    ASSUME NEW t
    PROVE  /\ ReadText(t)["python"] = PythonText(t) /\ ReadText(t)["go"] = GoText(t)
           /\ ReadText(t)["typescript"] = TypeScriptText(t)
           /\ ReadText(t)["dotnet"] = DotNetText(t) /\ ReadText(t)["stdlib"] = StdlibText(t)
           /\ \A c \in Canonicalizers \ {"go"} : ReadKey(t)[c] = ReadText(t)[c]
           /\ ReadKey(t)["go"] = GoKey(t)
BY DEF ReadText, ReadKey, Canonicalizers

\* Normal forms: a text that has one is spelled in it.
LEMMA NormalFormsOfTexts ==
    /\ NFC("nfd") = "nfc" /\ NFC("shrinks") = "short" /\ NFC("grows") = "long"
    /\ NFC("UN(U+212A)NOWN") = "UNKNOWN"
    /\ \A t : t \notin {"nfd", "shrinks", "grows", "UN(U+212A)NOWN"} => NFC(t) = t
    /\ \A t \in Texts : NFC(t) \in Texts
    /\ {"nfd", "nfc", "shrinks", "grows", "short", "long"} \subseteq Texts
<1>1. \A t : NFC(t) = IF t = "nfd" THEN "nfc"
                      ELSE IF t = "shrinks" THEN "short"
                      ELSE IF t = "grows" THEN "long"
                      ELSE IF t = "UN(U+212A)NOWN" THEN "UNKNOWN" ELSE t
  BY Zenon DEF NFC
<1>2. \A t : t \in Texts <=> t \in {"", "control", "a", "nfd", "shrinks", "z", "nfc", "short",
              "long", "grows", "separator", "surrogate", "private", "astral"}
  <2>1. DOMAIN Utf8Order = 1..14
    BY DEF Utf8Order
  <2>2. /\ Utf8Order[1] = "" /\ Utf8Order[2] = "control" /\ Utf8Order[3] = "a"
        /\ Utf8Order[4] = "nfd" /\ Utf8Order[5] = "shrinks" /\ Utf8Order[6] = "z"
        /\ Utf8Order[7] = "nfc" /\ Utf8Order[8] = "short" /\ Utf8Order[9] = "long"
        /\ Utf8Order[10] = "grows" /\ Utf8Order[11] = "separator"
        /\ Utf8Order[12] = "surrogate" /\ Utf8Order[13] = "private"
        /\ Utf8Order[14] = "astral"
    BY DEF Utf8Order
  <2>3. \A i : i \in 1..14 <=> i \in {1, 2, 3, 4, 5, 6, 7, 8, 9, 10, 11, 12, 13, 14}
    OBVIOUS
  <2>4. Texts = {Utf8Order[i] : i \in 1..14}
    BY <2>1 DEF Texts
  <2>5. ASSUME NEW t \in Texts
        PROVE  t \in {"", "control", "a", "nfd", "shrinks", "z", "nfc", "short",
                       "long", "grows", "separator", "surrogate", "private", "astral"}
    <3>1. PICK i \in 1..14 : t = Utf8Order[i]
      BY <2>4
    <3>2. i \in {1, 2, 3, 4, 5, 6, 7, 8, 9, 10, 11, 12, 13, 14}
      BY <2>3
    <3> QED
      BY <2>2, <3>1, <3>2
  <2>6. \A i \in {1, 2, 3, 4, 5, 6, 7, 8, 9, 10, 11, 12, 13, 14} : Utf8Order[i] \in Texts
    BY <2>3, <2>4
  <2>7. {"", "control", "a", "nfd", "shrinks", "z", "nfc", "short",
         "long", "grows", "separator", "surrogate", "private", "astral"} \subseteq Texts
    BY <2>2, <2>6
  <2> QED
    BY <2>5, <2>7
<1> QED
  BY <1>1, <1>2

\* Texts are read alike, but for the empty text in TypeScript, and a text that is
\* a value and changes its length in Go.
LEMMA TextsAreReadAlike ==
    ASSUME NEW t
    PROVE  /\ ReadText(t)["dotnet"] = ReadText(t)["python"]
           /\ ReadText(t)["typescript"] = IF t = "" THEN Rejected ELSE ReadText(t)["python"]
           /\ t \notin {"shrinks", "grows"} => ReadText(t)["go"] = ReadText(t)["python"]
           /\ ReadText(t)["python"] # Rejected =>
                ReadText(t)["stdlib"] = ReadText(t)["python"]
           /\ ReadKey(t)["go"] = ReadKey(t)["python"]
<1>1. NFC(t) \in Prohibited \cup TooLong
        <=> t \in {"control", "separator", "surrogate", "long", "grows"}
  BY NormalFormsOfTexts DEF Prohibited, TooLong
<1>2. Canonicalizers \ {"go"} = {"python", "typescript", "dotnet", "stdlib"}
  BY DEF Canonicalizers
<1> QED
  BY <1>1, <1>2, Readers DEF PythonText, GoText, GoKey, TypeScriptText, DotNetText, StdlibText,
     Admitted, Prohibited, TooLong

OccursIn(n, texts, v) == \E t \in texts : Text(t) \in Parts[n][v]

MentionsIn(n, texts, v) ==
    \/ OccursIn(n, texts, v)
    \/ \E part \in Parts[n][v] :
          /\ part[1] = "members"
          /\ \E t \in texts, i \in DOMAIN part[2] : part[2][i][1] = Text(t)

\* The items of a value are one level less deep.
LEMMA ItemsAre ==
    ASSUME NEW n \in Nat, NEW v \in JsonUpTo[n + 1]
    PROVE  /\ v[1] = "array" => Items(v) = {v[2][i] : i \in DOMAIN v[2]}
           /\ v[1] = "members" => Items(v) = {v[2][i][2] : i \in DOMAIN v[2]}
           /\ v[1] \notin {"array", "members"} => Items(v) = {}
           /\ Items(v) \subseteq JsonUpTo[n]
<1>1. /\ v[1] = "array" => Items(v) = Range(v[2])
      /\ v[1] = "members" => Items(v) = {member[2] : member \in Range(v[2])}
      /\ v[1] \notin {"array", "members"} => Items(v) = {}
  BY Zenon DEF Items
<1>2. v[1] = "array" => Items(v) = {v[2][i] : i \in DOMAIN v[2]}
  BY <1>1 DEF Range
<1>3. v[1] = "members" => Items(v) = {v[2][i][2] : i \in DOMAIN v[2]}
  BY <1>1 DEF Range
<1>4. v[1] = "array" => v[2] \in Seq(JsonUpTo[n])
  BY ValueIs, Types
<1>5. v[1] = "members" => v[2] \in Seq(Keys \X JsonUpTo[n])
  BY ValueIs, Types
<1>6. v[1] = "array" => Items(v) \subseteq JsonUpTo[n]
  BY <1>2, <1>4
<1>7. v[1] = "members" => Items(v) \subseteq JsonUpTo[n]
  BY <1>3, <1>5
<1> QED
  BY <1>1, <1>2, <1>3, <1>6, <1>7

\* A text occurs in a container where it occurs in an item; alone, where it is the value.
LEMMA Occurrences ==
    ASSUME NEW n \in Nat, NEW v \in JsonUpTo[n + 1], NEW texts
    PROVE  /\ v[1] = "text" => (OccursIn(n + 1, texts, v) <=> v[2] \in texts)
           /\ v[1] = "text" => (MentionsIn(n + 1, texts, v) <=> v[2] \in texts)
           /\ v[1] \notin {"text", "array", "members"} =>
                ~OccursIn(n + 1, texts, v) /\ ~MentionsIn(n + 1, texts, v)
           /\ v[1] \in {"array", "members"} =>
                (OccursIn(n + 1, texts, v) <=>
                    \E item \in Items(v) : OccursIn(n, texts, item))
           /\ v[1] = "array" =>
                (MentionsIn(n + 1, texts, v) <=>
                    \E item \in Items(v) : MentionsIn(n, texts, item))
           /\ v[1] = "members" =>
                (MentionsIn(n + 1, texts, v) <=>
                    \/ \E item \in Items(v) : MentionsIn(n, texts, item)
                    \/ \E t \in texts, i \in DOMAIN v[2] : v[2][i][1] = Text(t))
<1>1. Parts[n + 1][v] = {v} \cup UNION {Parts[n][item] : item \in Items(v)}
  BY PartsIs
<1>2. v[1] = "text" => v = Text(v[2]) /\ Items(v) = {}
  <2>1. v[1] = "text" => \E t \in Texts : v = Text(t)
    BY ValueIs, Types
  <2> QED
    BY <2>1, ItemsAre, Types
<1>3. v[1] \notin {"text", "array", "members"} => Items(v) = {}
  BY ItemsAre
<1>4. \A t : Text(t) = v => v[1] = "text" /\ v[2] = t
  BY Types
<1> QED
  BY <1>1, <1>2, <1>3, <1>4, TextsAreTagged DEF OccursIn, MentionsIn

\* All sort in the same order.
LEMMA ObjectsAreSortedAlike ==
    ASSUME NEW c, NEW members
    PROVE  NormalObject(c, members) = NormalObject("python", members)
<1>1. Order(c) = Order("python")
  BY DEF Order, TypeScriptOrder
<1> QED
  BY <1>1, Zenon DEF NormalObject, Sorted

\* Rejected is no form; a container is rejected if an item is.
LEMMA ContainersAreWhole ==
    ASSUME NEW c, NEW s
    PROVE  /\ NormalArray(s) # Rejected <=> \A i \in DOMAIN s : s[i] # Rejected
           /\ NormalObject(c, s) # Rejected =>
                \A i \in DOMAIN s : s[i][1] # Rejected /\ s[i][2] # Rejected
<1>1. \A x : Array(x) # Rejected
  BY DEF Array, Rejected
<1>2. NormalArray(s) # Rejected <=> \A i \in DOMAIN s : s[i] # Rejected
  BY <1>1 DEF NormalArray, Range
<1> QED
  BY <1>2 DEF NormalObject

-----------------------------------------------------------------------------
(* Canonical forms: the canonicalizers agree *)

\* The forms f that canonicalizers make of one value; empty: it mentions the empty
\* text, resized: a text occurs in it that changes its length.
Agreeing(f, empty, resized) ==
    /\ f["dotnet"] = f["python"]
    /\ f["typescript"] = IF empty THEN Rejected ELSE f["python"]
    /\ ~resized => f["go"] = f["python"]
    /\ f["python"] # Rejected => f["stdlib"] = f["python"]

\* The forms of a value at a depth.
FormsAt(n, depth, v) == [c \in Canonicalizers |-> Normalize[n][c][depth][v]]

AgreeAt(n) ==
    \A depth \in Nat, v \in JsonUpTo[n] :
        Agreeing(FormsAt(n, depth, v), MentionsIn(n, {""}, v),
                 OccursIn(n, {"shrinks", "grows"}, v))

\* The canonicalizers of Python, .NET, Go and TypeScript have the same bounds.
LEMMA SameBounds ==
    ASSUME NEW v, NEW depth, NEW c \in Canonicalizers
    PROVE  WithinBounds("python", v, depth) => WithinBounds(c, v, depth)
BY DEF WithinBounds, Bounded, Canonicalizers

\* So what is within them for one of the four is within them for all.
LEMMA SameBoundsBack ==
    ASSUME NEW v, NEW depth, NEW c \in Canonicalizers \ {"stdlib"}
    PROVE  WithinBounds("python", v, depth) <=> WithinBounds(c, v, depth)
BY DEF WithinBounds, Bounded, Canonicalizers

\* If the canonicalizers agree on the items of a value, they agree on the value.
LEMMA AgreementStep ==
    ASSUME NEW n \in Nat, AgreeAt(n), NEW depth \in Nat, NEW v \in JsonUpTo[n + 1]
    PROVE  Agreeing(FormsAt(n + 1, depth, v), MentionsIn(n + 1, {""}, v),
                    OccursIn(n + 1, {"shrinks", "grows"}, v))
<1> DEFINE N(c) == NormalValue(c, v, Normalize[n][c][depth + 1])
           f == [c \in Canonicalizers |-> N(c)]
           empty == MentionsIn(n + 1, {""}, v)
           resized == OccursIn(n + 1, {"shrinks", "grows"}, v)
<1>1. \A c \in Canonicalizers :
         FormsAt(n + 1, depth, v)[c] = IF WithinBounds(c, v, depth) THEN N(c) ELSE Rejected
  BY NormalFormIs DEF FormsAt
<1>2. {"python", "go", "typescript", "dotnet", "stdlib"} = Canonicalizers
  BY DEF Canonicalizers
<1>3. SUFFICES Agreeing(f, empty, resized)
  <2> HIDE DEF N
  <2> QED
    BY <1>1, <1>2, SameBounds, SameBoundsBack DEF Agreeing
<1>4. ASSUME NEW item \in Items(v)
      PROVE  /\ item \in JsonUpTo[n]
             /\ LET g == [c \in Canonicalizers |-> Normalize[n][c][depth + 1][item]]
                IN  Agreeing(g, MentionsIn(n, {""}, item),
                             OccursIn(n, {"shrinks", "grows"}, item))
  <2>1. depth + 1 \in Nat /\ item \in JsonUpTo[n]
    BY ItemsAre
  <2> QED
    BY <2>1 DEF AgreeAt, FormsAt
<1>5. ASSUME NEW item \in Items(v)
      PROVE  /\ Normalize[n]["dotnet"][depth + 1][item] =
                  Normalize[n]["python"][depth + 1][item]
             /\ Normalize[n]["typescript"][depth + 1][item] =
                  IF MentionsIn(n, {""}, item) THEN Rejected
                  ELSE Normalize[n]["python"][depth + 1][item]
             /\ ~OccursIn(n, {"shrinks", "grows"}, item) =>
                  Normalize[n]["go"][depth + 1][item] =
                    Normalize[n]["python"][depth + 1][item]
             /\ Normalize[n]["python"][depth + 1][item] # Rejected =>
                  Normalize[n]["stdlib"][depth + 1][item] =
                    Normalize[n]["python"][depth + 1][item]
  BY <1>2, <1>4 DEF Agreeing
<1>6. f["python"] = N("python") /\ f["go"] = N("go") /\ f["typescript"] = N("typescript")
      /\ f["dotnet"] = N("dotnet") /\ f["stdlib"] = N("stdlib")
  BY <1>2
<1>7. CASE v[1] \notin {"text", "array", "members"}
  <2>1. ~empty
    BY <1>7, Occurrences
  <2>2. v[1] \in {"null", "boolean", "other"}
    <3>1. v \in {Null, Other} \cup {Bool(b) : b \in BOOLEAN}
      <4>1. ~ \E t \in Texts : v = Text(t)
        BY <1>7, Types
      <4> QED
        BY <1>7, <4>1, ValueIs, Zenon
    <3> QED
      BY <3>1, Types
  <2>3. ASSUME NEW c
        PROVE  N(c) = IF v[1] = "other" THEN Rejected ELSE v
    BY <2>2, Zenon DEF NormalValue
  <2> HIDE DEF N, f, empty, resized
  <2> QED
    BY <1>6, <2>1, <2>3 DEF Agreeing
<1>8. CASE v[1] = "text"
  <2>1. empty <=> v[2] = ""
    <3>1. empty <=> v[2] \in {""}
      BY <1>8, Occurrences, Zenon
    <3> QED
      BY <3>1
  <2>2. resized <=> v[2] \in {"shrinks", "grows"}
    BY <1>8, Occurrences
  <2>3. ASSUME NEW c
        PROVE  N(c) = ReadText(v[2])[c]
    BY <1>8, Zenon DEF NormalValue
  <2> HIDE DEF N, f, empty, resized
  <2> QED
    BY <1>6, <2>1, <2>2, <2>3, TextsAreReadAlike DEF Agreeing
<1>9. CASE v[1] = "array"
  <2> DEFINE s(c) == [i \in DOMAIN v[2] |-> Normalize[n][c][depth + 1][v[2][i]]]
  <2>1. ASSUME NEW c
        PROVE  N(c) = NormalArray(s(c))
    BY <1>9, Zenon DEF NormalValue
  <2>2. \A i \in DOMAIN v[2] : v[2][i] \in Items(v)
    BY <1>9, ItemsAre
  <2>3. s("dotnet") = s("python")
    BY <1>5, <2>2
  <2>4. ~resized => s("go") = s("python")
    <3>1. ~resized => \A i \in DOMAIN v[2] : ~OccursIn(n, {"shrinks", "grows"}, v[2][i])
      BY <1>9, <2>2, Occurrences
    <3> HIDE DEF resized
    <3> QED
      BY <1>5, <2>2, <3>1
  <2>5. ~empty => s("typescript") = s("python")
    <3>1. ~empty => \A i \in DOMAIN v[2] : ~MentionsIn(n, {""}, v[2][i])
      BY <1>9, <2>2, Occurrences
    <3> HIDE DEF empty
    <3> QED
      BY <1>5, <2>2, <3>1
  <2>6. empty => N("typescript") = Rejected
    <3>1. empty => \E i \in DOMAIN v[2] : MentionsIn(n, {""}, v[2][i])
      <4>1. empty => \E item \in Items(v) : MentionsIn(n, {""}, item)
        BY <1>9, Occurrences, Zenon
      <4>2. Items(v) = {v[2][i] : i \in DOMAIN v[2]}
        BY <1>9, ItemsAre
      <4> QED
        BY <4>1, <4>2, Zenon
    <3>2. empty => \E i \in DOMAIN v[2] : s("typescript")[i] = Rejected
      <4> HIDE DEF empty
      <4> QED
        BY <1>5, <2>2, <3>1
    <3>3. DOMAIN s("typescript") = DOMAIN v[2]
      OBVIOUS
    <3> HIDE DEF s, N, empty
    <3> QED
      BY <2>1, <3>2, <3>3, ContainersAreWhole
  <2>7. N("python") # Rejected => s("stdlib") = s("python")
    <3>1. N("python") # Rejected => \A i \in DOMAIN v[2] : s("python")[i] # Rejected
      <4>1. DOMAIN s("python") = DOMAIN v[2]
        OBVIOUS
      <4> HIDE DEF s, N
      <4> QED
        BY <2>1, <4>1, ContainersAreWhole
    <3> HIDE DEF N
    <3> QED
      BY <1>5, <2>2, <3>1
  <2> HIDE DEF s, N, f, empty, resized
  <2> QED
    BY <1>6, <2>1, <2>3, <2>4, <2>5, <2>6, <2>7 DEF Agreeing
<1>10. CASE v[1] = "members"
  <2> DEFINE k(c, i) == ReadKey(v[2][i][1][2])[c]
             s(c) == [i \in DOMAIN v[2] |->
                        <<k(c, i), Normalize[n][c][depth + 1][v[2][i][2]]>>]
  <2>1. ASSUME NEW c
        PROVE  N(c) = NormalObject("python", s(c))
    <3>1. N(c) = NormalObject(c, s(c))
      BY <1>10, Zenon DEF NormalValue
    <3> QED
      BY <3>1, ObjectsAreSortedAlike, Zenon
  <2>2. \A i \in DOMAIN v[2] : v[2][i][2] \in Items(v)
    BY <1>10, ItemsAre
  <2>3. \A i \in DOMAIN v[2] :
           /\ k("dotnet", i) = k("python", i) /\ k("go", i) = k("python", i)
           /\ k("typescript", i) = IF v[2][i][1][2] = "" THEN Rejected ELSE k("python", i)
           /\ k("python", i) # Rejected => k("stdlib", i) = k("python", i)
    <3> SUFFICES ASSUME NEW t
                 PROVE  /\ ReadKey(t)["dotnet"] = ReadKey(t)["python"]
                        /\ ReadKey(t)["go"] = ReadKey(t)["python"]
                        /\ ReadKey(t)["typescript"] =
                             IF t = "" THEN Rejected ELSE ReadKey(t)["python"]
                        /\ ReadKey(t)["python"] # Rejected =>
                             ReadKey(t)["stdlib"] = ReadKey(t)["python"]
      OBVIOUS
    <3>1. ReadKey(t)["dotnet"] = ReadText(t)["dotnet"]
          /\ ReadKey(t)["python"] = ReadText(t)["python"]
          /\ ReadKey(t)["typescript"] = ReadText(t)["typescript"]
          /\ ReadKey(t)["stdlib"] = ReadText(t)["stdlib"]
      BY <1>2, Readers
    <3> QED
      BY <3>1, TextsAreReadAlike
  <2> HIDE DEF k
  <2>4. s("dotnet") = s("python")
    BY <1>5, <2>2, <2>3
  <2>5. ~resized => s("go") = s("python")
    <3>1. ~resized => \A i \in DOMAIN v[2] : ~OccursIn(n, {"shrinks", "grows"}, v[2][i][2])
      BY <1>10, <2>2, Occurrences
    <3> HIDE DEF resized
    <3> QED
      BY <1>5, <2>2, <2>3, <3>1
  <2>6. \A i \in DOMAIN v[2] : v[2][i][1] = Text("") <=> v[2][i][1][2] = ""
    <3>1. v[2] \in Seq(Keys \X JsonUpTo[n])
      BY <1>10, ValueIs, Types
    <3>2. \A i \in DOMAIN v[2] : \E t \in Texts : v[2][i][1] = Text(t)
      BY <3>1 DEF Keys
    <3>3. \A t : Text(t) = Text("") <=> Text(t)[2] = ""
      BY Types, TextsAreTagged
    <3> QED
      BY <3>2, <3>3
  <2>7. ~empty => s("typescript") = s("python")
    <3>1. ~empty => \A i \in DOMAIN v[2] :
             ~MentionsIn(n, {""}, v[2][i][2]) /\ v[2][i][1][2] # ""
      BY <1>10, <2>2, <2>6, Occurrences
    <3> HIDE DEF empty
    <3> QED
      BY <1>5, <2>2, <2>3, <3>1
  <2>8. empty => N("typescript") = Rejected
    <3>1. empty => \E i \in DOMAIN v[2] : MentionsIn(n, {""}, v[2][i][2]) \/ v[2][i][1][2] = ""
      <4>1. empty => \/ \E item \in Items(v) : MentionsIn(n, {""}, item)
                     \/ \E t \in {""}, i \in DOMAIN v[2] : v[2][i][1] = Text(t)
        BY <1>10, Occurrences, Zenon
      <4>2. Items(v) = {v[2][i][2] : i \in DOMAIN v[2]}
        BY <1>10, ItemsAre
      <4>3. empty => \/ \E i \in DOMAIN v[2] : MentionsIn(n, {""}, v[2][i][2])
                     \/ \E i \in DOMAIN v[2] : v[2][i][1] = Text("")
        <5> HIDE DEF empty
        <5> QED
          BY <4>1, <4>2
      <4> HIDE DEF empty
      <4> QED
        BY <2>6, <4>3
    <3>2. empty => \E i \in DOMAIN v[2] :
                      s("typescript")[i][1] = Rejected \/ s("typescript")[i][2] = Rejected
      <4> HIDE DEF empty
      <4> QED
        BY <1>5, <2>2, <2>3, <3>1
    <3>3. DOMAIN s("typescript") = DOMAIN v[2]
      OBVIOUS
    <3> HIDE DEF s, N, empty
    <3> QED
      BY <2>1, <3>2, <3>3, ContainersAreWhole
  <2>9. N("python") # Rejected => s("stdlib") = s("python")
    <3>1. N("python") # Rejected => \A i \in DOMAIN v[2] :
             s("python")[i][1] # Rejected /\ s("python")[i][2] # Rejected
      <4>1. DOMAIN s("python") = DOMAIN v[2]
        OBVIOUS
      <4> HIDE DEF s, N
      <4> QED
        BY <2>1, <4>1, ContainersAreWhole
    <3> HIDE DEF N
    <3> QED
      BY <1>5, <2>2, <2>3, <3>1
  <2> HIDE DEF s, N, f, empty, resized
  <2> QED
    BY <1>6, <2>1, <2>4, <2>5, <2>7, <2>8, <2>9 DEF Agreeing
<1> QED
  BY <1>7, <1>8, <1>9, <1>10

\* So they agree on every value.
LEMMA AgreementOnValues == \A n \in Nat : AgreeAt(n)
<1> DEFINE S == {n \in Nat : AgreeAt(n)}
<1>1. 0 \in S
  BY Levels DEF AgreeAt
<1>2. ASSUME NEW n \in Nat, n \in S
      PROVE  n + 1 \in S
  <2>1. AgreeAt(n)
    BY <1>2
  <2>2. AgreeAt(n + 1)
    BY <2>1, AgreementStep DEF AgreeAt
  <2> QED
    BY <2>2
<1> HIDE DEF S
<1>3. \A n \in Nat : n \in S
  BY <1>1, <1>2, Induction
<1> QED
  BY <1>3 DEF S

-----------------------------------------------------------------------------
(* Canonical forms: members in order *)

\* Every key has a place of its own in the order.
LEMMA Ranks ==
    /\ \A k \in Keys : Rank(Utf8Order, k) \in Nat
    /\ \A k, l \in Keys : Rank(Utf8Order, k) = Rank(Utf8Order, l) => k = l
<1>1. ASSUME NEW k \in Keys
      PROVE  /\ Rank(Utf8Order, k) \in DOMAIN Utf8Order
             /\ Text(Utf8Order[Rank(Utf8Order, k)]) = k
  <2>1. \E i \in DOMAIN Utf8Order : Text(Utf8Order[i]) = k
    BY DEF Keys, Texts
  <2> QED
    BY <2>1, Zenon DEF Rank
<1>2. DOMAIN Utf8Order \subseteq Nat
  BY DEF Utf8Order
<1>3. \A k \in Keys : Rank(Utf8Order, k) \in Nat
  BY <1>1, <1>2
<1>4. \A k, l \in Keys : Rank(Utf8Order, k) = Rank(Utf8Order, l) => k = l
  BY <1>1, Zenon
<1> QED
  BY <1>3, <1>4

\* The keys of a finite set can be numbered in their order.
LEMMA KeysInOrder ==
    ASSUME NEW K, K \subseteq Keys, IsFiniteSet(K)
    PROVE  \E key \in [1..Cardinality(K) -> K] :
              /\ \A k \in K : \E p \in 1..Cardinality(K) : key[p] = k
              /\ \A p, q \in 1..Cardinality(K) :
                    p < q => Rank(Utf8Order, key[p]) < Rank(Utf8Order, key[q])
<1> DEFINE n == Cardinality(K)
           R(k) == Rank(Utf8Order, k)
           Before(k) == {l \in K : R(l) < R(k)}
           place == [k \in K |-> Cardinality(Before(k)) + 1]
<1>1. n \in Nat /\ IsFiniteSet(1..n) /\ Cardinality(1..n) = n
  BY FS_CardinalityType, CountingTo
<1>2. \A k \in K : R(k) \in Nat
  BY Ranks
<1>3. ASSUME NEW k \in K
      PROVE  /\ IsFiniteSet(Before(k)) /\ Cardinality(Before(k)) \in Nat
             /\ Cardinality(Before(k)) < n
  <2>1. k \notin Before(k) /\ Before(k) \in SUBSET K
    BY <1>2
  <2>2. IsFiniteSet(Before(k)) /\ Cardinality(Before(k)) <= n /\ Cardinality(Before(k)) # n
    BY <2>1, FS_Subset
  <2>3. Cardinality(Before(k)) \in Nat
    BY <2>2, FS_CardinalityType
  <2> HIDE DEF n
  <2> QED
    BY <1>1, <2>2, <2>3
<1>4. ASSUME NEW k \in K, NEW l \in K, R(k) < R(l)
      PROVE  place[k] < place[l]
  <2>1. Before(k) \in SUBSET Before(l) /\ k \in Before(l) /\ k \notin Before(k)
    BY <1>2, <1>4
  <2>2. Cardinality(Before(k)) <= Cardinality(Before(l))
        /\ Cardinality(Before(k)) # Cardinality(Before(l))
    BY <1>3, <2>1, FS_Subset
  <2>3. place[k] = Cardinality(Before(k)) + 1 /\ place[l] = Cardinality(Before(l)) + 1
    OBVIOUS
  <2>4. Cardinality(Before(k)) \in Nat /\ Cardinality(Before(l)) \in Nat
    BY <1>3
  <2> HIDE DEF Before, place
  <2> QED
    BY <2>2, <2>3, <2>4
<1>5. place \in [K -> 1..n]
  <2>1. \A k \in K : Cardinality(Before(k)) + 1 \in 1..n
    <3> HIDE DEF Before, n
    <3> QED
      BY <1>1, <1>3
  <2> HIDE DEF Before, n
  <2> QED
    BY <2>1
<1>6. \A k, l \in K : place[k] = place[l] => k = l
  <2> SUFFICES ASSUME NEW k \in K, NEW l \in K, k # l
               PROVE  place[k] # place[l]
    OBVIOUS
  <2>1. R(k) < R(l) \/ R(l) < R(k)
    BY <1>2, Ranks
  <2>2. place[k] < place[l] \/ place[l] < place[k]
    BY <1>4, <2>1
  <2>3. place[k] \in Nat /\ place[l] \in Nat
    BY <1>1, <1>5
  <2> HIDE DEF place
  <2> QED
    BY <2>2, <2>3
<1>7. place \in Surjection(K, 1..n)
  <2>1. place \in Injection(K, 1..n)
    <3> HIDE DEF place, n
    <3> QED
      BY <1>5, <1>6 DEF Injection, IsInjective
  <2> HIDE DEF place
  <2> QED
    BY <1>1, <2>1, FS_Injection
<1> HIDE DEF place
<1>8. \A p \in 1..n : \E k \in K : place[k] = p
  BY <1>7 DEF Surjection
<1> DEFINE key == [p \in 1..n |-> CHOOSE k \in K : place[k] = p]
<1>9. \A p \in 1..n : key[p] \in K /\ place[key[p]] = p
  BY <1>8
<1>10. key \in [1..n -> K]
  BY <1>9
<1> HIDE DEF key
<1>11. ASSUME NEW k \in K
       PROVE  \E p \in 1..n : key[p] = k
  <2>1. place[k] \in 1..n
    BY <1>5
  <2>2. key[place[k]] = k
    BY <1>6, <1>9, <2>1
  <2> QED
    BY <2>1, <2>2
<1>12. ASSUME NEW p \in 1..n, NEW q \in 1..n, p < q
       PROVE  R(key[p]) < R(key[q])
  <2>1. key[p] \in K /\ key[q] \in K /\ place[key[p]] = p /\ place[key[q]] = q
    BY <1>9
  <2>2. R(key[p]) \in Nat /\ R(key[q]) \in Nat
    BY <1>2, <2>1
  <2>3. R(key[q]) < R(key[p]) => q < p
    BY <1>4, <2>1
  <2>4. R(key[q]) = R(key[p]) => q = p
    BY <2>1, Ranks
  <2> HIDE DEF R
  <2> QED
    BY <1>12, <2>2, <2>3, <2>4
<1> QED
  BY <1>10, <1>11, <1>12

\* The keys of members of which none collide tell the members apart.
LEMMA KeysApart ==
    ASSUME NEW M, \A m \in M : m[1] \in Keys, NEW s \in Seq(M),
           Cardinality({s[i][1] : i \in DOMAIN s}) = Len(s)
    PROVE  /\ {s[i][1] : i \in DOMAIN s} \subseteq Keys
           /\ IsFiniteSet({s[i][1] : i \in DOMAIN s})
           /\ \A i, j \in DOMAIN s : s[i][1] = s[j][1] => i = j
<1> DEFINE S == DOMAIN s
           f == [i \in S |-> s[i][1]]
           T == {s[i][1] : i \in S}
<1>1. S = 1..Len(s) /\ Len(s) \in Nat
  OBVIOUS
<1>2. IsFiniteSet(S) /\ Cardinality(S) = Len(s)
  <2> DEFINE n == Len(s)
  <2> HIDE DEF S, n
  <2>1. n \in Nat /\ S = 1..n
    BY <1>1 DEF n
  <2>2. IsFiniteSet(1..n) /\ Cardinality(1..n) = n
    BY <2>1, CountingTo
  <2> QED
    BY <2>1, <2>2 DEF n
<1>3. T = {f[i] : i \in S} /\ DOMAIN f = S
  OBVIOUS
<1>4. T \subseteq Keys
  OBVIOUS
<1>5. \A i, j \in S : f[i] = f[j] <=> s[i][1] = s[j][1]
  OBVIOUS
<1>6. Cardinality(T) = Len(s)
  OBVIOUS
<1> HIDE DEF f, S, T
<1>7. /\ IsFiniteSet(T)
      /\ Cardinality(T) = Cardinality(S) <=> \A x, y \in S : f[x] = f[y] => x = y
  BY <1>2, <1>3, CountingImages
<1>8. \A i, j \in S : s[i][1] = s[j][1] => i = j
  BY <1>2, <1>5, <1>6, <1>7
<1> QED
  BY <1>4, <1>7, <1>8 DEF S, T

\* Members whose keys do not collide can be sorted, and sorting loses none.
LEMMA Sorting ==
    ASSUME NEW M, \A m \in M : m[1] \in Keys, NEW s \in Seq(M),
           Cardinality({s[i][1] : i \in DOMAIN s}) = Len(s)
    PROVE  /\ MembersInOrder(Utf8Order, Range(s), Len(s)) \in [1..Len(s) -> Range(s)]
           /\ Range(MembersInOrder(Utf8Order, Range(s), Len(s))) = Range(s)
<1> DEFINE n == Len(s)
           T == Range(s)
           K == {s[i][1] : i \in DOMAIN s}
           R(k) == Rank(Utf8Order, k)
<1>1. n \in Nat /\ DOMAIN s = 1..n
  OBVIOUS
<1>2. K \subseteq Keys /\ IsFiniteSet(K) /\ Cardinality(K) = n
  BY KeysApart
<1>3. \A i, j \in DOMAIN s : s[i][1] = s[j][1] => i = j
  BY KeysApart
<1>4. \A m \in T : \E i \in DOMAIN s : m = s[i]
  BY DEF Range
<1>5. \A i \in DOMAIN s : s[i] \in T
  BY DEF Range
<1>6. \A k \in K : \E i \in DOMAIN s : k = s[i][1]
  OBVIOUS
<1>7. \A m \in T : m[1] \in K
  BY <1>4
<1>8. \A l, m \in T : l[1] = m[1] => l = m
  BY <1>3, <1>4
<1>9. \A k \in K : \E m \in T : m[1] = k
  BY <1>5, <1>6
<1> HIDE DEF n, T, K
<1>10. PICK key \in [1..n -> K] :
          /\ \A k \in K : \E p \in 1..n : key[p] = k
          /\ \A p, q \in 1..n : p < q => R(key[p]) < R(key[q])
  BY <1>2, KeysInOrder
<1> DEFINE w == [p \in 1..n |-> CHOOSE m \in T : m[1] = key[p]]
<1>11. \A p \in 1..n : w[p] \in T /\ w[p][1] = key[p]
  BY <1>9, <1>10
<1>12. w \in [1..n -> T]
  BY <1>11
<1> HIDE DEF w
<1>13. \A m \in T : \E p \in 1..n : w[p] = m
  BY <1>7, <1>8, <1>10, <1>11
<1>14. Range(w) = T
  BY <1>11, <1>12, <1>13 DEF Range
<1>15. \A i, j \in 1..n : i < j => R(w[i][1]) < R(w[j][1])
  BY <1>10, <1>11
<1>16. \E u \in [1..n -> T] : /\ Range(u) = T
                             /\ \A i, j \in 1..n : i < j => R(u[i][1]) < R(u[j][1])
  BY <1>12, <1>14, <1>15
<1>17. /\ MembersInOrder(Utf8Order, T, n) \in [1..n -> T]
       /\ Range(MembersInOrder(Utf8Order, T, n)) = T
  BY <1>16, Zenon DEF MembersInOrder
<1> QED
  BY <1>17 DEF n, T

\* The normal form of an object that has one holds the same members.
LEMMA NormalObjectIs ==
    ASSUME NEW c, NEW M, \A m \in M : m[1] \in Keys, NEW s \in Seq(M),
           NormalObject(c, s) # Rejected
    PROVE  \E w \in Seq(M) :
              NormalObject(c, s) = Members(w) /\ Range(w) = Range(s) /\ Len(w) = Len(s)
<1> DEFINE w == MembersInOrder(Utf8Order, Range(s), Len(s))
<1>1. Order(c) = Utf8Order
  BY DEF Order, TypeScriptOrder
<1>2. /\ Cardinality({s[i][1] : i \in DOMAIN s}) = Len(s)
      /\ NormalObject(c, s) = Members(w)
  BY <1>1 DEF NormalObject, Sorted
<1>3. w \in [1..Len(s) -> Range(s)] /\ Range(w) = Range(s)
  BY <1>2, Sorting
<1>4. Range(s) \subseteq M /\ Len(s) \in Nat
  BY DEF Range
<1> DEFINE n == Len(s)
<1> HIDE DEF w, n
<1>5. w \in [1..n -> M] /\ n \in Nat
  BY <1>3, <1>4 DEF n
<1>6. w \in Seq(M) /\ Len(w) = n
  BY <1>5
<1> QED
  BY <1>2, <1>3, <1>6 DEF n

\* The normal form of an object depends on its members, and not on their order.
LEMMA OrderIsImmaterial ==
    ASSUME NEW c, NEW s, NEW t, Range(s) = Range(t), Len(s) = Len(t)
    PROVE  NormalObject(c, s) = NormalObject(c, t)
<1>1. {s[i][1] : i \in DOMAIN s} = {m[1] : m \in Range(s)}
  BY DEF Range
<1>2. {t[i][1] : i \in DOMAIN t} = {m[1] : m \in Range(t)}
  BY DEF Range
<1>3. (\E i \in DOMAIN s : Rejected \in {s[i][1], s[i][2]})
        <=> \E m \in Range(s) : Rejected \in {m[1], m[2]}
  BY DEF Range
<1>4. (\E i \in DOMAIN t : Rejected \in {t[i][1], t[i][2]})
        <=> \E m \in Range(t) : Rejected \in {m[1], m[2]}
  BY DEF Range
<1>5. Sorted(c, s) = Sorted(c, t)
  BY <1>1, <1>2, Zenon DEF Sorted
<1> QED
  BY <1>3, <1>4, <1>5 DEF NormalObject

-----------------------------------------------------------------------------
(* Canonical forms: texts read again *)

\* Normalizing what is in normal form changes nothing; only Go refuses, as values,
\* texts that others make.
LEMMA TextsReadAgain ==
    ASSUME NEW t \in Texts, NEW c \in Canonicalizers, NEW d \in Canonicalizers
    PROVE  /\ ReadText(t)[c] \in {Text(NFC(t)), Rejected}
           /\ ReadKey(t)[c] \in {Text(NFC(t)), Rejected}
           /\ NFC(t) \in Texts
           /\ ReadText(t)[c] # Rejected =>
                \/ ReadText(NFC(t))[d] = ReadText(t)[d]
                \/ d = "go" /\ t \in {"shrinks", "grows"}
           /\ ReadKey(t)[c] # Rejected => ReadKey(NFC(t))[d] = ReadKey(t)[d]
<1>1. NFC(NFC(t)) = NFC(t)
  BY NormalFormsOfTexts
<1>2. NFC(t) \in {"", "separator", "surrogate"} <=> t \in {"", "separator", "surrogate"}
  BY NormalFormsOfTexts
<1>3. t \notin {"shrinks", "grows"} =>
        (NFC(t) \in Prohibited \cup TooLong <=> t \in Prohibited \cup TooLong)
  BY NormalFormsOfTexts DEF Prohibited, TooLong
<1>4. NFC(t) \in {"separator", "surrogate"} <=> t \in {"separator", "surrogate"}
  BY NormalFormsOfTexts
<1>5. NFC(t) = "" <=> t = ""
  BY NormalFormsOfTexts
<1>6. \A e \in Canonicalizers : e \in {"python", "go", "typescript", "dotnet", "stdlib"}
  BY DEF Canonicalizers
<1>7. /\ PythonText(NFC(t)) = PythonText(t) /\ TypeScriptText(NFC(t)) = TypeScriptText(t)
      /\ DotNetText(NFC(t)) = DotNetText(t) /\ StdlibText(NFC(t)) = StdlibText(t)
      /\ GoKey(NFC(t)) = GoKey(t)
      /\ t \notin {"shrinks", "grows"} => GoText(NFC(t)) = GoText(t)
  BY <1>1, <1>3, <1>4, <1>5
     DEF PythonText, GoText, GoKey, TypeScriptText, DotNetText, StdlibText, Admitted
<1>8. \A e \in Canonicalizers :
         /\ ReadText(NFC(t))[e] = ReadText(t)[e] \/ (e = "go" /\ t \in {"shrinks", "grows"})
         /\ ReadKey(NFC(t))[e] = ReadKey(t)[e]
  BY <1>6, <1>7, Readers
<1>9. /\ {PythonText(t), GoText(t), GoKey(t), TypeScriptText(t), DotNetText(t), StdlibText(t)}
            \subseteq {Text(NFC(t)), Rejected}
  BY DEF PythonText, GoText, GoKey, TypeScriptText, DotNetText, StdlibText
<1>10. /\ ReadText(t)[c] \in {Text(NFC(t)), Rejected}
       /\ ReadKey(t)[c] \in {Text(NFC(t)), Rejected}
  BY <1>6, <1>9, Readers
<1> QED
  BY <1>8, <1>10, NormalFormsOfTexts

\* The other spelling of a text is read alike.
LEMMA OtherSpellings ==
    ASSUME NEW t \in Texts
    PROVE  \E u \in Texts :
              /\ OtherSpelling(Text(t)) = Text(u)
              /\ \A c \in Canonicalizers : ReadText(u)[c] = ReadText(t)[c]
                                           /\ ReadKey(u)[c] = ReadKey(t)[c]
<1> DEFINE u == IF t = "nfd" THEN "nfc" ELSE IF t = "nfc" THEN "nfd" ELSE t
<1>1. \A text : OtherSpelling(text) = IF text = Text("nfd") THEN Text("nfc")
                                      ELSE IF text = Text("nfc") THEN Text("nfd") ELSE text
  BY TextsAreTagged, Zenon DEF OtherSpelling
<1>2. OtherSpelling(Text(t)) = Text(u)
  BY <1>1, TextsAreTagged
<1>3. u \in Texts
  BY NormalFormsOfTexts
<1>4. NFC(u) = NFC(t) /\ (u = "" <=> t = "")
      /\ (u \in Prohibited \cup TooLong <=> t \in Prohibited \cup TooLong)
      /\ (u \in {"separator", "surrogate"} <=> t \in {"separator", "surrogate"})
  BY NormalFormsOfTexts DEF Prohibited, TooLong
<1> HIDE DEF u
<1>5. /\ PythonText(u) = PythonText(t) /\ GoText(u) = GoText(t) /\ GoKey(u) = GoKey(t)
      /\ TypeScriptText(u) = TypeScriptText(t) /\ DotNetText(u) = DotNetText(t)
      /\ StdlibText(u) = StdlibText(t)
  BY <1>4 DEF PythonText, GoText, GoKey, TypeScriptText, DotNetText, StdlibText, Admitted
<1>6. \A c \in Canonicalizers : c \in {"python", "go", "typescript", "dotnet", "stdlib"}
  BY DEF Canonicalizers
<1>7. \A c \in Canonicalizers :
         ReadText(u)[c] = ReadText(t)[c] /\ ReadKey(u)[c] = ReadKey(t)[c]
  BY <1>5, <1>6, Readers
<1> QED
  BY <1>2, <1>3, <1>7

-----------------------------------------------------------------------------
(* Canonical forms: equal values *)

\* Values of the next level: texts, arrays and objects.
LEMMA MakingValues ==
    ASSUME NEW n \in Nat
    PROVE  /\ \A t \in Texts : Text(t) \in JsonUpTo[n + 1]
           /\ \A s \in Seq(JsonUpTo[n]) : Array(s) \in JsonUpTo[n + 1]
           /\ \A s \in Seq(Keys \X JsonUpTo[n]) : Members(s) \in JsonUpTo[n + 1]
<1>1. JsonUpTo[n + 1] = Over(JsonUpTo[n])
  BY Levels
<1>2. \A t \in Texts : Text(t) \in Scalars
  BY DEF Scalars, Keys
<1> QED
  BY <1>1, <1>2 DEF Over, Array, Members

\* The items of arrays and objects.
LEMMA ContainersHold ==
    ASSUME NEW n \in Nat, NEW v \in JsonUpTo[n + 1]
    PROVE  /\ v[1] = "array" => /\ v[2] \in Seq(JsonUpTo[n])
                                /\ \A i \in DOMAIN v[2] : v[2][i] \in Items(v)
           /\ v[1] = "members" => /\ v[2] \in Seq(Keys \X JsonUpTo[n])
                                  /\ \A i \in DOMAIN v[2] : v[2][i][2] \in Items(v)
<1>1. v[1] = "array" => v[2] \in Seq(JsonUpTo[n])
  BY ValueIs, Types
<1>2. v[1] = "members" => v[2] \in Seq(Keys \X JsonUpTo[n])
  BY ValueIs, Types
<1>3. v[1] = "array" => Items(v) = {v[2][i] : i \in DOMAIN v[2]}
  BY ItemsAre
<1>4. v[1] = "members" => Items(v) = {v[2][i][2] : i \in DOMAIN v[2]}
  BY ItemsAre
<1> QED
  BY <1>1, <1>2, <1>3, <1>4

\* Texts that are read alike have the same normal form.
LEMMA TextsAlike ==
    ASSUME NEW n \in Nat, NEW t \in Texts, NEW u \in Texts,
           NEW d \in Canonicalizers, NEW e \in Nat, ReadText(u)[d] = ReadText(t)[d]
    PROVE  Normalize[n + 1][d][e][Text(u)] = Normalize[n + 1][d][e][Text(t)]
<1>1. Text(u) \in JsonUpTo[n + 1] /\ Text(t) \in JsonUpTo[n + 1]
  BY MakingValues
<1>2. \A x, normal : NormalValue(d, Text(x), normal) = ReadText(x)[d]
  <2> SUFFICES ASSUME NEW x, NEW normal
               PROVE  NormalValue(d, Text(x), normal) = ReadText(x)[d]
    OBVIOUS
  <2>1. Text(x)[1] = "text" /\ Text(x)[2] = x
    BY Types
  <2> QED
    BY <2>1, Zenon DEF NormalValue
<1>3. WithinBounds(d, Text(u), e) <=> WithinBounds(d, Text(t), e)
  BY Types DEF WithinBounds
<1> QED
  BY <1>1, <1>2, <1>3, NormalFormIs

ItemsAlike(n, d, e, s, q) ==
    \A i \in DOMAIN s : Normalize[n][d][e][s[i]] = Normalize[n][d][e][q[i]]

MembersAlike(n, d, e, s, q) ==
    \A i \in DOMAIN s : /\ ReadKey(s[i][1][2])[d] = ReadKey(q[i][1][2])[d]
                        /\ Normalize[n][d][e][s[i][2]] = Normalize[n][d][e][q[i][2]]

\* v is an array, and the items s are alike its own.
SameItems(n, d, e, s, v) ==
    /\ v \in JsonUpTo[n + 1] /\ v[1] = "array"
    /\ s \in Seq(JsonUpTo[n]) /\ Len(s) = Len(v[2])
    /\ ItemsAlike(n, d, e + 1, s, v[2])

\* v is an object, and the members u are, in some order, members alike its own.
SameMembers(n, d, e, u, v) ==
    /\ v \in JsonUpTo[n + 1] /\ v[1] = "members"
    /\ u \in Seq(Keys \X JsonUpTo[n])
    /\ \E s \in Seq(Keys \X JsonUpTo[n]) :
          /\ Len(s) = Len(v[2]) /\ Len(u) = Len(s) /\ Range(u) = Range(s)
          /\ MembersAlike(n, d, e + 1, s, v[2])

\* A value w of one level more has the normal form of v.
SameForm(n, d, e, w, v) == Normalize[n + 1][d][e][w] = Normalize[n + 1][d][e][v]

\* Arrays whose items have the same normal forms have the same normal form.
LEMMA ArraysAlike ==
    ASSUME NEW n \in Nat, NEW d \in Canonicalizers, NEW e \in Nat,
           NEW s, NEW v, SameItems(n, d, e, s, v)
    PROVE  SameForm(n, d, e, Array(s), v)
<1>1. /\ v \in JsonUpTo[n + 1] /\ v[1] = "array"
      /\ s \in Seq(JsonUpTo[n]) /\ Len(s) = Len(v[2])
      /\ ItemsAlike(n, d, e + 1, s, v[2])
  BY DEF SameItems
<1> DEFINE h == Normalize[n][d][e + 1]
           w == Array(s)
<1>2. w \in JsonUpTo[n + 1] /\ w[1] = "array" /\ w[2] = s
  BY <1>1, MakingValues, Types
<1>3. v[2] \in Seq(JsonUpTo[n])
  BY <1>1, ContainersHold
<1>4. [i \in DOMAIN s |-> h[s[i]]] = [i \in DOMAIN v[2] |-> h[v[2][i]]]
  <2>1. DOMAIN s = DOMAIN v[2]
    BY <1>1, <1>3
  <2>2. \A i \in DOMAIN s : h[s[i]] = h[v[2][i]]
    BY <1>1 DEF ItemsAlike
  <2> HIDE DEF h
  <2> QED
    BY <2>1, <2>2
<1>5. WithinBounds(d, w, e) <=> WithinBounds(d, v, e)
  BY <1>1, <1>2 DEF WithinBounds
<1> HIDE DEF w, h
<1>6. NormalValue(d, w, h) = NormalArray([i \in DOMAIN s |-> h[s[i]]])
  <2>1. NormalValue(d, w, h) = NormalArray([i \in DOMAIN w[2] |-> h[w[2][i]]])
    BY <1>2, Zenon DEF NormalValue
  <2> QED
    BY <1>2, <2>1
<1>7. NormalValue(d, v, h) = NormalArray([i \in DOMAIN v[2] |-> h[v[2][i]]])
  BY <1>1, Zenon DEF NormalValue
<1>8. NormalValue(d, w, h) = NormalValue(d, v, h)
  BY <1>4, <1>6, <1>7
<1> QED
  BY <1>1, <1>2, <1>5, <1>8, NormalFormIs DEF w, h, SameForm

\* Objects with the same members, but for the order, have the same normal form,
\* where members count as the same if their keys are read alike and their values
\* have the same normal form.
LEMMA ObjectsAlike ==
    ASSUME NEW n \in Nat, NEW d \in Canonicalizers, NEW e \in Nat,
           NEW u, NEW v, SameMembers(n, d, e, u, v)
    PROVE  SameForm(n, d, e, Members(u), v)
<1>1. v \in JsonUpTo[n + 1] /\ v[1] = "members"
  BY DEF SameMembers
<1>2. PICK s \in Seq(Keys \X JsonUpTo[n]) :
         /\ Len(s) = Len(v[2]) /\ Len(u) = Len(s) /\ Range(u) = Range(s)
         /\ MembersAlike(n, d, e + 1, s, v[2])
  BY DEF SameMembers
<1> DEFINE h == Normalize[n][d][e + 1]
           w == Members(u)
           F(m) == <<ReadKey(m[1][2])[d], h[m[2]]>>
           su == [i \in DOMAIN u |-> F(u[i])]
           sv == [i \in DOMAIN v[2] |-> F(v[2][i])]
<1>3. w \in JsonUpTo[n + 1] /\ w[1] = "members" /\ w[2] = u
  BY MakingValues, Types DEF SameMembers
<1>4. v[2] \in Seq(Keys \X JsonUpTo[n])
  BY <1>1, ContainersHold
<1>5. DOMAIN s = DOMAIN v[2] /\ DOMAIN u = DOMAIN s
  BY <1>2, <1>4 DEF SameMembers
<1>6. \A i \in DOMAIN s : F(s[i]) = F(v[2][i])
  BY <1>2 DEF MembersAlike
<1>7. WithinBounds(d, w, e) <=> WithinBounds(d, v, e)
  BY <1>1, <1>3, <1>2 DEF WithinBounds
<1>8. NormalValue(d, w, h) = NormalObject(d, su)
  <2>1. NormalValue(d, w, h) =
          NormalObject(d, [i \in DOMAIN w[2] |-> <<ReadKey(w[2][i][1][2])[d], h[w[2][i][2]]>>])
    <3> HIDE DEF w, h
    <3> QED
      BY <1>3, Zenon DEF NormalValue
  <2> HIDE DEF w, h
  <2> QED
    BY <1>3, <2>1
<1>9. NormalValue(d, v, h) = NormalObject(d, sv)
  <2> HIDE DEF h
  <2> QED
    BY <1>1, Zenon DEF NormalValue
<1> HIDE DEF h, w, F
<1>10. Range(su) = Range(sv) /\ Len(su) = Len(sv)
  <2>1. Range(su) = {F(m) : m \in Range(u)}
    BY DEF Range
  <2>2. Range(sv) = {F(m) : m \in Range(s)}
    <3>1. Range(sv) = {F(v[2][i]) : i \in DOMAIN v[2]}
      BY DEF Range
    <3>2. {F(v[2][i]) : i \in DOMAIN v[2]} = {F(s[i]) : i \in DOMAIN s}
      BY <1>5, <1>6
    <3>3. {F(m) : m \in Range(s)} = {F(s[i]) : i \in DOMAIN s}
      BY DEF Range
    <3> QED
      BY <3>1, <3>2, <3>3
  <2>3. Len(su) = Len(u) /\ Len(sv) = Len(v[2])
    BY <1>4 DEF SameMembers
  <2> QED
    BY <1>2, <2>1, <2>2, <2>3
<1> HIDE DEF su, sv
<1>11. NormalValue(d, w, h) = NormalValue(d, v, h)
  BY <1>8, <1>9, <1>10, OrderIsImmaterial
<1> QED
  BY <1>1, <1>3, <1>7, <1>11, NormalFormIs DEF w, h, SameForm

Resizing == {"shrinks", "grows"}

\* All canonicalizers make of w what they make of v; Go need not if a text occurs
\* in v that changes its length.
AlikeAt(n, v, w) ==
    \A d \in Canonicalizers, e \in Nat :
        \/ Normalize[n][d][e][w] = Normalize[n][d][e][v]
        \/ d = "go" /\ OccursIn(n, Resizing, v)

-----------------------------------------------------------------------------
(* Canonical forms: canonicalizing what was canonicalized *)

\* What a canonicalizer makes of a value is a value itself, and canonicalizing it
\* changes nothing.
RereadAt(n) ==
    \A v \in JsonUpTo[n], c \in Canonicalizers, depth \in Nat :
        Normalize[n][c][depth][v] # Rejected =>
            /\ Normalize[n][c][depth][v] \in JsonUpTo[n]
            /\ AlikeAt(n, v, Normalize[n][c][depth][v])

\* A null and a boolean are in normal form, a number has none; none has another
\* spelling.
LEMMA ScalarsAreNormal ==
    ASSUME NEW n \in Nat, NEW v \in JsonUpTo[n + 1], v[1] \notin {"text", "array", "members"},
           NEW c \in Canonicalizers, NEW normal
    PROVE  /\ NormalValue(c, v, normal) \in {v, Rejected}
           /\ \A other : OtherValue(v, other) = v
<1>1. \A t : v # Text(t)
  BY Types
<1>2. v \in {Null, Other} \cup {Bool(b) : b \in BOOLEAN}
  BY <1>1, ValueIs, Zenon
<1>3. v[1] \in {"null", "boolean", "other"}
  BY <1>2, Types
<1>4. NormalValue(c, v, normal) \in {v, Rejected}
  <2>1. NormalValue(c, v, normal) = v \/ NormalValue(c, v, normal) = Rejected
    BY <1>3, Zenon DEF NormalValue
  <2> QED
    BY <2>1
<1>5. OtherSpelling(v) = v
  BY <1>1, Zenon DEF OtherSpelling
<1>6. ASSUME NEW other
      PROVE  OtherValue(v, other) = v
  BY <1>3, <1>5, Zenon DEF OtherValue
<1> QED
  BY <1>4, <1>6

\* What is made of a sequence item by item is a sequence of the same length.
LEMMA ItemByItem ==
    ASSUME NEW X, NEW Y, NEW q \in Seq(X), NEW s \in [DOMAIN q -> Y]
    PROVE  s \in Seq(Y) /\ Len(s) = Len(q) /\ DOMAIN s = DOMAIN q
<1> DEFINE n == Len(q)
<1>1. n \in Nat /\ DOMAIN q = 1..n
  OBVIOUS
<1> HIDE DEF n
<1>2. s \in [1..n -> Y]
  BY <1>1
<1>3. s \in Seq(Y) /\ Len(s) = n
  BY <1>1, <1>2
<1> QED
  BY <1>1, <1>2, <1>3 DEF n

\* If canonicalizing the normal forms of the items of a value changes nothing, neither
\* does canonicalizing the normal form of the value.
LEMMA RereadStep ==
    ASSUME NEW n \in Nat, RereadAt(n), NEW v \in JsonUpTo[n + 1], NEW c \in Canonicalizers,
           NEW depth \in Nat, Normalize[n + 1][c][depth][v] # Rejected
    PROVE  /\ Normalize[n + 1][c][depth][v] \in JsonUpTo[n + 1]
           /\ AlikeAt(n + 1, v, Normalize[n + 1][c][depth][v])
<1> DEFINE g == Normalize[n][c][depth + 1]
           w == Normalize[n + 1][c][depth][v]
<1>1. w = NormalValue(c, v, g) /\ w # Rejected
  BY NormalFormIs
<1>2. ASSUME NEW item \in Items(v), g[item] # Rejected
      PROVE  item \in JsonUpTo[n] /\ g[item] \in JsonUpTo[n] /\ AlikeAt(n, item, g[item])
  <2>1. item \in JsonUpTo[n] /\ depth + 1 \in Nat
    BY ItemsAre
  <2> QED
    BY <1>2, <2>1 DEF RereadAt
<1>3. ASSUME NEW item \in Items(v), g[item] # Rejected, v[1] \in {"array", "members"},
             NEW d \in Canonicalizers, NEW e \in Nat,
             ~(d = "go" /\ OccursIn(n + 1, Resizing, v))
      PROVE  Normalize[n][d][e + 1][g[item]] = Normalize[n][d][e + 1][item]
  <2>1. OccursIn(n, Resizing, item) => OccursIn(n + 1, Resizing, v)
    BY <1>3, Occurrences
  <2>2. e + 1 \in Nat
    OBVIOUS
  <2> HIDE DEF g
  <2> QED
    BY <1>2, <1>3, <2>1, <2>2 DEF AlikeAt
<1> HIDE DEF g
<1>4. CASE v[1] \notin {"text", "array", "members"}
  <2>1. w = v
    BY <1>1, <1>4, ScalarsAreNormal
  <2> HIDE DEF w
  <2> QED
    BY <2>1 DEF w, AlikeAt
<1>5. CASE v[1] = "text"
  <2>1. PICK t \in Texts : v = Text(t)
    BY <1>5, ValueIs, Types
  <2>2. v[2] = t
    BY <2>1, Types
  <2>3. w = ReadText(t)[c]
    <3>1. NormalValue(c, v, g) = ReadText(v[2])[c]
      BY <1>5, Zenon DEF NormalValue
    <3> QED
      BY <1>1, <2>2, <3>1
  <2> HIDE DEF w
  <2>4. w = Text(NFC(t)) /\ NFC(t) \in Texts
    BY <1>1, <2>3, TextsReadAgain
  <2>5. ASSUME NEW d \in Canonicalizers, NEW e \in Nat
        PROVE  \/ Normalize[n + 1][d][e][w] = Normalize[n + 1][d][e][v]
               \/ d = "go" /\ OccursIn(n + 1, Resizing, v)
    <3>1. ReadText(NFC(t))[d] = ReadText(t)[d] \/ (d = "go" /\ t \in Resizing)
      BY <1>1, <2>3, TextsReadAgain DEF Resizing
    <3>2. OccursIn(n + 1, Resizing, v) <=> t \in Resizing
      BY <1>5, <2>2, Occurrences
    <3>3. CASE ReadText(NFC(t))[d] = ReadText(t)[d]
      BY <2>1, <2>4, <3>3, TextsAlike
    <3> QED
      BY <3>1, <3>2, <3>3
  <2> QED
    BY <2>4, <2>5, MakingValues DEF w, AlikeAt
<1>6. CASE v[1] = "array"
  <2> DEFINE s == [i \in DOMAIN v[2] |-> g[v[2][i]]]
  <2>1. w = NormalArray(s)
    BY <1>1, <1>6, Zenon DEF NormalValue
  <2>2. v[2] \in Seq(JsonUpTo[n]) /\ \A i \in DOMAIN v[2] : v[2][i] \in Items(v)
    BY <1>6, ContainersHold
  <2>3. \A i \in DOMAIN s : s[i] # Rejected
    <3> HIDE DEF s, w
    <3> QED
      BY <1>1, <2>1, ContainersAreWhole
  <2>4. w = Array(s)
    <3>1. Rejected \notin Range(s)
      <4> HIDE DEF s
      <4> QED
        BY <2>3 DEF Range
    <3> HIDE DEF s, w
    <3> QED
      BY <2>1, <3>1 DEF NormalArray
  <2> HIDE DEF w
  <2>5. s \in Seq(JsonUpTo[n]) /\ Len(s) = Len(v[2]) /\ DOMAIN s = DOMAIN v[2]
    <3>1. \A i \in DOMAIN v[2] : s[i] \in JsonUpTo[n]
      BY <1>2, <2>2, <2>3
    <3>2. s \in [DOMAIN v[2] -> JsonUpTo[n]]
      BY <3>1
    <3> HIDE DEF s
    <3> QED
      BY <2>2, <3>2, ItemByItem
  <2>6. ASSUME NEW d \in Canonicalizers, NEW e \in Nat,
               ~(d = "go" /\ OccursIn(n + 1, Resizing, v))
        PROVE  Normalize[n + 1][d][e][w] = Normalize[n + 1][d][e][v]
    <3>1. ItemsAlike(n, d, e + 1, s, v[2])
      BY <1>3, <1>6, <2>2, <2>3, <2>6 DEF ItemsAlike
    <3> HIDE DEF s
    <3>2. Normalize[n + 1][d][e][Array(s)] = Normalize[n + 1][d][e][v]
      <4>1. SameItems(n, d, e, s, v)
        BY <1>6, <2>5, <3>1 DEF SameItems
      <4>2. SameForm(n, d, e, Array(s), v)
        BY <4>1, ArraysAlike
      <4> QED
        BY <4>2 DEF SameForm
    <3> QED
      BY <2>4, <3>2
  <2> HIDE DEF s
  <2>7. w \in JsonUpTo[n + 1]
    BY <2>4, <2>5, MakingValues
  <2> QED
    BY <2>6, <2>7 DEF w, AlikeAt
<1>7. CASE v[1] = "members"
  <2> DEFINE s == [i \in DOMAIN v[2] |-> <<ReadKey(v[2][i][1][2])[c], g[v[2][i][2]]>>]
  <2>1. w = NormalObject(c, s)
    BY <1>1, <1>7, Zenon DEF NormalValue
  <2>2. v[2] \in Seq(Keys \X JsonUpTo[n]) /\ \A i \in DOMAIN v[2] : v[2][i][2] \in Items(v)
    BY <1>7, ContainersHold
  <2>3. \A i \in DOMAIN s : s[i][1] # Rejected /\ s[i][2] # Rejected
    <3> HIDE DEF s, w
    <3> QED
      BY <1>1, <2>1, ContainersAreWhole
  <2>4. ASSUME NEW i \in DOMAIN v[2]
        PROVE  /\ s[i][1] \in Keys
               /\ \A d \in Canonicalizers :
                     ReadKey(s[i][1][2])[d] = ReadKey(v[2][i][1][2])[d]
    <3>1. PICK t \in Texts : v[2][i][1] = Text(t)
      BY <2>2 DEF Keys
    <3>2. s[i][1] = ReadKey(t)[c]
      BY <3>1, Types
    <3>3. ReadKey(t)[c] # Rejected
      BY <2>3, <3>2
    <3>4. ReadKey(t)[c] = Text(NFC(t)) /\ NFC(t) \in Texts
      BY <3>3, TextsReadAgain
    <3>5. \A d \in Canonicalizers : ReadKey(NFC(t))[d] = ReadKey(t)[d]
      BY <3>3, TextsReadAgain
    <3>6. s[i][1][2] = NFC(t) /\ v[2][i][1][2] = t
      <4> HIDE DEF s
      <4> QED
        BY <3>1, <3>2, <3>4, Types
    <3> HIDE DEF s
    <3> QED
      BY <3>2, <3>4, <3>5, <3>6 DEF Keys
  <2>5. ASSUME NEW i \in DOMAIN v[2]
        PROVE  g[v[2][i][2]] # Rejected /\ s[i][2] = g[v[2][i][2]] /\ s[i][2] \in JsonUpTo[n]
    BY <1>2, <2>2, <2>3
  <2>6. s \in Seq(Keys \X JsonUpTo[n]) /\ Len(s) = Len(v[2]) /\ DOMAIN s = DOMAIN v[2]
    <3>1. \A i \in DOMAIN v[2] : s[i] \in Keys \X JsonUpTo[n]
      BY <2>4, <2>5
    <3>2. s \in [DOMAIN v[2] -> Keys \X JsonUpTo[n]]
      BY <3>1
    <3> HIDE DEF s
    <3> QED
      BY <2>2, <3>2, ItemByItem
  <2> HIDE DEF w, s
  <2>7. PICK u \in Seq(Keys \X JsonUpTo[n]) :
           w = Members(u) /\ Range(u) = Range(s) /\ Len(u) = Len(s)
    <3>1. NormalObject(c, s) # Rejected /\ s \in Seq(Keys \X JsonUpTo[n])
      BY <1>1, <2>1, <2>6
    <3>2. \E u \in Seq(Keys \X JsonUpTo[n]) :
             NormalObject(c, s) = Members(u) /\ Range(u) = Range(s) /\ Len(u) = Len(s)
      <4> DEFINE M == Keys \X JsonUpTo[n]
      <4>1. \A m \in M : m[1] \in Keys
        OBVIOUS
      <4>2. s \in Seq(M)
        BY <3>1
      <4> HIDE DEF M
      <4>3. \E u \in Seq(M) :
               NormalObject(c, s) = Members(u) /\ Range(u) = Range(s) /\ Len(u) = Len(s)
        BY <3>1, <4>1, <4>2, NormalObjectIs
      <4> QED
        BY <4>3 DEF M
    <3> QED
      BY <2>1, <3>2
  <2>8. ASSUME NEW d \in Canonicalizers, NEW e \in Nat,
               ~(d = "go" /\ OccursIn(n + 1, Resizing, v))
        PROVE  Normalize[n + 1][d][e][w] = Normalize[n + 1][d][e][v]
    <3>1. \A i \in DOMAIN s :
             Normalize[n][d][e + 1][s[i][2]] = Normalize[n][d][e + 1][v[2][i][2]]
      <4> SUFFICES ASSUME NEW i \in DOMAIN v[2]
                   PROVE  Normalize[n][d][e + 1][s[i][2]] = Normalize[n][d][e + 1][v[2][i][2]]
        BY <2>6, Zenon
      <4>1. v[2][i][2] \in Items(v) /\ g[v[2][i][2]] # Rejected /\ s[i][2] = g[v[2][i][2]]
        BY <2>2, <2>5
      <4>2. Normalize[n][d][e + 1][g[v[2][i][2]]] = Normalize[n][d][e + 1][v[2][i][2]]
        BY <1>3, <1>7, <2>8, <4>1
      <4> QED
        BY <4>1, <4>2, Zenon
    <3>2. MembersAlike(n, d, e + 1, s, v[2])
      BY <2>4, <2>6, <3>1, Zenon DEF MembersAlike
    <3>3. Normalize[n + 1][d][e][Members(u)] = Normalize[n + 1][d][e][v]
      <4>1. SameMembers(n, d, e, u, v)
        BY <1>7, <2>6, <2>7, <3>2 DEF SameMembers
      <4>2. SameForm(n, d, e, Members(u), v)
        BY <4>1, ObjectsAlike
      <4> QED
        BY <4>2 DEF SameForm
    <3> QED
      BY <2>7, <3>3
  <2>9. w \in JsonUpTo[n + 1]
    BY <2>7, MakingValues
  <2> QED
    BY <2>8, <2>9 DEF w, AlikeAt
<1> QED
  BY <1>4, <1>5, <1>6, <1>7

\* So it changes nothing, for every value.
LEMMA Rereading == \A n \in Nat : RereadAt(n)
<1> DEFINE S == {n \in Nat : RereadAt(n)}
<1>1. 0 \in S
  BY Levels DEF RereadAt
<1>2. ASSUME NEW n \in Nat, n \in S
      PROVE  n + 1 \in S
  <2>1. RereadAt(n)
    BY <1>2
  <2>2. RereadAt(n + 1)
    BY <2>1, RereadStep DEF RereadAt
  <2> QED
    BY <2>2
<1> HIDE DEF S
<1>3. \A n \in Nat : n \in S
  BY <1>1, <1>2, Induction
<1> QED
  BY <1>3 DEF S

-----------------------------------------------------------------------------
(* Canonical forms: another producer's spelling *)

\* Another producer's spelling of a value is a value with the same normal form.
RespelledAt(n) ==
    \A v \in JsonUpTo[n] :
        /\ Respelled[n][v] \in JsonUpTo[n]
        /\ \A d \in Canonicalizers, e \in Nat :
              Normalize[n][d][e][Respelled[n][v]] = Normalize[n][d][e][v]

\* Reversing a sequence loses nothing.
LEMMA Reversed ==
    ASSUME NEW X, NEW q \in Seq(X)
    PROVE  /\ Reverse(q) \in Seq(X) /\ Len(Reverse(q)) = Len(q)
           /\ Range(Reverse(q)) = Range(q)
<1> DEFINE n == Len(q)
           r == Reverse(q)
<1>1. n \in Nat /\ DOMAIN q = 1..n /\ \A i \in 1..n : q[i] \in X
  OBVIOUS
<1>2. r = [i \in 1..n |-> q[(n - i) + 1]]
  BY DEF Reverse
<1> HIDE DEF n, r
<1>3. \A i \in 1..n : (n - i) + 1 \in 1..n /\ (n - ((n - i) + 1)) + 1 = i
  BY <1>1
<1>4. DOMAIN r = 1..n /\ \A i \in 1..n : r[i] = q[(n - i) + 1] /\ r[i] \in X
  BY <1>1, <1>2, <1>3
<1>5. r \in [1..n -> X]
  BY <1>2, <1>4
<1>6. r \in Seq(X) /\ Len(r) = n
  BY <1>1, <1>5
<1>7. Range(r) = Range(q)
  <2>1. \A i \in 1..n : \E j \in 1..n : r[i] = q[j]
    BY <1>3, <1>4
  <2>2. \A i \in 1..n : \E j \in 1..n : q[i] = r[j]
    BY <1>3, <1>4
  <2>3. Range(r) = {r[i] : i \in 1..n} /\ Range(q) = {q[i] : i \in 1..n}
    BY <1>1, <1>4 DEF Range
  <2> QED
    BY <2>1, <2>2, <2>3
<1> QED
  BY <1>6, <1>7 DEF n, r

\* If respelling the items of a value leaves their normal forms as they were, so does
\* respelling the value.
LEMMA RespellingStep ==
    ASSUME NEW n \in Nat, RespelledAt(n), NEW v \in JsonUpTo[n + 1]
    PROVE  /\ Respelled[n + 1][v] \in JsonUpTo[n + 1]
           /\ \A d \in Canonicalizers, e \in Nat :
                 Normalize[n + 1][d][e][Respelled[n + 1][v]] = Normalize[n + 1][d][e][v]
<1> DEFINE g == Respelled[n]
           w == Respelled[n + 1][v]
<1>1. w = OtherValue(v, g)
  BY RespelledIs
<1>2. ASSUME NEW item \in Items(v)
      PROVE  /\ g[item] \in JsonUpTo[n]
             /\ \A d \in Canonicalizers, e \in Nat :
                   Normalize[n][d][e + 1][g[item]] = Normalize[n][d][e + 1][item]
  <2>1. item \in JsonUpTo[n]
    BY ItemsAre
  <2>2. \A e \in Nat : e + 1 \in Nat
    OBVIOUS
  <2> HIDE DEF g
  <2> QED
    BY <2>1, <2>2 DEF RespelledAt, g
<1> HIDE DEF g, w
<1> SUFFICES w \in JsonUpTo[n + 1] /\ \A d \in Canonicalizers, e \in Nat :
                 Normalize[n + 1][d][e][w] = Normalize[n + 1][d][e][v]
  BY DEF w
<1>3. CASE v[1] \notin {"text", "array", "members"}
  <2>1. "python" \in Canonicalizers
    BY DEF Canonicalizers
  <2>2. w = v
    BY <1>1, <1>3, <2>1, ScalarsAreNormal
  <2> QED
    BY <2>2
<1>4. CASE v[1] = "text"
  <2>1. PICK t \in Texts : v = Text(t)
    BY <1>4, ValueIs, Types
  <2>2. w = OtherSpelling(Text(t))
    <3>1. w = OtherSpelling(v)
      <4>1. v[1] # "array" /\ v[1] # "members"
        BY <1>4
      <4> QED
        BY <1>1, <4>1, Zenon DEF OtherValue
    <3> QED
      BY <2>1, <3>1
  <2>3. PICK u \in Texts : OtherSpelling(Text(t)) = Text(u)
                           /\ \A c \in Canonicalizers : ReadText(u)[c] = ReadText(t)[c]
    BY OtherSpellings
  <2>4. \A d \in Canonicalizers, e \in Nat :
           Normalize[n + 1][d][e][Text(u)] = Normalize[n + 1][d][e][Text(t)]
    BY <2>3, TextsAlike
  <2> QED
    BY <2>1, <2>2, <2>3, <2>4, MakingValues
<1>5. CASE v[1] = "array"
  <2> DEFINE s == [i \in DOMAIN v[2] |-> g[v[2][i]]]
  <2>1. w = Array(s)
    BY <1>1, <1>5, Zenon DEF OtherValue
  <2>2. v[2] \in Seq(JsonUpTo[n]) /\ \A i \in DOMAIN v[2] : v[2][i] \in Items(v)
    BY <1>5, ContainersHold
  <2>3. \A i \in DOMAIN v[2] : s[i] = g[v[2][i]] /\ s[i] \in JsonUpTo[n]
    BY <1>2, <2>2
  <2>4. s \in [DOMAIN v[2] -> JsonUpTo[n]]
    BY <2>3
  <2> HIDE DEF s
  <2>5. s \in Seq(JsonUpTo[n]) /\ Len(s) = Len(v[2]) /\ DOMAIN s = DOMAIN v[2]
    BY <2>2, <2>4, ItemByItem
  <2>6. ASSUME NEW d \in Canonicalizers, NEW e \in Nat
        PROVE  Normalize[n + 1][d][e][Array(s)] = Normalize[n + 1][d][e][v]
    <3>1. ItemsAlike(n, d, e + 1, s, v[2])
      BY <1>2, <2>2, <2>3, <2>5 DEF ItemsAlike
    <3>2. SameItems(n, d, e, s, v)
      BY <1>5, <2>5, <3>1 DEF SameItems
    <3>3. SameForm(n, d, e, Array(s), v)
      BY <3>2, ArraysAlike
    <3> QED
      BY <3>3 DEF SameForm
  <2> QED
    BY <2>1, <2>5, <2>6, MakingValues
<1>6. CASE v[1] = "members"
  <2> DEFINE s == [i \in DOMAIN v[2] |-> <<OtherSpelling(v[2][i][1]), g[v[2][i][2]]>>]
  <2>1. w = Members(Reverse(s))
    <3>1. v[1] # "array"
      BY <1>6
    <3> QED
      BY <1>1, <1>6, <3>1, Zenon DEF OtherValue
  <2>2. v[2] \in Seq(Keys \X JsonUpTo[n]) /\ \A i \in DOMAIN v[2] : v[2][i][2] \in Items(v)
    BY <1>6, ContainersHold
  <2>3. ASSUME NEW i \in DOMAIN v[2]
        PROVE  /\ s[i] \in Keys \X JsonUpTo[n] /\ s[i][2] = g[v[2][i][2]]
               /\ \A d \in Canonicalizers : ReadKey(s[i][1][2])[d] = ReadKey(v[2][i][1][2])[d]
    <3>1. PICK t \in Texts : v[2][i][1] = Text(t)
      BY <2>2 DEF Keys
    <3>2. PICK u \in Texts : OtherSpelling(Text(t)) = Text(u)
                             /\ \A c \in Canonicalizers : ReadKey(u)[c] = ReadKey(t)[c]
      BY OtherSpellings
    <3>3. s[i][1] = Text(u) /\ s[i][2] = g[v[2][i][2]] /\ s[i] = <<s[i][1], s[i][2]>>
      BY <3>1, <3>2
    <3>4. g[v[2][i][2]] \in JsonUpTo[n]
      BY <1>2, <2>2
    <3> HIDE DEF s
    <3>5. s[i][1] \in Keys /\ s[i][1][2] = u /\ v[2][i][1][2] = t
      BY <3>1, <3>3, Types DEF Keys
    <3> QED
      BY <3>2, <3>3, <3>4, <3>5
  <2>4. s \in [DOMAIN v[2] -> Keys \X JsonUpTo[n]]
    BY <2>3
  <2> HIDE DEF s
  <2>5. s \in Seq(Keys \X JsonUpTo[n]) /\ Len(s) = Len(v[2]) /\ DOMAIN s = DOMAIN v[2]
    BY <2>2, <2>4, ItemByItem
  <2> DEFINE u == Reverse(s)
  <2>6. u \in Seq(Keys \X JsonUpTo[n]) /\ Len(u) = Len(s) /\ Range(u) = Range(s)
    BY <2>5, Reversed
  <2> HIDE DEF u
  <2>7. ASSUME NEW d \in Canonicalizers, NEW e \in Nat
        PROVE  Normalize[n + 1][d][e][Members(u)] = Normalize[n + 1][d][e][v]
    <3>1. MembersAlike(n, d, e + 1, s, v[2])
      BY <1>2, <2>2, <2>3, <2>5 DEF MembersAlike
    <3>2. SameMembers(n, d, e, u, v)
      BY <1>6, <2>5, <2>6, <3>1 DEF SameMembers
    <3>3. SameForm(n, d, e, Members(u), v)
      BY <3>2, ObjectsAlike
    <3> QED
      BY <3>3 DEF SameForm
  <2>8. Members(u) \in JsonUpTo[n + 1]
    BY <2>6, MakingValues
  <2> QED
    BY <2>1, <2>7, <2>8 DEF u
<1> QED
  BY <1>3, <1>4, <1>5, <1>6

\* So it does for every value.
LEMMA Respelling == \A n \in Nat : RespelledAt(n)
<1> DEFINE S == {n \in Nat : RespelledAt(n)}
<1>1. 0 \in S
  BY Levels DEF RespelledAt
<1>2. ASSUME NEW n \in Nat, n \in S
      PROVE  n + 1 \in S
  <2>1. RespelledAt(n)
    BY <1>2
  <2>2. RespelledAt(n + 1)
    BY <2>1, RespellingStep DEF RespelledAt
  <2> QED
    BY <2>2
<1> HIDE DEF S
<1>3. \A n \in Nat : n \in S
  BY <1>1, <1>2, Induction
<1> QED
  BY <1>3 DEF S


-----------------------------------------------------------------------------
(* The canonicalizers over a value *)

\* The value as another producer spells it, and what the canonicalizers make of it.
EqualValues(v) == {Respelled[MaxNesting][v]} \cup {CanonicalForms(v)[c] : c \in Canonicalizers}

\* forms and again are what the canonicalizers make of the value and of an equal one.
ValuesInvariant ==
    /\ value \in JsonValues
    /\ \/ forms = NoForms /\ again = NoForms
       \/ /\ forms = CanonicalForms(value)
          /\ \/ again = NoForms
             \/ \E equal \in EqualValues(value) \ {Rejected} : again = CanonicalForms(equal)

\* It holds of a value that no canonicalizer was given.
LEMMA ValuesInvariantInit == ValueInit => ValuesInvariant
BY DEF ValueInit, ValuesInvariant

\* Every step keeps it.
LEMMA ValuesInvariantStep == ValuesInvariant /\ [ValueNext]_valueVars => ValuesInvariant'
<1> SUFFICES ASSUME ValuesInvariant, [ValueNext]_valueVars
             PROVE  ValuesInvariant'
  OBVIOUS
<1>1. CASE Canonicalize
  <2>1. forms = NoForms /\ forms' = CanonicalForms(value) /\ value' = value /\ again' = again
    BY <1>1 DEF Canonicalize
  <2>2. \/ again = NoForms
        \/ \E equal \in EqualValues(value) \ {Rejected} : again = CanonicalForms(equal)
    BY DEF ValuesInvariant
  <2> QED
    BY <2>1, <2>2 DEF ValuesInvariant
<1>2. ASSUME NEW equal \in {Respelled[MaxNesting][value]} \cup Range(forms),
             Recanonicalize(equal)
      PROVE  ValuesInvariant'
  <2>1. /\ forms # NoForms /\ equal # Rejected /\ again' = CanonicalForms(equal)
        /\ value' = value /\ forms' = forms
    BY <1>2 DEF Recanonicalize
  <2>2. forms = CanonicalForms(value)
    BY <2>1 DEF ValuesInvariant
  <2>3. Range(forms) = {CanonicalForms(value)[c] : c \in Canonicalizers}
    BY <2>2 DEF CanonicalForms, Range
  <2>4. equal \in EqualValues(value) \ {Rejected}
    BY <1>2, <2>1, <2>3 DEF EqualValues
  <2>5. \E e \in EqualValues(value') \ {Rejected} : again' = CanonicalForms(e)
    BY <2>1, <2>4
  <2> QED
    BY <2>1, <2>2, <2>5 DEF ValuesInvariant
<1>3. CASE UNCHANGED valueVars
  BY <1>3 DEF ValuesInvariant, valueVars
<1> QED
  BY <1>1, <1>2, <1>3 DEF ValueNext

\* The forms of a value are those of its MaxNesting levels.
LEMMA FormsOfAValue ==
    ASSUME NEW v \in JsonValues
    PROVE  /\ CanonicalForms(v) = FormsAt(MaxNesting, 0, v)
           /\ \A texts : Occurs(texts, v) <=> OccursIn(MaxNesting, texts, v)
           /\ \A texts : Mentions(texts, v) <=> MentionsIn(MaxNesting, texts, v)
BY DEF CanonicalForms, FormsAt, Occurs, OccursIn, Mentions, MentionsIn

\* The canonicalizers agree on the forms of a value.
LEMMA FormsAgree ==
    ASSUME NEW v \in JsonValues
    PROVE  Agreeing(CanonicalForms(v), Mentions({""}, v), Occurs({"shrinks", "grows"}, v))
<1>1. MaxNesting \in Nat /\ 0 \in Nat /\ v \in JsonUpTo[MaxNesting]
  BY CanonicalJsonAssumption DEF JsonValues
<1>2. Agreeing(FormsAt(MaxNesting, 0, v), MentionsIn(MaxNesting, {""}, v),
               OccursIn(MaxNesting, {"shrinks", "grows"}, v))
  BY <1>1, AgreementOnValues DEF AgreeAt
<1>3. Agreeing(CanonicalForms(v), MentionsIn(MaxNesting, {""}, v),
               OccursIn(MaxNesting, {"shrinks", "grows"}, v))
  BY <1>2, FormsOfAValue
<1> QED
  BY <1>3 DEF Agreeing, Occurs, OccursIn, Mentions, MentionsIn

\* They make the same of an equal value.
LEMMA EqualValuesAlike ==
    ASSUME NEW v \in JsonValues, NEW w \in EqualValues(v), w # Rejected,
           NEW d \in Canonicalizers
    PROVE  \/ CanonicalForms(w)[d] = CanonicalForms(v)[d]
           \/ d = "go" /\ Occurs({"shrinks", "grows"}, v)
<1>1. MaxNesting \in Nat /\ 0 \in Nat /\ v \in JsonUpTo[MaxNesting]
  BY CanonicalJsonAssumption DEF JsonValues
<1>2. \A x : CanonicalForms(x)[d] = Normalize[MaxNesting][d][0][x]
  BY DEF CanonicalForms
<1>3. CASE w = Respelled[MaxNesting][v]
  <2>1. Normalize[MaxNesting][d][0][w] = Normalize[MaxNesting][d][0][v]
    BY <1>1, <1>3, Respelling DEF RespelledAt
  <2> QED
    BY <1>2, <2>1
<1>4. ASSUME NEW c \in Canonicalizers, w = CanonicalForms(v)[c]
      PROVE  \/ CanonicalForms(w)[d] = CanonicalForms(v)[d]
             \/ d = "go" /\ Occurs({"shrinks", "grows"}, v)
  <2>1. w = Normalize[MaxNesting][c][0][v]
    BY <1>4 DEF CanonicalForms
  <2>2. AlikeAt(MaxNesting, v, w)
    BY <1>1, <2>1, Rereading DEF RereadAt
  <2>3. \/ Normalize[MaxNesting][d][0][w] = Normalize[MaxNesting][d][0][v]
        \/ d = "go" /\ OccursIn(MaxNesting, Resizing, v)
    BY <1>1, <2>2 DEF AlikeAt
  <2> QED
    BY <1>2, <2>3 DEF Occurs, OccursIn, Resizing
<1> QED
  BY <1>3, <1>4 DEF EqualValues

\* It holds always.
LEMMA ValuesInvariantHolds == ValueSpec => []ValuesInvariant
BY ValuesInvariantInit, ValuesInvariantStep, PTL DEF ValueSpec

\* A value has one canonical form, whoever computes it, but for TypeScript's empty
\* texts, Go's measuring and what is too large for all but stdlib_check.py
\* (identity.py:66-105, verifier.go:102-174, verifier.ts:112-165, Oncefold.cs:85-183).
THEOREM CanonicalFormsAreOne == ValueSpec => []CanonicalFormsAgree
<1>1. ValuesInvariant => CanonicalFormsAgree
  <2> SUFFICES ASSUME ValuesInvariant, forms # NoForms
               PROVE  Agreeing(forms, Mentions({""}, value), Occurs({"shrinks", "grows"}, value))
    BY DEF CanonicalFormsAgree, Agreeing
  <2>1. value \in JsonValues /\ forms = CanonicalForms(value)
    BY DEF ValuesInvariant
  <2> QED
    BY <2>1, FormsAgree
<1> QED
  BY <1>1, ValuesInvariantHolds, PTL

\* An equal value, spelled or ordered otherwise or canonicalized before, has the same
\* form; only Go makes forms it would not read itself.
THEOREM SpellingsAreImmaterial == ValueSpec => []SpellingIsImmaterial
<1>1. ValuesInvariant => SpellingIsImmaterial
  <2> SUFFICES ASSUME ValuesInvariant, again # NoForms, NEW d \in Canonicalizers
               PROVE  \/ again[d] = forms[d]
                      \/ d = "go" /\ Occurs({"shrinks", "grows"}, value)
    BY DEF SpellingIsImmaterial
  <2>1. value \in JsonValues /\ forms = CanonicalForms(value)
    BY DEF ValuesInvariant
  <2>2. PICK equal \in EqualValues(value) \ {Rejected} : again = CanonicalForms(equal)
    BY DEF ValuesInvariant
  <2> QED
    BY <2>1, <2>2, EqualValuesAlike
<1> QED
  BY <1>1, ValuesInvariantHolds, PTL
=============================================================================
