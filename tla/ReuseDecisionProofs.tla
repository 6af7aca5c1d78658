-------------------------- MODULE ReuseDecisionProofs --------------------------
(***************************************************************************)
(* What the operators of ReuseDecision guarantee for every action,         *)
(* receipt, policy, result and validator: the checks that refuse reuse     *)
(* nothing and revoke nothing, and what passes them all has its evidence.  *)
(***************************************************************************)
EXTENDS ReuseDecision, TLAPS

\* A verdict of the checks is a decision, or hands over to the next check.
Verdicts == [state : DecisionStates \cup {"undecided"}, reason : Reasons]

\* The evidence that all checks before the class have established.
Intact(action, receipt, available) ==
    /\ action = receipt.action
    /\ receipt.trust_scope = action.trust_scope
    /\ ReadOnly(action)
    /\ Complete(action)
    /\ receipt.dependency_snapshot = action.dependencies
    /\ available \in {None, receipt.result_digest}

\* A verdict says what it was made of; two of them differ in state or reason.
LEMMA VerdictParts ==
    ASSUME NEW state, NEW reason
    PROVE  /\ Verdict(state, reason).state = state
           /\ Verdict(state, reason).reason = reason
           /\ state \in DecisionStates \cup {"undecided"} /\ reason \in Reasons =>
                 Verdict(state, reason) \in Verdicts
BY DEF Verdict, Verdicts

\* Undecided and NeedsValidator are two verdicts and decide nothing.
LEMMA Handovers ==
    /\ Undecided \in Verdicts /\ NeedsValidator \in Verdicts
    /\ Undecided.state = "undecided" /\ Undecided.reason = ""
    /\ NeedsValidator.state = "undecided" /\ NeedsValidator.reason = "current validator"
    /\ Undecided # NeedsValidator
BY DEF Undecided, NeedsValidator, Verdict, Verdicts, Reasons

\* A verdict with a decision is none of the two.
LEMMA DecisionsDecide ==
    ASSUME NEW state \in DecisionStates, NEW reason \in Reasons
    PROVE  /\ Verdict(state, reason) \in Verdicts
           /\ Verdict(state, reason).state = state
           /\ Verdict(state, reason) # NeedsValidator
           /\ Verdict(state, reason) # Undecided
<1>1. state # "undecided"
  BY DEF DecisionStates
<1>2. Verdict(state, reason).state = state
  BY VerdictParts
<1>3. Verdict(state, reason) \in Verdicts
  BY VerdictParts
<1>4. Verdict(state, reason) # NeedsValidator
  BY <1>1, <1>2, Handovers
<1>5. Verdict(state, reason) # Undecided
  BY <1>1, <1>2, Handovers
<1> QED
  BY <1>2, <1>3, <1>4, <1>5

\* A check that refuses or passes on reuses nothing and revokes nothing.
Refuses(v) ==
    /\ v \in Verdicts
    /\ v.state \notin {"REUSABLE_EXACT", "REVOKED"}
    /\ v # NeedsValidator
    /\ v # Undecided => v.state \in DecisionStates

\* The three refusals either pass on or refuse: they reuse nothing and revoke
\* nothing (protocol.py:705-750).
LEMMA RefusalsRefuse ==
    ASSUME NEW action, NEW receipt, NEW available
    PROVE  /\ Refuses(ScopeRefusal(action, receipt))
           /\ Refuses(SafetyRefusal(action, receipt))
           /\ Refuses(FreshnessRefusal(action, receipt, available))
<1>1. Refuses(Undecided)
  BY Handovers DEF Refuses
<1>2. ASSUME NEW state \in DecisionStates \ {"REUSABLE_EXACT", "REVOKED"}, NEW reason \in Reasons
      PROVE  Refuses(Verdict(state, reason))
  BY <1>2, DecisionsDecide DEF Refuses
<1>3. {"SCOPE_MISMATCH", "UNSAFE", "UNKNOWN", "STALE"}
         \subseteq DecisionStates \ {"REUSABLE_EXACT", "REVOKED"}
  BY DEF DecisionStates
<1>4. Refuses(ScopeRefusal(action, receipt))
  BY <1>1, <1>2, <1>3 DEF ScopeRefusal, Reasons
<1>5. Refuses(SafetyRefusal(action, receipt))
  BY <1>1, <1>2, <1>3 DEF SafetyRefusal, Reasons
<1>6. Refuses(FreshnessRefusal(action, receipt, available))
  BY <1>1, <1>2, <1>3 DEF FreshnessRefusal, Reasons
<1> QED
  BY <1>4, <1>5, <1>6

\* ... and where none of them applies the evidence is there.
LEMMA RefusalsEstablishEvidence ==
    ASSUME NEW action, NEW receipt, NEW available,
           ScopeRefusal(action, receipt) = Undecided,
           SafetyRefusal(action, receipt) = Undecided,
           FreshnessRefusal(action, receipt, available) = Undecided
    PROVE  /\ Intact(action, receipt, available)
           /\ receipt.reuse_class # "UNSAFE"
<1>1. ASSUME NEW state \in DecisionStates, NEW reason \in Reasons
      PROVE  Verdict(state, reason) # Undecided
  BY DecisionsDecide
<1>2. {"SCOPE_MISMATCH", "UNSAFE", "UNKNOWN", "STALE"} \subseteq DecisionStates
  BY DEF DecisionStates
<1>3. receipt.trust_scope = action.trust_scope
  BY <1>1, <1>2 DEF ScopeRefusal, Reasons
<1>4. ReadOnly(action) /\ Complete(action) /\ receipt.reuse_class # "UNSAFE"
  BY <1>1, <1>2 DEF SafetyRefusal, Reasons
<1>5. /\ action = receipt.action
      /\ receipt.dependency_snapshot = action.dependencies
      /\ available \in {None, receipt.result_digest}
  BY <1>1, <1>2 DEF FreshnessRefusal, Reasons
<1> QED
  BY <1>3, <1>4, <1>5 DEF Intact

\* The last check, on the receipt's class (protocol.py:751-780).
LEMMA ClassVerdictIsSound ==
    ASSUME NEW action, NEW receipt, NEW policy, NEW hasValidator,
           receipt.reuse_class \in {"EXACT", "VERIFIED", "ADVISORY"}
    PROVE  LET v == ClassVerdict(action, receipt, policy, hasValidator)
           IN  /\ v \in Verdicts
               /\ v.state # "REVOKED"
               /\ v # NeedsValidator => v.state \in DecisionStates
               /\ v.state = "REUSABLE_EXACT" =>
                     Admits(policy, receipt) /\ receipt.reuse_class = "EXACT"
               /\ v = NeedsValidator =>
                     /\ Admits(policy, receipt)
                     /\ receipt.reuse_class = "VERIFIED"
                     /\ ValidatorMatches(action, receipt)
<1> DEFINE v == ClassVerdict(action, receipt, policy, hasValidator)
<1>1. ASSUME NEW state \in {"UNKNOWN", "REUSABLE_EXACT", "ADVISORY_ONLY", "REQUIRES_VALIDATION"},
             NEW reason \in Reasons, v = Verdict(state, reason)
      PROVE  v \in Verdicts /\ v.state = state /\ v # NeedsValidator
  <2>1. state \in DecisionStates
    BY <1>1 DEF DecisionStates
  <2> QED
    BY <1>1, <2>1, DecisionsDecide
<1>2. /\ "not trusted" \in Reasons /\ "context only" \in Reasons
      /\ "identity and dependencies match" \in Reasons
      /\ "matching validator identity required" \in Reasons
      /\ "current validator required" \in Reasons
  BY DEF Reasons
<1>3. {"UNKNOWN", "REUSABLE_EXACT", "ADVISORY_ONLY", "REQUIRES_VALIDATION"} \subseteq DecisionStates
  BY DEF DecisionStates
<1> DEFINE Sound ==
      /\ v \in Verdicts
      /\ v.state # "REVOKED"
      /\ v # NeedsValidator => v.state \in DecisionStates
      /\ v.state = "REUSABLE_EXACT" =>
            Admits(policy, receipt) /\ receipt.reuse_class = "EXACT"
      /\ v = NeedsValidator =>
            /\ Admits(policy, receipt)
            /\ receipt.reuse_class = "VERIFIED"
            /\ ValidatorMatches(action, receipt)
<1>4. CASE Authoritative(receipt) /\ ~Admits(policy, receipt)
  <2>1. v = Verdict("UNKNOWN", "not trusted")
    BY <1>4 DEF ClassVerdict
  <2>2. v \in Verdicts /\ v.state = "UNKNOWN" /\ v # NeedsValidator
    BY <2>1, <1>1, <1>2
  <2> HIDE DEF v
  <2>3. Sound
    BY <2>2, <1>3
  <2> QED
    BY <2>3 DEF v
<1>5. CASE (Authoritative(receipt) => Admits(policy, receipt)) /\ receipt.reuse_class = "EXACT"
  <2>1. v = Verdict("REUSABLE_EXACT", "identity and dependencies match")
    BY <1>5 DEF ClassVerdict
  <2>2. v \in Verdicts /\ v.state = "REUSABLE_EXACT" /\ v # NeedsValidator
    BY <2>1, <1>1, <1>2
  <2>3. Admits(policy, receipt)
    BY <1>5 DEF Authoritative
  <2> HIDE DEF v
  <2>4. Sound
    BY <2>2, <2>3, <1>3, <1>5
  <2> QED
    BY <2>4 DEF v
<1>6. CASE receipt.reuse_class = "ADVISORY"
  <2>1. v = Verdict("ADVISORY_ONLY", "context only")
    BY <1>6 DEF ClassVerdict, Authoritative
  <2>2. v \in Verdicts /\ v.state = "ADVISORY_ONLY" /\ v # NeedsValidator
    BY <2>1, <1>1, <1>2
  <2> HIDE DEF v
  <2>3. Sound
    BY <2>2, <1>3
  <2> QED
    BY <2>3 DEF v
<1>7. CASE /\ Authoritative(receipt) => Admits(policy, receipt)
           /\ receipt.reuse_class = "VERIFIED"
           /\ ~(ValidatorMatches(action, receipt) /\ hasValidator)
  <2>1. \/ v = Verdict("REQUIRES_VALIDATION", "matching validator identity required")
        \/ v = Verdict("REQUIRES_VALIDATION", "current validator required")
    BY <1>7 DEF ClassVerdict, ValidatorMatches
  <2>2. v \in Verdicts /\ v.state = "REQUIRES_VALIDATION" /\ v # NeedsValidator
    BY <2>1, <1>1, <1>2
  <2> HIDE DEF v
  <2>3. Sound
    BY <2>2, <1>3
  <2> QED
    BY <2>3 DEF v
<1>8. CASE /\ Authoritative(receipt) => Admits(policy, receipt)
           /\ receipt.reuse_class = "VERIFIED"
           /\ ValidatorMatches(action, receipt) /\ hasValidator
  <2>1. v = NeedsValidator
    BY <1>8 DEF ClassVerdict, ValidatorMatches
  <2>2. Admits(policy, receipt)
    BY <1>8 DEF Authoritative
  <2> HIDE DEF v
  <2>3. Sound
    BY <2>1, <2>2, <1>8, Handovers
  <2> QED
    BY <2>3 DEF v
<1> QED
  BY <1>4, <1>5, <1>6, <1>7, <1>8

\* evaluate up to the validator (protocol.py:686-780): what it reuses has all
\* of its evidence, what it leaves to the validator lacks nothing else, and
\* it answers REVOKED exactly for what is revoked.
LEMMA ChecksAreSound ==
    ASSUME NEW condition \in Conditions, NEW isRevoked \in BOOLEAN, NEW action, NEW receipt,
           NEW policy, NEW available, NEW hasValidator,
           receipt.reuse_class \in {"EXACT", "VERIFIED", "ADVISORY", "UNSAFE"}
    PROVE  LET v == UpToValidator(condition, isRevoked, action, receipt, policy, available,
                                  hasValidator)
           IN  /\ v \in Verdicts
               /\ v # NeedsValidator => v.state \in DecisionStates
               /\ v.state = "REUSABLE_EXACT" => \A outcome :
                     ReuseEvidence(condition, isRevoked, action, receipt, policy, available,
                                   outcome)
               /\ v = NeedsValidator =>
                     ReuseEvidence(condition, isRevoked, action, receipt, policy, available,
                                   "pass")
               /\ v.state = "REVOKED" => isRevoked \/ receipt.revocation_ref # None
               /\ isRevoked /\ condition = "intact" => v.state = "REVOKED"
<1> DEFINE v == UpToValidator(condition, isRevoked, action, receipt, policy, available,
                              hasValidator)
           Sound ==
               /\ v \in Verdicts
               /\ v # NeedsValidator => v.state \in DecisionStates
               /\ v.state = "REUSABLE_EXACT" => \A outcome :
                     ReuseEvidence(condition, isRevoked, action, receipt, policy, available,
                                   outcome)
               /\ v = NeedsValidator =>
                     ReuseEvidence(condition, isRevoked, action, receipt, policy, available,
                                   "pass")
               /\ v.state = "REVOKED" => isRevoked \/ receipt.revocation_ref # None
               /\ isRevoked /\ condition = "intact" => v.state = "REVOKED"
<1>1. /\ "receipt integrity or schema failure" \in Reasons /\ "receipt revoked" \in Reasons
      /\ "UNKNOWN" \in DecisionStates /\ "REVOKED" \in DecisionStates
      /\ "undecided" \notin DecisionStates
  BY DEF Reasons, DecisionStates
<1>2. CASE condition = "altered"
  <2>1. v = Verdict("UNKNOWN", "receipt integrity or schema failure")
    BY <1>2 DEF UpToValidator
  <2>2. v \in Verdicts /\ v.state = "UNKNOWN" /\ v # NeedsValidator
    BY <2>1, <1>1, DecisionsDecide
  <2> HIDE DEF v
  <2>3. Sound
    BY <2>2, <1>1, <1>2
  <2> QED
    BY <2>3 DEF v
<1>3. CASE condition # "altered" /\ (isRevoked \/ receipt.revocation_ref # None)
  <2>1. v = Verdict("REVOKED", "receipt revoked")
    BY <1>3 DEF UpToValidator
  <2>2. v \in Verdicts /\ v.state = "REVOKED" /\ v # NeedsValidator
    BY <2>1, <1>1, DecisionsDecide
  <2> HIDE DEF v
  <2>3. Sound
    BY <2>2, <1>1, <1>3
  <2> QED
    BY <2>3 DEF v
<1>4. CASE condition # "altered" /\ ~isRevoked /\ receipt.revocation_ref = None
  <2>1. v = Evidence(action, receipt, policy, available, hasValidator)
    BY <1>4 DEF UpToValidator
  <2>2. condition = "intact"
    BY <1>4 DEF Conditions
  <2>3. CASE \/ ScopeRefusal(action, receipt) # Undecided
             \/ SafetyRefusal(action, receipt) # Undecided
             \/ FreshnessRefusal(action, receipt, available) # Undecided
    <3>1. Refuses(v) /\ v # Undecided
      BY <2>1, <2>3, RefusalsRefuse DEF Evidence
    <3> HIDE DEF v
    <3>2. Sound
      BY <3>1, <1>4 DEF Refuses
    <3> QED
      BY <3>2 DEF v
  <2>4. CASE /\ ScopeRefusal(action, receipt) = Undecided
             /\ SafetyRefusal(action, receipt) = Undecided
             /\ FreshnessRefusal(action, receipt, available) = Undecided
    <3>1. v = ClassVerdict(action, receipt, policy, hasValidator)
      BY <2>1, <2>4 DEF Evidence
    <3>2. Intact(action, receipt, available) /\ receipt.reuse_class # "UNSAFE"
      BY <2>4, RefusalsEstablishEvidence
    <3>3. /\ v \in Verdicts
          /\ v.state # "REVOKED"
          /\ v # NeedsValidator => v.state \in DecisionStates
          /\ v.state = "REUSABLE_EXACT" =>
                Admits(policy, receipt) /\ receipt.reuse_class = "EXACT"
          /\ v = NeedsValidator =>
                /\ Admits(policy, receipt)
                /\ receipt.reuse_class = "VERIFIED"
                /\ ValidatorMatches(action, receipt)
      BY <3>1, <3>2, ClassVerdictIsSound
    <3> HIDE DEF v
    <3>4. ASSUME NEW outcome, Admits(policy, receipt),
                 \/ receipt.reuse_class = "EXACT"
                 \/ /\ receipt.reuse_class = "VERIFIED"
                    /\ ValidatorMatches(action, receipt)
                    /\ outcome = "pass"
          PROVE  ReuseEvidence(condition, isRevoked, action, receipt, policy, available,
                               outcome)
      BY <1>4, <2>2, <3>2, <3>4 DEF Intact, ReuseEvidence
    <3>5. Sound
      BY <3>3, <3>4, <1>4
    <3> QED
      BY <3>5 DEF v
  <2> QED
    BY <2>3, <2>4
<1> QED
  BY <1>2, <1>3, <1>4

\* evaluate has the receipt at hand: none of its checks says that it was not
\* found.
LEMMA ChecksFindTheReceipt ==
    ASSUME NEW condition, NEW isRevoked, NEW action, NEW receipt, NEW policy,
           NEW available, NEW hasValidator
    PROVE  UpToValidator(condition, isRevoked, action, receipt, policy, available,
                         hasValidator).reason # "receipt not found"
<1> DEFINE Found(v) == v.reason # "receipt not found"
<1>1. Found(ScopeRefusal(action, receipt))
  BY DEF ScopeRefusal, Undecided, Verdict
<1>2. Found(SafetyRefusal(action, receipt))
  BY DEF SafetyRefusal, Undecided, Verdict
<1>3. Found(FreshnessRefusal(action, receipt, available))
  BY DEF FreshnessRefusal, Undecided, Verdict
<1>4. Found(ClassVerdict(action, receipt, policy, hasValidator))
  BY DEF ClassVerdict, NeedsValidator, Verdict
<1>5. Found(Evidence(action, receipt, policy, available, hasValidator))
  BY <1>1, <1>2, <1>3, <1>4 DEF Evidence
<1> QED
  BY <1>5 DEF UpToValidator, Verdict

\* The validator's answer (protocol.py:781-799) reuses only on TRUE.
LEMMA ValidatedIsSound ==
    ASSUME NEW outcome \in Outcomes
    PROVE  /\ Validated(outcome) \in Verdicts
           /\ Validated(outcome).state # "REVOKED"
           /\ Validated(outcome).state = "REUSABLE_EXACT" => outcome = "pass"
<1>1. /\ {"REUSABLE_EXACT", "STALE", "UNKNOWN"} \subseteq DecisionStates
      /\ {"current validator passed", "current validator rejected receipt",
           "current validator failed", "non-boolean validator result"} \subseteq Reasons
  BY DEF DecisionStates, Reasons
<1>2. CASE outcome = "pass"
  <2>1. Validated(outcome) = Verdict("REUSABLE_EXACT", "current validator passed")
    BY <1>2 DEF Validated
  <2> QED
    BY <2>1, <1>1, <1>2, DecisionsDecide
<1>3. CASE outcome = "reject"
  <2>1. Validated(outcome) = Verdict("STALE", "current validator rejected receipt")
    BY <1>3 DEF Validated
  <2> QED
    BY <2>1, <1>1, DecisionsDecide
<1>4. CASE outcome = "exception"
  <2>1. Validated(outcome) = Verdict("UNKNOWN", "current validator failed")
    BY <1>4 DEF Validated
  <2> QED
    BY <2>1, <1>1, DecisionsDecide
<1>5. CASE outcome = "non-boolean"
  <2>1. Validated(outcome) = Verdict("UNKNOWN", "non-boolean validator result")
    BY <1>5 DEF Validated
  <2> QED
    BY <2>1, <1>1, DecisionsDecide
<1> QED
  BY <1>2, <1>3, <1>4, <1>5 DEF Outcomes


-----------------------------------------------------------------------------
(* The decision is the documented one: for every action, receipt, policy,    *)
(* result and validator, what evaluate returns is the state of the first     *)
(* row of the precedence table that applies.                                 *)

\* The first row that applies decides.
LEMMA FirstRowDecides ==
    ASSUME NEW t, DOMAIN t \subseteq Nat, NEW i \in DOMAIN t, t[i].when,
           \A j \in DOMAIN t : j < i => ~t[j].when
    PROVE  FirstApplicable(t) = t[i].state
<1> DEFINE First(k) == t[k].when /\ \A j \in DOMAIN t : t[j].when => k <= j
<1>1. First(i)
  OBVIOUS
<1>2. ASSUME NEW k \in DOMAIN t, First(k) PROVE k = i
  BY <1>1, <1>2
<1>3. (CHOOSE k \in DOMAIN t : First(k)) = i
  BY <1>1, <1>2
<1> QED
  BY <1>3 DEF FirstApplicable

\* When each row of the table for one case applies.
LEMMA TableRows ==
    ASSUME NEW condition, NEW isRevoked \in BOOLEAN, NEW action, NEW receipt, NEW policy,
           NEW available, NEW outcome
    PROVE  LET t == ProtocolTable(condition, isRevoked, action, receipt, policy, available,
                                  outcome)
           IN  /\ DOMAIN t = 1..17
               /\ t[1].when <=> condition # "intact"
               /\ t[2].when <=> isRevoked \/ receipt.revocation_ref # None
               /\ t[3].when <=> \/ action.trust_scope # receipt.trust_scope
                                \/ action.trust_scope # receipt.action.trust_scope
                                \/ action.authorization_scope_digest
                                       # receipt.action.authorization_scope_digest
               /\ t[4].when <=> ~(ReadOnly(action) /\ ReadOnly(receipt.action))
               /\ t[5].when <=> receipt.reuse_class = "UNSAFE"
               /\ t[6].when <=> ~(Complete(action) /\ Complete(receipt.action))
               /\ t[7].when <=> action # receipt.action
               /\ t[8].when <=> receipt.dependency_snapshot # action.dependencies
               /\ t[9].when <=> available \notin {None, receipt.result_digest}
               /\ t[10].when <=> Authoritative(receipt) /\ ~Admits(policy, receipt)
               /\ t[11].when <=> receipt.reuse_class = "EXACT"
               /\ t[12].when <=> receipt.reuse_class = "ADVISORY"
               /\ t[13].when <=> ~ValidatorMatches(action, receipt)
               /\ t[14].when <=> outcome = "none"
               /\ t[15].when <=> outcome = "pass"
               /\ t[16].when <=> outcome = "reject"
               /\ t[17].when
<1> DEFINE t == ProtocolTable(condition, isRevoked, action, receipt, policy, available, outcome)
<1>0. DOMAIN t = 1..17
  BY DEF ProtocolTable
<1>1. t[1].when <=> condition # "intact"
  BY DEF ProtocolTable
<1>2. t[2].when <=> isRevoked \/ receipt.revocation_ref # None
  BY DEF ProtocolTable
<1>3. t[3].when <=> \/ action.trust_scope # receipt.trust_scope
                    \/ action.trust_scope # receipt.action.trust_scope
                    \/ action.authorization_scope_digest
                           # receipt.action.authorization_scope_digest
  BY DEF ProtocolTable
<1>4. t[4].when <=> ~(ReadOnly(action) /\ ReadOnly(receipt.action))
  BY DEF ProtocolTable
<1>5. t[5].when <=> receipt.reuse_class = "UNSAFE"
  BY DEF ProtocolTable
<1>6. t[6].when <=> ~(Complete(action) /\ Complete(receipt.action))
  BY DEF ProtocolTable
<1>7. t[7].when <=> action # receipt.action
  BY DEF ProtocolTable
<1>8. t[8].when <=> receipt.dependency_snapshot # action.dependencies
  BY DEF ProtocolTable
<1>9. t[9].when <=> available \notin {None, receipt.result_digest}
  BY DEF ProtocolTable
<1>10. t[10].when <=> Authoritative(receipt) /\ ~Admits(policy, receipt)
  BY DEF ProtocolTable
<1>11. t[11].when <=> receipt.reuse_class = "EXACT"
  BY DEF ProtocolTable
<1>12. t[12].when <=> receipt.reuse_class = "ADVISORY"
  BY DEF ProtocolTable
<1>13. t[13].when <=> ~ValidatorMatches(action, receipt)
  BY DEF ProtocolTable
<1>14. t[14].when <=> outcome = "none"
  BY DEF ProtocolTable
<1>15. t[15].when <=> outcome = "pass"
  BY DEF ProtocolTable
<1>16. t[16].when <=> outcome = "reject"
  BY DEF ProtocolTable
<1>17. t[17].when
  BY DEF ProtocolTable
<1> HIDE DEF t
<1> QED
  BY <1>0, <1>1, <1>2, <1>3, <1>4, <1>5, <1>6, <1>7, <1>8, <1>9, <1>10, <1>11, <1>12, <1>13, <1>14, <1>15, <1>16, <1>17 DEF t

\* What each row says.
LEMMA TableStates ==
    ASSUME NEW condition, NEW isRevoked, NEW action, NEW receipt, NEW policy,
           NEW available, NEW outcome
    PROVE  LET t == ProtocolTable(condition, isRevoked, action, receipt, policy, available,
                                  outcome)
           IN  /\ t[1].state = "UNKNOWN"
               /\ t[2].state = "REVOKED"
               /\ t[3].state = "SCOPE_MISMATCH"
               /\ t[4].state = "UNSAFE"
               /\ t[5].state = "UNSAFE"
               /\ t[6].state = "UNKNOWN"
               /\ t[7].state = "STALE"
               /\ t[8].state = "STALE"
               /\ t[9].state = "UNKNOWN"
               /\ t[10].state = "UNKNOWN"
               /\ t[11].state = "REUSABLE_EXACT"
               /\ t[12].state = "ADVISORY_ONLY"
               /\ t[13].state = "REQUIRES_VALIDATION"
               /\ t[14].state = "REQUIRES_VALIDATION"
               /\ t[15].state = "REUSABLE_EXACT"
               /\ t[16].state = "STALE"
               /\ t[17].state = "UNKNOWN"
BY DEF ProtocolTable

\* The first of seventeen rows that applies, as a chain of conditions.
LEMMA FirstRows ==
    ASSUME NEW t, DOMAIN t = 1..17, t[17].when
    PROVE  FirstApplicable(t) =
             IF t[1].when THEN t[1].state ELSE IF t[2].when THEN t[2].state
             ELSE IF t[3].when THEN t[3].state ELSE IF t[4].when THEN t[4].state
             ELSE IF t[5].when THEN t[5].state ELSE IF t[6].when THEN t[6].state
             ELSE IF t[7].when THEN t[7].state ELSE IF t[8].when THEN t[8].state
             ELSE IF t[9].when THEN t[9].state ELSE IF t[10].when THEN t[10].state
             ELSE IF t[11].when THEN t[11].state ELSE IF t[12].when THEN t[12].state
             ELSE IF t[13].when THEN t[13].state ELSE IF t[14].when THEN t[14].state
             ELSE IF t[15].when THEN t[15].state ELSE IF t[16].when THEN t[16].state
             ELSE t[17].state
<1> DEFINE W(i) == t[i].when
           S(i) == t[i].state
           D == FirstApplicable(t)
<1>1. ASSUME NEW i \in 1..17, W(i), \A j \in 1..17 : j < i => ~W(j)
      PROVE  D = S(i)
  BY <1>1, FirstRowDecides
<1>2. W(17)
  OBVIOUS
<1> HIDE DEF W, S, D
<1>3. D = IF W(1) THEN S(1) ELSE IF W(2) THEN S(2) ELSE IF W(3) THEN S(3)
          ELSE IF W(4) THEN S(4) ELSE IF W(5) THEN S(5) ELSE IF W(6) THEN S(6)
          ELSE IF W(7) THEN S(7) ELSE IF W(8) THEN S(8) ELSE IF W(9) THEN S(9)
          ELSE IF W(10) THEN S(10) ELSE IF W(11) THEN S(11) ELSE IF W(12) THEN S(12)
          ELSE IF W(13) THEN S(13) ELSE IF W(14) THEN S(14) ELSE IF W(15) THEN S(15)
          ELSE IF W(16) THEN S(16) ELSE S(17)
  BY <1>1, <1>2
<1> QED
  BY <1>3 DEF W, S, D

\* The table, read from its first row to its last.
TableState(condition, isRevoked, action, receipt, policy, available, outcome) ==
    IF condition # "intact" THEN "UNKNOWN"
    ELSE IF isRevoked \/ receipt.revocation_ref # None THEN "REVOKED"
    ELSE IF \/ action.trust_scope # receipt.trust_scope
            \/ action.trust_scope # receipt.action.trust_scope
            \/ action.authorization_scope_digest # receipt.action.authorization_scope_digest
         THEN "SCOPE_MISMATCH"
    ELSE IF ~(ReadOnly(action) /\ ReadOnly(receipt.action)) THEN "UNSAFE"
    ELSE IF receipt.reuse_class = "UNSAFE" THEN "UNSAFE"
    ELSE IF ~(Complete(action) /\ Complete(receipt.action)) THEN "UNKNOWN"
    ELSE IF action # receipt.action THEN "STALE"
    ELSE IF receipt.dependency_snapshot # action.dependencies THEN "STALE"
    ELSE IF available \notin {None, receipt.result_digest} THEN "UNKNOWN"
    ELSE IF Authoritative(receipt) /\ ~Admits(policy, receipt) THEN "UNKNOWN"
    ELSE IF receipt.reuse_class = "EXACT" THEN "REUSABLE_EXACT"
    ELSE IF receipt.reuse_class = "ADVISORY" THEN "ADVISORY_ONLY"
    ELSE IF ~ValidatorMatches(action, receipt) THEN "REQUIRES_VALIDATION"
    ELSE IF outcome = "none" THEN "REQUIRES_VALIDATION"
    ELSE IF outcome = "pass" THEN "REUSABLE_EXACT"
    ELSE IF outcome = "reject" THEN "STALE"
    ELSE "UNKNOWN"

\* TableState is what the table decides.
LEMMA TableDecides ==
    ASSUME NEW condition, NEW isRevoked \in BOOLEAN, NEW action, NEW receipt, NEW policy,
           NEW available, NEW outcome
    PROVE  FirstApplicable(ProtocolTable(condition, isRevoked, action, receipt, policy,
                                         available, outcome))
             = TableState(condition, isRevoked, action, receipt, policy, available, outcome)
<1> DEFINE t == ProtocolTable(condition, isRevoked, action, receipt, policy, available, outcome)
<1>1. DOMAIN t = 1..17 /\ t[17].when
  BY TableRows
<1>2. FirstApplicable(t) =
             IF t[1].when THEN t[1].state ELSE IF t[2].when THEN t[2].state
             ELSE IF t[3].when THEN t[3].state ELSE IF t[4].when THEN t[4].state
             ELSE IF t[5].when THEN t[5].state ELSE IF t[6].when THEN t[6].state
             ELSE IF t[7].when THEN t[7].state ELSE IF t[8].when THEN t[8].state
             ELSE IF t[9].when THEN t[9].state ELSE IF t[10].when THEN t[10].state
             ELSE IF t[11].when THEN t[11].state ELSE IF t[12].when THEN t[12].state
             ELSE IF t[13].when THEN t[13].state ELSE IF t[14].when THEN t[14].state
             ELSE IF t[15].when THEN t[15].state ELSE IF t[16].when THEN t[16].state
             ELSE t[17].state
  <2> HIDE DEF t
  <2> QED
    BY <1>1, FirstRows
<1> QED
  BY <1>2, TableRows, TableStates DEF TableState

\* The same of the code's own checks (protocol.py:705-780).
LEMMA StatesOfChecks ==
    ASSUME NEW action, NEW receipt, NEW policy, NEW available, NEW hasValidator,
           receipt.reuse_class \in {"EXACT", "VERIFIED", "ADVISORY", "UNSAFE"},
           receipt.result_digest \notin {Empty, Malformed}
    PROVE  /\ ScopeRefusal(action, receipt).state =
                IF \/ action.trust_scope # receipt.trust_scope
                   \/ action.trust_scope # receipt.action.trust_scope
                   \/ action.authorization_scope_digest
                         # receipt.action.authorization_scope_digest
                THEN "SCOPE_MISMATCH" ELSE "undecided"
           /\ SafetyRefusal(action, receipt).state =
                IF ~(ReadOnly(action) /\ ReadOnly(receipt.action)) THEN "UNSAFE"
                ELSE IF receipt.reuse_class = "UNSAFE" THEN "UNSAFE"
                ELSE IF ~(Complete(action) /\ Complete(receipt.action)) THEN "UNKNOWN"
                ELSE "undecided"
           /\ FreshnessRefusal(action, receipt, available).state =
                IF action # receipt.action THEN "STALE"
                ELSE IF receipt.dependency_snapshot # action.dependencies THEN "STALE"
                ELSE IF available \notin {None, receipt.result_digest} THEN "UNKNOWN"
                ELSE "undecided"
           /\ receipt.reuse_class # "UNSAFE" =>
                ClassVerdict(action, receipt, policy, hasValidator).state =
                  IF Authoritative(receipt) /\ ~Admits(policy, receipt) THEN "UNKNOWN"
                  ELSE IF receipt.reuse_class = "EXACT" THEN "REUSABLE_EXACT"
                  ELSE IF receipt.reuse_class = "ADVISORY" THEN "ADVISORY_ONLY"
                  ELSE IF ~ValidatorMatches(action, receipt) THEN "REQUIRES_VALIDATION"
                  ELSE IF ~hasValidator THEN "REQUIRES_VALIDATION"
                  ELSE "undecided"
<1>1. /\ Undecided.state = "undecided" /\ NeedsValidator.state = "undecided"
      /\ \A state, reason : Verdict(state, reason).state = state
  BY Handovers, VerdictParts
<1>2. ScopeRefusal(action, receipt).state =
        IF \/ action.trust_scope # receipt.trust_scope
           \/ action.trust_scope # receipt.action.trust_scope
           \/ action.authorization_scope_digest # receipt.action.authorization_scope_digest
        THEN "SCOPE_MISMATCH" ELSE "undecided"
  BY <1>1 DEF ScopeRefusal
<1>3. SafetyRefusal(action, receipt).state =
        IF ~(ReadOnly(action) /\ ReadOnly(receipt.action)) THEN "UNSAFE"
        ELSE IF receipt.reuse_class = "UNSAFE" THEN "UNSAFE"
        ELSE IF ~(Complete(action) /\ Complete(receipt.action)) THEN "UNKNOWN"
        ELSE "undecided"
  BY <1>1 DEF SafetyRefusal
<1>4. FreshnessRefusal(action, receipt, available).state =
        IF action # receipt.action THEN "STALE"
        ELSE IF receipt.dependency_snapshot # action.dependencies THEN "STALE"
        ELSE IF available \notin {None, receipt.result_digest} THEN "UNKNOWN"
        ELSE "undecided"
  BY <1>1, DistinctAbsences DEF FreshnessRefusal
<1>5. ASSUME receipt.reuse_class # "UNSAFE"
      PROVE  ClassVerdict(action, receipt, policy, hasValidator).state =
               IF Authoritative(receipt) /\ ~Admits(policy, receipt) THEN "UNKNOWN"
               ELSE IF receipt.reuse_class = "EXACT" THEN "REUSABLE_EXACT"
               ELSE IF receipt.reuse_class = "ADVISORY" THEN "ADVISORY_ONLY"
               ELSE IF ~ValidatorMatches(action, receipt) THEN "REQUIRES_VALIDATION"
               ELSE IF ~hasValidator THEN "REQUIRES_VALIDATION"
               ELSE "undecided"
  BY <1>1, <1>5 DEF ClassVerdict, ValidatorMatches
<1> QED
  BY <1>2, <1>3, <1>4, <1>5

\* The states of the checks, one after the other.
InOrder(condition, isRevoked, action, receipt, policy, available, hasValidator) ==
    IF condition # "intact" THEN "UNKNOWN"
    ELSE IF isRevoked \/ receipt.revocation_ref # None THEN "REVOKED"
    ELSE IF ScopeRefusal(action, receipt).state # "undecided"
         THEN ScopeRefusal(action, receipt).state
    ELSE IF SafetyRefusal(action, receipt).state # "undecided"
         THEN SafetyRefusal(action, receipt).state
    ELSE IF FreshnessRefusal(action, receipt, available).state # "undecided"
         THEN FreshnessRefusal(action, receipt, available).state
    ELSE ClassVerdict(action, receipt, policy, hasValidator).state

\* evaluate up to the validator is that (protocol.py:686-780).
LEMMA ChecksInOrder ==
    ASSUME NEW condition \in Conditions, NEW isRevoked, NEW action, NEW receipt,
           NEW policy, NEW available, NEW hasValidator
    PROVE  UpToValidator(condition, isRevoked, action, receipt, policy, available,
                         hasValidator).state
             = InOrder(condition, isRevoked, action, receipt, policy, available, hasValidator)
<1>1. /\ Refuses(ScopeRefusal(action, receipt))
      /\ Refuses(SafetyRefusal(action, receipt))
      /\ Refuses(FreshnessRefusal(action, receipt, available))
  BY RefusalsRefuse
<1>2. \A x : Refuses(x) => (x = Undecided <=> x.state = "undecided")
  BY Handovers DEF Refuses, DecisionStates
<1>3. Evidence(action, receipt, policy, available, hasValidator) =
        IF ScopeRefusal(action, receipt).state # "undecided"
           THEN ScopeRefusal(action, receipt)
        ELSE IF SafetyRefusal(action, receipt).state # "undecided"
           THEN SafetyRefusal(action, receipt)
        ELSE IF FreshnessRefusal(action, receipt, available).state # "undecided"
           THEN FreshnessRefusal(action, receipt, available)
        ELSE ClassVerdict(action, receipt, policy, hasValidator)
  BY <1>1, <1>2 DEF Evidence
<1> QED
  BY <1>3, VerdictParts DEF UpToValidator, Conditions, InOrder

\* evaluate up to the validator (protocol.py:686-780) is the table: where it
\* decides, by the first row that applies, and where it does not, none but
\* the validator's rows apply.
LEMMA ChecksFollowTheTable ==
    ASSUME NEW condition \in Conditions, NEW isRevoked \in BOOLEAN, NEW action, NEW receipt,
           NEW policy, NEW available, NEW hasValidator \in BOOLEAN,
           receipt.reuse_class \in {"EXACT", "VERIFIED", "ADVISORY", "UNSAFE"},
           receipt.result_digest \notin {Empty, Malformed}
    PROVE  LET v == UpToValidator(condition, isRevoked, action, receipt, policy, available,
                                  hasValidator)
           IN  /\ v # NeedsValidator =>
                     v.state = TableState(condition, isRevoked, action, receipt, policy,
                                          available, "none")
               /\ v = NeedsValidator => \A outcome \in Outcomes :
                     Validated(outcome).state
                       = TableState(condition, isRevoked, action, receipt, policy,
                                    available, outcome)
<1> DEFINE v == UpToValidator(condition, isRevoked, action, receipt, policy, available,
                              hasValidator)
<1>1. v.state = InOrder(condition, isRevoked, action, receipt, policy, available, hasValidator)
  BY ChecksInOrder
<1>2. v = NeedsValidator <=> v.state = "undecided"
  <2>1. v # NeedsValidator => v.state \in DecisionStates
    BY ChecksAreSound
  <2> QED
    BY <2>1, Handovers DEF DecisionStates
<1> HIDE DEF v
<1>3. CASE v # NeedsValidator
  <2>1. v.state = TableState(condition, isRevoked, action, receipt, policy, available, "none")
    BY <1>1, <1>2, <1>3, StatesOfChecks DEF TableState, InOrder
  <2> QED
    BY <1>3, <2>1 DEF v
<1>4. CASE v = NeedsValidator
  <2>1. ASSUME NEW outcome \in Outcomes
        PROVE  TableState(condition, isRevoked, action, receipt, policy, available, outcome)
                 = IF outcome = "pass" THEN "REUSABLE_EXACT"
                   ELSE IF outcome = "reject" THEN "STALE" ELSE "UNKNOWN"
    BY <1>1, <1>2, <1>4, StatesOfChecks DEF TableState, InOrder, Outcomes
  <2>2. ASSUME NEW outcome \in Outcomes
        PROVE  Validated(outcome).state
                 = IF outcome = "pass" THEN "REUSABLE_EXACT"
                   ELSE IF outcome = "reject" THEN "STALE" ELSE "UNKNOWN"
    BY VerdictParts DEF Validated, Outcomes
  <2> QED
    BY <1>4, <2>1, <2>2 DEF v
<1> QED
  BY <1>3, <1>4
=============================================================================
