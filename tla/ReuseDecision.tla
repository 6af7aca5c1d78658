---------------------------- MODULE ReuseDecision ----------------------------
(***************************************************************************)
(* The decision of ReceiptVerifier.evaluate (protocol.py), as operators    *)
(* over actions, receipts and trust policies.  Everything that the action  *)
(* digest binds and that no check reads on its own (operation, version,    *)
(* input, environment, freshness) is the field "facts"; digests are        *)
(* collision free, so two actions have one digest exactly when they are    *)
(* equal.  Dependencies are kept sorted and duplicate free by the          *)
(* constructors, so they are a set here.                                   *)
(***************************************************************************)
EXTENDS Naturals

CONSTANTS
    None,       \* Python's None
    Empty,      \* the empty text, which optional fields admit
    Malformed   \* a text that is not a SHA-256 digest

ASSUME DistinctAbsences == None # Empty /\ None # Malformed

DecisionStates == {"REUSABLE_EXACT", "REQUIRES_VALIDATION", "ADVISORY_ONLY", "REVOKED",
                   "STALE", "SCOPE_MISMATCH", "UNSAFE", "UNKNOWN"}

Reasons == {
    "", "receipt not found", "receipt integrity or schema failure", "receipt revoked",
    "trust scope mismatch", "authorization scope mismatch",
    "non-read-only action is not reusable", "receipt describes non-read-only work",
    "receipt is marked unsafe", "dependency declaration is incomplete",
    "action identity mismatch", "dependency snapshot mismatch",
    "available result digest is malformed", "result digest mismatch", "not trusted",
    "identity and dependencies match", "context only",
    "matching validator identity required", "current validator required",
    "current validator", "current validator passed", "current validator rejected receipt",
    "current validator failed", "non-boolean validator result", "store failure"}

\* What a check returns to the caller; Undecided lets the next check run.
Verdict(state, reason) == [state |-> state, reason |-> reason]
Undecided == Verdict("undecided", "")
NeedsValidator == Verdict("undecided", "current validator")

ReadOnly(action) == action.side_effect_class = "READ_ONLY"
Complete(action) == action.dependency_completeness
\* Mutant of Authoritative: VERIFIED receipts pass without a trust policy.
Authoritative_ExactOnly(receipt) == receipt.reuse_class = "EXACT"

Authoritative(receipt) == receipt.reuse_class \in {"EXACT", "VERIFIED"}

\* ReceiptTrustPolicy.admits
Admits(policy, receipt) ==
    /\ receipt.producer_identity \in policy.allowed_producers
    /\ receipt.cache_scope \in policy.allowed_cache_scopes
    /\ \A key \in DOMAIN policy.required_provenance :
          /\ key \in DOMAIN receipt.provenance
          /\ receipt.provenance[key] = policy.required_provenance[key]

ScopeRefusal(action, receipt) ==
    IF action.trust_scope # receipt.trust_scope
         \/ action.trust_scope # receipt.action.trust_scope
    THEN Verdict("SCOPE_MISMATCH", "trust scope mismatch")
    ELSE IF action.authorization_scope_digest # receipt.action.authorization_scope_digest
    THEN Verdict("SCOPE_MISMATCH", "authorization scope mismatch")
    ELSE Undecided

SafetyRefusal(action, receipt) ==
    IF ~ReadOnly(action)
    THEN Verdict("UNSAFE", "non-read-only action is not reusable")
    ELSE IF ~ReadOnly(receipt.action)
    THEN Verdict("UNSAFE", "receipt describes non-read-only work")
    ELSE IF receipt.reuse_class = "UNSAFE"
    THEN Verdict("UNSAFE", "receipt is marked unsafe")
    ELSE IF ~Complete(action) \/ ~Complete(receipt.action)
    THEN Verdict("UNKNOWN", "dependency declaration is incomplete")
    ELSE Undecided

FreshnessRefusal(action, receipt, available) ==
    IF action # receipt.action
    THEN Verdict("STALE", "action identity mismatch")
    ELSE IF action.dependencies # receipt.dependency_snapshot
    THEN Verdict("STALE", "dependency snapshot mismatch")
    ELSE IF available \in {Empty, Malformed}
    THEN Verdict("UNKNOWN", "available result digest is malformed")
    ELSE IF available # None /\ available # receipt.result_digest
    THEN Verdict("UNKNOWN", "result digest mismatch")
    ELSE Undecided

ClassVerdict(action, receipt, policy, hasValidator) ==
    IF Authoritative(receipt) /\ ~Admits(policy, receipt)
    THEN Verdict("UNKNOWN", "not trusted")
    ELSE IF receipt.reuse_class = "EXACT"
    THEN Verdict("REUSABLE_EXACT", "identity and dependencies match")
    ELSE IF receipt.reuse_class = "ADVISORY"
    THEN Verdict("ADVISORY_ONLY", "context only")
    ELSE IF receipt.validator_identity \in {None, Empty}
              \/ receipt.validator_identity # action.validator_identity
    THEN Verdict("REQUIRES_VALIDATION", "matching validator identity required")
    ELSE IF ~hasValidator
    THEN Verdict("REQUIRES_VALIDATION", "current validator required")
    ELSE NeedsValidator

\* Mutants of Evidence: freshness is checked before safety; the class is
\* decided before freshness.
Evidence_FreshnessFirst(action, receipt, policy, available, hasValidator) ==
    IF ScopeRefusal(action, receipt) # Undecided
    THEN ScopeRefusal(action, receipt)
    ELSE IF FreshnessRefusal(action, receipt, available) # Undecided
    THEN FreshnessRefusal(action, receipt, available)
    ELSE IF SafetyRefusal(action, receipt) # Undecided
    THEN SafetyRefusal(action, receipt)
    ELSE ClassVerdict(action, receipt, policy, hasValidator)

Evidence_NoFreshness(action, receipt, policy, available, hasValidator) ==
    IF ScopeRefusal(action, receipt) # Undecided
    THEN ScopeRefusal(action, receipt)
    ELSE IF SafetyRefusal(action, receipt) # Undecided
    THEN SafetyRefusal(action, receipt)
    ELSE ClassVerdict(action, receipt, policy, hasValidator)

\* Everything evaluate checks between the revocation check and the call of
\* the validator, in the order of the code.
Evidence(action, receipt, policy, available, hasValidator) ==
    IF ScopeRefusal(action, receipt) # Undecided
    THEN ScopeRefusal(action, receipt)
    ELSE IF SafetyRefusal(action, receipt) # Undecided
    THEN SafetyRefusal(action, receipt)
    ELSE IF FreshnessRefusal(action, receipt, available) # Undecided
    THEN FreshnessRefusal(action, receipt, available)
    ELSE ClassVerdict(action, receipt, policy, hasValidator)

\* What evaluate makes of the validator: only the Boolean TRUE reuses.
Outcomes == {"pass", "reject", "exception", "non-boolean"}

\* Mutants of Validated: any truthy answer of the validator passes; its
\* answer is handed on.
Validated_Truthy(outcome) ==
    IF outcome \in {"pass", "non-boolean"}
    THEN Verdict("REUSABLE_EXACT", "current validator passed")
    ELSE Verdict("STALE", "current validator rejected receipt")

Validated_Raw(outcome) == Verdict(outcome, "current validator")

Validated(outcome) ==
    CASE outcome = "pass"        -> Verdict("REUSABLE_EXACT", "current validator passed")
      [] outcome = "reject"      -> Verdict("STALE", "current validator rejected receipt")
      [] outcome = "exception"   -> Verdict("UNKNOWN", "current validator failed")
      [] outcome = "non-boolean" -> Verdict("UNKNOWN", "non-boolean validator result")

\* evaluate from its start to the call of the validator.  A receipt is a
\* frozen object; one that was altered around that fails validate_receipt.
Conditions == {"intact", "altered"}

UpToValidator(condition, isRevoked, action, receipt, policy, available, hasValidator) ==
    IF condition = "altered"
    THEN Verdict("UNKNOWN", "receipt integrity or schema failure")
    ELSE IF isRevoked \/ receipt.revocation_ref # None
    THEN Verdict("REVOKED", "receipt revoked")
    ELSE Evidence(action, receipt, policy, available, hasValidator)

-----------------------------------------------------------------------------
(* The reference: the precedence table of docs/PROTOCOL.md, section 6. *)

ValidatorMatches(action, receipt) ==
    /\ receipt.validator_identity \notin {None, Empty}
    /\ receipt.validator_identity = action.validator_identity

ProtocolTable(condition, isRevoked, action, receipt, policy, available, outcome) == <<
    [when |-> condition # "intact", state |-> "UNKNOWN"],
    [when |-> isRevoked \/ receipt.revocation_ref # None, state |-> "REVOKED"],
    [when |-> \/ {action.trust_scope} # {receipt.trust_scope, receipt.action.trust_scope}
              \/ action.authorization_scope_digest
                     # receipt.action.authorization_scope_digest,
     state |-> "SCOPE_MISMATCH"],
    [when |-> ~(ReadOnly(action) /\ ReadOnly(receipt.action)), state |-> "UNSAFE"],
    [when |-> receipt.reuse_class = "UNSAFE", state |-> "UNSAFE"],
    [when |-> ~(Complete(action) /\ Complete(receipt.action)), state |-> "UNKNOWN"],
    [when |-> action # receipt.action, state |-> "STALE"],
    [when |-> receipt.dependency_snapshot # action.dependencies, state |-> "STALE"],
    [when |-> available \notin {None, receipt.result_digest}, state |-> "UNKNOWN"],
    [when |-> Authoritative(receipt) /\ ~Admits(policy, receipt), state |-> "UNKNOWN"],
    [when |-> receipt.reuse_class = "EXACT", state |-> "REUSABLE_EXACT"],
    [when |-> receipt.reuse_class = "ADVISORY", state |-> "ADVISORY_ONLY"],
    [when |-> ~ValidatorMatches(action, receipt), state |-> "REQUIRES_VALIDATION"],
    [when |-> outcome = "none", state |-> "REQUIRES_VALIDATION"],
    [when |-> outcome = "pass", state |-> "REUSABLE_EXACT"],
    [when |-> outcome = "reject", state |-> "STALE"],
    [when |-> TRUE, state |-> "UNKNOWN"] >>

\* The first row that applies.
FirstApplicable(table) ==
    table[CHOOSE i \in DOMAIN table :
             table[i].when /\ \A j \in DOMAIN table : table[j].when => i <= j].state

\* No decision reuses more than this.
ReuseEvidence(condition, isRevoked, action, receipt, policy, available, outcome) ==
    /\ condition = "intact"
    /\ ~isRevoked
    /\ receipt.revocation_ref = None
    /\ action = receipt.action
    /\ receipt.trust_scope = action.trust_scope
    /\ ReadOnly(action)
    /\ Complete(action)
    /\ receipt.dependency_snapshot = action.dependencies
    /\ available \in {None, receipt.result_digest}
    /\ Admits(policy, receipt)
    /\ \/ receipt.reuse_class = "EXACT"
       \/ /\ receipt.reuse_class = "VERIFIED"
          /\ ValidatorMatches(action, receipt)
          /\ outcome = "pass"
=============================================================================
