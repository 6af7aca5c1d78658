------------------------ MODULE IndependentConsumers -------------------------
(***************************************************************************)
(* The consumers of src/implementations (TypeScript, Go and .NET) beside   *)
(* the Python reference: what each decides for one and the same case.      *)
(* Each was written on its own, so each evaluate is translated here on its *)
(* own, as the list of its early returns in the order of its code.         *)
(*                                                                         *)
(* A case is an action, a receipt and the arguments of evaluate.  The      *)
(* consumers of the other languages take the result of a validator that    *)
(* has been run already: "pass", "reject" or, where it was not, "none".    *)
(***************************************************************************)
EXTENDS ReuseDecision

Consumers == {"python", "typescript", "go", "dotnet"}

Python(c, policy) ==
    LET first == UpToValidator(c.condition, c.isRevoked, c.action, c.receipt, policy,
                               c.available, c.outcome # "none")
    IN  (IF first = NeedsValidator THEN Validated(c.outcome) ELSE first).state

\* A document that a parser rejects, or whose receipt digest is not the
\* recomputed one, is UNKNOWN: no consumer reaches its evaluate then.
Parsed(c, decision) == IF c.condition = "intact" THEN decision ELSE "UNKNOWN"

-----------------------------------------------------------------------------
(* TypeScript *)

\* Mutant of HasEmptyText: optional texts may be empty.
HasEmptyText_Never(c) == FALSE

\* canonicalJson refuses every empty string (normalize calls text without
\* "optional"), so parseAction and parseReceipt refuse the optional texts
\* that text(..., true) has let through.
HasEmptyText(c) ==
    Empty \in {c.action.validator_identity, c.receipt.action.validator_identity,
               c.receipt.validator_identity, c.receipt.revocation_ref}

TypeScriptRules(c, policy) == <<
    [when |-> HasEmptyText(c), state |-> "UNKNOWN"],
    [when |-> c.isRevoked \/ c.receipt.revocation_ref # None, state |-> "REVOKED"],
    [when |-> c.action.trust_scope # c.receipt.trust_scope, state |-> "SCOPE_MISMATCH"],
    [when |-> c.action.trust_scope # c.receipt.action.trust_scope,
     state |-> "SCOPE_MISMATCH"],
    [when |-> c.action.authorization_scope_digest
                 # c.receipt.action.authorization_scope_digest,
     state |-> "SCOPE_MISMATCH"],
    [when |-> ~ReadOnly(c.action) \/ ~ReadOnly(c.receipt.action), state |-> "UNSAFE"],
    [when |-> c.receipt.reuse_class = "UNSAFE", state |-> "UNSAFE"],
    [when |-> ~Complete(c.action) \/ ~Complete(c.receipt.action), state |-> "UNKNOWN"],
    [when |-> c.action # c.receipt.action, state |-> "STALE"],
    [when |-> c.action.dependencies # c.receipt.dependency_snapshot, state |-> "STALE"],
    [when |-> c.available \notin {None, c.receipt.result_digest}, state |-> "UNKNOWN"],
    [when |-> c.receipt.reuse_class = "EXACT" /\ ~Admits(policy, c.receipt),
     state |-> "UNKNOWN"],
    [when |-> c.receipt.reuse_class = "EXACT", state |-> "REUSABLE_EXACT"],
    [when |-> c.receipt.reuse_class = "VERIFIED" /\ ~Admits(policy, c.receipt),
     state |-> "UNKNOWN"],
    [when |-> /\ c.receipt.reuse_class = "VERIFIED"
              /\ \/ c.receipt.validator_identity = None
                 \/ c.receipt.validator_identity # c.action.validator_identity,
     state |-> "REQUIRES_VALIDATION"],
    [when |-> c.receipt.reuse_class = "VERIFIED" /\ c.outcome = "none",
     state |-> "REQUIRES_VALIDATION"],
    [when |-> c.receipt.reuse_class = "VERIFIED" /\ c.outcome = "pass",
     state |-> "REUSABLE_EXACT"],
    [when |-> c.receipt.reuse_class = "VERIFIED", state |-> "STALE"],
    [when |-> c.receipt.reuse_class = "ADVISORY", state |-> "ADVISORY_ONLY"],
    [when |-> TRUE, state |-> "UNSAFE"] >>

TypeScript(c, policy) == Parsed(c, FirstApplicable(TypeScriptRules(c, policy)))

-----------------------------------------------------------------------------
(* Go *)

\* pointerString: a nil pointer and the empty string are one value.
PointerString(text) == IF text = None THEN Empty ELSE text

\* An availableResultDigest of "" stands for none.
ResultRefused(c) == c.available \notin {None, Empty, c.receipt.result_digest}

GoRules(c, policy) == <<
    [when |-> c.isRevoked \/ c.receipt.revocation_ref # None, state |-> "REVOKED"],
    [when |-> \/ c.action.trust_scope # c.receipt.trust_scope
              \/ c.action.trust_scope # c.receipt.action.trust_scope
              \/ PointerString(c.action.authorization_scope_digest)
                    # PointerString(c.receipt.action.authorization_scope_digest),
     state |-> "SCOPE_MISMATCH"],
    [when |-> ~ReadOnly(c.action) \/ ~ReadOnly(c.receipt.action), state |-> "UNSAFE"],
    [when |-> c.receipt.reuse_class = "UNSAFE", state |-> "UNSAFE"],
    [when |-> ~Complete(c.action) \/ ~Complete(c.receipt.action), state |-> "UNKNOWN"],
    [when |-> c.action # c.receipt.action, state |-> "STALE"],
    [when |-> c.action.dependencies # c.receipt.dependency_snapshot, state |-> "STALE"],
    [when |-> ResultRefused(c), state |-> "UNKNOWN"],
    [when |-> Authoritative(c.receipt) /\ ~Admits(policy, c.receipt), state |-> "UNKNOWN"],
    [when |-> c.receipt.reuse_class = "EXACT", state |-> "REUSABLE_EXACT"],
    [when |-> /\ c.receipt.reuse_class = "VERIFIED"
              /\ \/ c.receipt.validator_identity = None
                 \/ PointerString(c.receipt.validator_identity)
                       # PointerString(c.action.validator_identity),
     state |-> "REQUIRES_VALIDATION"],
    [when |-> c.receipt.reuse_class = "VERIFIED" /\ c.outcome = "none",
     state |-> "REQUIRES_VALIDATION"],
    [when |-> c.receipt.reuse_class = "VERIFIED" /\ c.outcome = "pass",
     state |-> "REUSABLE_EXACT"],
    [when |-> c.receipt.reuse_class = "VERIFIED", state |-> "STALE"],
    [when |-> c.receipt.reuse_class = "ADVISORY", state |-> "ADVISORY_ONLY"],
    [when |-> TRUE, state |-> "UNSAFE"] >>

\* Mutant of Go: the action's digest is compared before anything else.
Go_StaleFirst(c, policy) ==
    Parsed(c, IF c.action # c.receipt.action
              THEN "STALE" ELSE FirstApplicable(GoRules(c, policy)))

Go(c, policy) == Parsed(c, FirstApplicable(GoRules(c, policy)))

-----------------------------------------------------------------------------
(* .NET *)

DotNetRules(c, policy) == <<
    [when |-> c.isRevoked \/ c.receipt.revocation_ref # None, state |-> "REVOKED"],
    [when |-> \/ c.action.trust_scope # c.receipt.trust_scope
              \/ c.action.trust_scope # c.receipt.action.trust_scope
              \/ c.action.authorization_scope_digest
                    # c.receipt.action.authorization_scope_digest,
     state |-> "SCOPE_MISMATCH"],
    [when |-> ~(ReadOnly(c.action) /\ ReadOnly(c.receipt.action)), state |-> "UNSAFE"],
    [when |-> c.receipt.reuse_class = "UNSAFE", state |-> "UNSAFE"],
    [when |-> ~(Complete(c.action) /\ Complete(c.receipt.action)), state |-> "UNKNOWN"],
    [when |-> c.action # c.receipt.action, state |-> "STALE"],
    [when |-> c.action.dependencies # c.receipt.dependency_snapshot, state |-> "STALE"],
    [when |-> c.available \notin {None, c.receipt.result_digest}, state |-> "UNKNOWN"],
    [when |-> Authoritative(c.receipt) /\ ~Admits(policy, c.receipt), state |-> "UNKNOWN"],
    [when |-> c.receipt.reuse_class = "EXACT", state |-> "REUSABLE_EXACT"],
    [when |-> /\ c.receipt.reuse_class = "VERIFIED"
              /\ \/ c.receipt.validator_identity = None
                 \/ c.receipt.validator_identity # c.action.validator_identity,
     state |-> "REQUIRES_VALIDATION"],
    [when |-> c.receipt.reuse_class = "VERIFIED" /\ c.outcome = "none",
     state |-> "REQUIRES_VALIDATION"],
    [when |-> c.receipt.reuse_class = "VERIFIED" /\ c.outcome = "pass",
     state |-> "REUSABLE_EXACT"],
    [when |-> c.receipt.reuse_class = "VERIFIED", state |-> "STALE"],
    [when |-> c.receipt.reuse_class = "ADVISORY", state |-> "ADVISORY_ONLY"],
    [when |-> TRUE, state |-> "UNSAFE"] >>

\* Mutant of DotNet: the revocation reference of the receipt is not read.
DotNet_StoreRevocationOnly(c, policy) ==
    Parsed(c, FirstApplicable(DotNetRules([c EXCEPT !.receipt.revocation_ref = None],
                                          policy)))

DotNet(c, policy) == Parsed(c, FirstApplicable(DotNetRules(c, policy)))

-----------------------------------------------------------------------------
DecisionOf(consumer, c, policy) ==
    CASE consumer = "python"     -> Python(c, policy)
      [] consumer = "typescript" -> TypeScript(c, policy)
      [] consumer = "go"         -> Go(c, policy)
      [] consumer = "dotnet"     -> DotNet(c, policy)
=============================================================================
