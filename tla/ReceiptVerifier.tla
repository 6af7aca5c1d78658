--------------------------- MODULE ReceiptVerifier ---------------------------
(***************************************************************************)
(* ReceiptVerifier of protocol.py: consumers evaluate receipts while other *)
(* processes publish and revoke them.  evaluate_digest makes two store     *)
(* calls and may call a validator that runs for as long as it likes;       *)
(* between them the store moves.  A store call is one atomic step that     *)
(* answers as StoreContract allows, which is what both backends implement  *)
(* (SQLiteReceiptStore, InMemoryReceiptStore).                             *)
(***************************************************************************)
EXTENDS ReuseDecision, StoreContract

CONSTANTS
    Consumers,
    Actions,      \* current actions consumers ask about
    Receipts,     \* receipts producers publish
    Policies,     \* trust policies
    Results,      \* values of available_result_digest other than None
    Backends      \* the stores in use: TRUE hides revoked receipts from get

\* reuse_class is an enumeration.
ASSUME ReceiptsHaveClasses ==
    \A r \in Receipts : r.reuse_class \in {"EXACT", "VERIFIED", "ADVISORY", "UNSAFE"}

\* A receipt's own result digest is a SHA-256 digest (__post_init__).
ASSUME ReceiptsHaveDigests ==
    \A r \in Receipts : r.result_digest \notin {Empty, Malformed}

VARIABLES
    hidesRevoked, \* the backend
    readable, written, revoked,
    eval          \* [Consumers -> the evaluation in progress]

vars == <<hidesRevoked, readable, written, revoked, eval>>

Steps == {"idle", "get", "absent", "check", "validate", "done"}

Resting == [pc |-> "idle"]

\* History: "known", revoked when the call began; "present", the caller holds
\* the receipt or the store could read it back ever since the call began.
InProgress(source, action, receipt, policy, available, hasValidator, condition) ==
    [pc |-> IF source = "digest" THEN "get" ELSE "check", source |-> source,
     action |-> action, receipt |-> receipt, policy |-> policy,
     available |-> available, hasValidator |-> hasValidator, condition |-> condition,
     decision |-> Undecided, outcome |-> "none", known |-> receipt \in revoked,
     present |-> source = "object" \/ receipt \in readable]

Evaluations ==
    [pc : Steps \ {"idle"}, source : {"digest", "object"}, action : Actions,
     receipt : Receipts, policy : Policies, available : Results \cup {None},
     hasValidator : BOOLEAN, condition : Conditions,
     decision : [state : DecisionStates \cup {"undecided", "raised"}, reason : Reasons],
     outcome : Outcomes \cup {"none"}, known : BOOLEAN, present : BOOLEAN]

TypeOK ==
    /\ hidesRevoked \in Backends
    /\ readable \subseteq written
    /\ written \subseteq Receipts
    /\ revoked \subseteq Receipts
    /\ eval \in [Consumers -> {Resting} \cup Evaluations]

Init ==
    /\ hidesRevoked \in Backends
    /\ readable = {} /\ written = {} /\ revoked = {}
    /\ eval = [p \in Consumers |-> Resting]

storeVars == <<hidesRevoked, readable, written, revoked>>

-----------------------------------------------------------------------------
(* The store, as other processes move it *)

Publish(r) ==
    /\ readable' = readable \cup {r}
    /\ written' = written \cup {r}
    /\ UNCHANGED <<hidesRevoked, revoked, eval>>

Revoke(r) ==
    /\ revoked' = revoked \cup {r}
    /\ UNCHANGED <<hidesRevoked, readable, written, eval>>

\* The stored copy of r is damaged: no evaluation can count on it any more.
Damage(r) ==
    /\ r \in readable
    /\ readable' = readable \ {r}
    /\ eval' = [p \in Consumers |->
                  IF /\ eval[p].pc # "idle"
                     /\ eval[p].source = "digest" /\ eval[p].receipt = r
                  THEN [eval[p] EXCEPT !.present = FALSE] ELSE eval[p]]
    /\ UNCHANGED <<hidesRevoked, written, revoked>>

-----------------------------------------------------------------------------
(* The consumer *)

At(p, pc) == eval[p].pc = pc

Decide(p, verdict) ==
    eval' = [eval EXCEPT ![p] = [@ EXCEPT !.pc = "done", !.decision = verdict]]

\* evaluate_digest: the receipt is named by its digest ...
EvaluateDigest(p, action, r, policy, available, hasValidator) ==
    /\ At(p, "idle")
    /\ eval' = [eval EXCEPT ![p] =
          InProgress("digest", action, r, policy, available, hasValidator, "intact")]
    /\ UNCHANGED storeVars

\* ... evaluate: the caller holds the object, whatever its condition.
Evaluate(p, action, r, policy, available, hasValidator, condition) ==
    /\ At(p, "idle")
    /\ eval' = [eval EXCEPT ![p] =
          InProgress("object", action, r, policy, available, hasValidator, condition)]
    /\ UNCHANGED storeVars

Get(p) ==
    LET r == eval[p].receipt IN
    /\ At(p, "get")
    /\ \/ MayReturn(r, written, revoked, hidesRevoked)
          /\ eval' = [eval EXCEPT ![p] = [@ EXCEPT !.pc = "check"]]
       \/ MayMiss(r, readable, revoked, hidesRevoked)
          /\ eval' = [eval EXCEPT ![p] = [@ EXCEPT !.pc = "absent"]]
    /\ UNCHANGED storeVars

\* Mutants of Absent: a miss is never, or always, taken for a revocation.
Absent_Unknown(p) ==
    /\ At(p, "absent")
    /\ Decide(p, Verdict("UNKNOWN", "receipt not found"))
    /\ UNCHANGED storeVars

Absent_Revoked(p) ==
    /\ At(p, "absent")
    /\ Decide(p, Verdict("REVOKED", "receipt revoked"))
    /\ UNCHANGED storeVars

\* get found nothing: is_revoked tells a revoked receipt from an unknown one.
Absent(p) ==
    /\ At(p, "absent")
    /\ Decide(p, IF eval[p].receipt \in revoked
                 THEN Verdict("REVOKED", "receipt revoked")
                 ELSE Verdict("UNKNOWN", "receipt not found"))
    /\ UNCHANGED storeVars

\* evaluate up to the validator: integrity first, then the one is_revoked
\* call, then the evidence; the checks after it read nothing shared.
CheckVerdict(e) ==
    UpToValidator(e.condition, e.receipt \in revoked, e.action, e.receipt, e.policy,
                  e.available, e.hasValidator)

Check(p) ==
    /\ At(p, "check")
    /\ IF CheckVerdict(eval[p]) = NeedsValidator
       THEN eval' = [eval EXCEPT ![p] = [@ EXCEPT !.pc = "validate"]]
       ELSE Decide(p, CheckVerdict(eval[p]))
    /\ UNCHANGED storeVars

\* The validator answers, in its own time; nothing is read again after it.
Validate(p, outcome) ==
    /\ At(p, "validate")
    /\ eval' = [eval EXCEPT ![p] = [@ EXCEPT !.pc = "done", !.outcome = outcome,
                                              !.decision = Validated(outcome)]]
    /\ UNCHANGED storeVars

\* A store call raises, and the exception leaves evaluate.
StoreRaises(p) ==
    /\ eval[p].pc \in {"get", "absent", "check"}
    /\ Decide(p, Verdict("raised", "store failure"))
    /\ UNCHANGED storeVars

Return(p) ==
    /\ At(p, "done")
    /\ eval' = [eval EXCEPT ![p] = Resting]
    /\ UNCHANGED storeVars

Begin(p) ==
    \E action \in Actions, r \in Receipts, policy \in Policies,
       available \in Results \cup {None}, hasValidator \in BOOLEAN :
          \/ EvaluateDigest(p, action, r, policy, available, hasValidator)
          \/ \E condition \in Conditions :
                Evaluate(p, action, r, policy, available, hasValidator, condition)

Step(p) ==
    \/ Get(p) \/ Absent(p) \/ Check(p) \/ StoreRaises(p) \/ Return(p)
    \/ \E outcome \in Outcomes : Validate(p, outcome)

Next ==
    \/ \E r \in Receipts : Publish(r) \/ Revoke(r) \/ Damage(r)
    \/ \E p \in Consumers : Begin(p) \/ Step(p)

Spec == Init /\ [][Next]_vars

-----------------------------------------------------------------------------
(* Properties *)

Decided(p, state) == At(p, "done") /\ eval[p].decision.state = state

\* An automatic reuse has all of its evidence: one action with nothing
\* changed, in scope, read-only, with complete and unchanged dependencies, of
\* an admitted producer, confirmed by the named validator when the receipt
\* asks for one, and not revoked before the evaluation began (686-804).
ReuseIsJustified ==
    \A p \in Consumers : Decided(p, "REUSABLE_EXACT") =>
        ReuseEvidence(eval[p].condition, eval[p].known, eval[p].action, eval[p].receipt,
                      eval[p].policy, eval[p].available, eval[p].outcome)

\* A revocation that came before the evaluation decides it, with either
\* backend, whether or not the receipt can still be read, and whatever the
\* store does meanwhile (674-678, 703): PROTOCOL.md:186.
RevocationIsHonoured ==
    \A p \in Consumers :
        At(p, "done") /\ eval[p].known /\ eval[p].condition = "intact" =>
            eval[p].decision.state \in {"REVOKED", "raised"}

\* REVOKED is never a guess: the receipt says so or the store does.
RevokedIsExplained ==
    \A p \in Consumers : Decided(p, "REVOKED") =>
        eval[p].receipt \in revoked \/ eval[p].receipt.revocation_ref # None

\* Every decision is the one PROTOCOL.md section 6 gives for the store as it
\* was at one instant between the call and the decision, although the code
\* reads the store twice.
DecisionIsDocumented ==
    \A p \in Consumers :
        At(p, "done") /\ eval[p].decision.state # "raised" =>
            \E isRevoked \in BOOLEAN, found \in BOOLEAN :
                /\ eval[p].known => isRevoked
                /\ isRevoked => eval[p].receipt \in revoked
                /\ eval[p].present => found
                /\ eval[p].decision.state =
                      IF found
                      THEN FirstApplicable(ProtocolTable(
                              eval[p].condition, isRevoked, eval[p].action,
                              eval[p].receipt, eval[p].policy, eval[p].available,
                              eval[p].outcome))
                      ELSE IF isRevoked THEN "REVOKED" ELSE "UNKNOWN"
=============================================================================
