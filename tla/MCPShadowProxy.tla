---------------------------- MODULE MCPShadowProxy ----------------------------
(***************************************************************************)
(* MCPShadowProxy of mcp_shadow.py: threads call its methods on one proxy  *)
(* object.  forward evaluates the receipt that the proxy's index names for *)
(* its action, executes the tool, compares the result with that receipt's, *)
(* and records a receipt of its own: first in the store, then in the       *)
(* index.  evaluate_tools_call ends after the first of these, and          *)
(* observe_tools_call is the last of them, of a result that the caller     *)
(* has.  The index lives in the proxy's process; the store is shared, and  *)
(* durable when it is SQLite.  Receipts can be revoked at any time.  A     *)
(* store call is one step, by StoreContract.                               *)
(***************************************************************************)
EXTENDS ReuseDecision, StoreContract

CONSTANTS
    Threads,
    Calls,        \* [op, action, producer_identity, cache_scope]: a method (forward,
                  \* evaluate or observe) and its arguments
    Policy,       \* the proxy's trust policy
    Values,       \* digests of ordinary tool results
    Times,        \* readings of the clock (created_at)
    Backends,     \* the stores in use: TRUE is SQLite, FALSE is in-memory
    MaxCalls      \* bound: calls of the proxy's methods in one behaviour

ASSUME CallBound == MaxCalls \in Nat

ASSUME CallsHaveMethods == \A call \in Calls : call.op \in {"forward", "evaluate", "observe"}

VARIABLES
    sqlite,       \* the backend
    stored,       \* receipts put in the store
    revoked,
    index,        \* _by_action: [Actions -> the latest receipt, or None]
    fwd,          \* [Threads -> the call in progress]
    started       \* calls started, up to MaxCalls

vars == <<sqlite, stored, revoked, index, fwd, started>>
storeVars == <<sqlite, stored, revoked>>

\* evaluate_tools_call has no validator_identity parameter: the action that
\* forward looks up is its own without the validator.
LookupAction(call) == [call.action EXCEPT !.validator_identity = None]

Actions == {call.action : call \in Calls} \cup {LookupAction(call) : call \in Calls}

\* Mutant of Eligible: failed calls are recorded too.
Eligible_AnyResult(action, result) == ReadOnly(action)

\* isError is looked for in the mapping that the tool returned, and not in
\* the "result" member of a JSON-RPC response.
Eligible(action, result) == ReadOnly(action) /\ result.kind # "error"

\* What the tool may do: return an ordinary result, one with isError, or a
\* response around one with isError; a result with numbers in it, which the
\* canonicalizer refuses; or raise.
Returned == [kind : {"ok", "error", "wrapped error"}, digest : Values] \cup [kind : {"numeric"}]
ToolResults == Returned \cup [kind : {"exception"}]

ReceiptFor(call, result, time) ==
    [action |-> call.action, trust_scope |-> call.action.trust_scope,
     reuse_class |-> "EXACT", dependency_snapshot |-> call.action.dependencies,
     result_digest |-> result.digest, validator_identity |-> call.action.validator_identity,
     revocation_ref |-> None, producer_identity |-> call.producer_identity,
     cache_scope |-> call.cache_scope,
     provenance |-> [protocol |-> "mcp", method |-> "tools/call"], created_at |-> time]

Receipts ==
    {ReceiptFor(call, [digest |-> value], time) : call \in Calls, value \in Values, time \in Times}

Steps == {"idle", "get", "absent", "check", "call", "compare", "record", "index",
          "returned", "raised"}

Resting == [pc |-> "idle"]

Forwards ==
    [pc : Steps \ {"idle"}, call : Calls, prior : Receipts \cup {None},
     decision : [state : DecisionStates \cup {"undecided"},
                 reason : Reasons \cup {"no prior receipt", "ineligible MCP result",
                                        "receipt recorded"}],
     executed : 0..1, result : ToolResults \cup {None},
     matches : {"none", "yes", "no"}, receipt : Receipts \cup {None},
     known : BOOLEAN, equivalent : Receipts \cup {None}]

TypeOK ==
    /\ sqlite \in Backends
    /\ stored \subseteq Receipts
    /\ revoked \subseteq Receipts
    /\ index \in [Actions -> Receipts \cup {None}]
    /\ fwd \in [Threads -> {Resting} \cup Forwards]
    /\ started \in 0..MaxCalls

Init ==
    /\ sqlite \in Backends
    /\ stored = {} /\ revoked = {}
    /\ index = [action \in Actions |-> None]
    /\ fwd = [t \in Threads |-> Resting]
    /\ started = 0

-----------------------------------------------------------------------------
At(t, pc) == fwd[t].pc = pc
Move(t, pc) == fwd' = [fwd EXCEPT ![t].pc = pc]

\* evaluate_tools_call returns the decision, forward goes on to the tool.
Decided(call) == IF call.op = "evaluate" THEN "returned" ELSE "call"

\* Mutant of Decide: a reusable receipt stands in for the call.
Decide_CacheHit(t, verdict) ==
    fwd' = [fwd EXCEPT ![t].decision = verdict,
              ![t].pc = IF verdict.state = "REUSABLE_EXACT" THEN "returned"
                        ELSE Decided(fwd[t].call)]

Decide(t, verdict) ==
    fwd' = [fwd EXCEPT ![t].decision = verdict, ![t].pc = Decided(fwd[t].call)]

\* A call that has not read anything yet.
Fresh(call, pc) ==
    [pc |-> pc, call |-> call, prior |-> None, decision |-> Undecided, executed |-> 0,
     result |-> None, matches |-> "none", receipt |-> None, known |-> FALSE,
     equivalent |-> None]

Begin(t, call) ==
    /\ At(t, "idle")
    /\ started < MaxCalls
    /\ started' = started + 1
    /\ UNCHANGED <<storeVars, index>>

\* action_for_request raises: the request is no tools/call with a name and an
\* object of arguments, or these have no canonical form.
Refuse(t, call) ==
    /\ Begin(t, call)
    /\ fwd' = [fwd EXCEPT ![t] = Fresh(call, "raised")]

\* forward and evaluate_tools_call: the index is read once.  History:
\* "known", the receipt found was already revoked; "equivalent", what the
\* index had for the call's own action.
LookUp(t, call) ==
    LET prior == index[LookupAction(call)] IN
    /\ call.op # "observe"
    /\ Begin(t, call)
    /\ fwd' = [fwd EXCEPT ![t] =
          [Fresh(call, IF prior = None THEN Decided(call) ELSE "get") EXCEPT
              !.prior = prior,
              !.decision = IF prior = None THEN Verdict("UNKNOWN", "no prior receipt")
                                           ELSE Undecided,
              !.known = prior \in revoked, !.equivalent = index[call.action]]]

\* observe_tools_call is given a result.
Observe(t, call, result) ==
    /\ call.op = "observe"
    /\ Begin(t, call)
    /\ fwd' = [fwd EXCEPT ![t] = [Fresh(call, "record") EXCEPT !.result = result]]

\* evaluate_digest, without a validator or a result at hand.
Get(t) ==
    LET r == fwd[t].prior IN
    /\ At(t, "get")
    /\ \/ MayReturn(r, stored, revoked, sqlite) /\ Move(t, "check")
       \/ MayMiss(r, stored, revoked, sqlite) /\ Move(t, "absent")
    /\ UNCHANGED <<storeVars, index, started>>

Absent(t) ==
    /\ At(t, "absent")
    /\ Decide(t, IF fwd[t].prior \in revoked
                 THEN Verdict("REVOKED", "receipt revoked")
                 ELSE Verdict("UNKNOWN", "receipt not found"))
    /\ UNCHANGED <<storeVars, index, started>>

\* Mutant of Check: a receipt that get returned is taken as not revoked.
Check_TrustsGet(t) ==
    /\ At(t, "check")
    /\ Decide(t, UpToValidator("intact", FALSE, LookupAction(fwd[t].call),
                               fwd[t].prior, Policy, None, FALSE))
    /\ UNCHANGED <<storeVars, index, started>>

Check(t) ==
    /\ At(t, "check")
    /\ Decide(t, UpToValidator("intact", fwd[t].prior \in revoked, LookupAction(fwd[t].call),
                               fwd[t].prior, Policy, None, FALSE))
    /\ UNCHANGED <<storeVars, index, started>>

\* Mutant of Execute: a failed call is tried once more.
Execute_Retries(t, result) ==
    /\ At(t, "call")
    /\ fwd' = [fwd EXCEPT ![t].result = result,
                 ![t].executed = IF result.kind = "error" THEN 2 ELSE 1,
                 ![t].pc = IF result.kind \in {"exception", "numeric"} THEN "raised"
                           ELSE IF fwd[t].prior # None THEN "compare" ELSE "record"]
    /\ UNCHANGED <<storeVars, index, started>>

\* call(request), then the digest of what it returned, which raises when the
\* result has numbers in it: the tool has run, the forward is lost.
Execute(t, result) ==
    /\ At(t, "call")
    /\ fwd' = [fwd EXCEPT ![t].executed = @ + 1, ![t].result = result,
                 ![t].pc = IF result.kind \in {"exception", "numeric"} THEN "raised"
                           ELSE IF fwd[t].prior # None THEN "compare" ELSE "record"]
    /\ UNCHANGED <<storeVars, index, started>>

\* Mutant of Compare: finding the prior receipt counts as a match.
Compare_FoundMatches(t) ==
    LET r == fwd[t].prior IN
    /\ At(t, "compare")
    /\ fwd' = [fwd EXCEPT ![t].pc = "record",
                 ![t].matches = IF MayReturn(r, stored, revoked, sqlite)
                                THEN "yes" ELSE "no"]
    /\ UNCHANGED <<storeVars, index, started>>

\* The prior receipt is read again, after the call: a match needs it.
Compare(t) ==
    LET r == fwd[t].prior
        same == r.result_digest = fwd[t].result.digest
    IN
    /\ At(t, "compare")
    /\ \E found \in BOOLEAN :
          /\ found => MayReturn(r, stored, revoked, sqlite)
          /\ ~found => MayMiss(r, stored, revoked, sqlite)
          /\ fwd' = [fwd EXCEPT ![t].pc = "record",
                                ![t].matches = IF found /\ same THEN "yes" ELSE "no"]
    /\ UNCHANGED <<storeVars, index, started>>

\* What observe_tools_call decides; forward keeps its own decision.
Observed(t, verdict) ==
    IF fwd[t].call.op = "observe" THEN verdict ELSE fwd[t].decision

\* observe_tools_call: nothing is recorded of a failure or of a side effect.
Skip(t) ==
    /\ At(t, "record")
    /\ ~Eligible(fwd[t].call.action, fwd[t].result)
    /\ fwd' = [fwd EXCEPT ![t].pc = "returned",
                 ![t].decision = Observed(t, Verdict("UNSAFE", "ineligible MCP result"))]
    /\ UNCHANGED <<storeVars, index, started>>

\* An observed result with numbers in it raises only here.
Unhashable(t) ==
    /\ At(t, "record")
    /\ Eligible(fwd[t].call.action, fwd[t].result)
    /\ fwd[t].result.kind = "numeric"
    /\ Move(t, "raised")
    /\ UNCHANGED <<storeVars, index, started>>

Recordable(t) ==
    /\ Eligible(fwd[t].call.action, fwd[t].result)
    /\ fwd[t].result.kind # "numeric"

\* Mutant of Record: the index entry comes first, the put after it.
Record_IndexFirst(t, time) ==
    LET receipt == ReceiptFor(fwd[t].call, fwd[t].result, time) IN
    /\ At(t, "record")
    /\ Recordable(t)
    /\ index' = [index EXCEPT ![fwd[t].call.action] = receipt]
    /\ fwd' = [fwd EXCEPT ![t].pc = "index", ![t].receipt = receipt]
    /\ UNCHANGED <<storeVars, started>>

\* store.put(receipt) ...
Record(t, time) ==
    LET receipt == ReceiptFor(fwd[t].call, fwd[t].result, time) IN
    /\ At(t, "record")
    /\ Recordable(t)
    /\ stored' = stored \cup {receipt}
    /\ fwd' = [fwd EXCEPT ![t].pc = "index", ![t].receipt = receipt]
    /\ UNCHANGED <<sqlite, revoked, index, started>>

\* ... and, as a step of its own, _by_action[action.digest] = receipt.digest.
Index(t) ==
    /\ At(t, "index")
    /\ index' = [index EXCEPT ![fwd[t].call.action] = fwd[t].receipt]
    /\ fwd' = [fwd EXCEPT ![t].pc = "returned",
                 ![t].decision = Observed(t, Verdict("UNKNOWN", "receipt recorded"))]
    /\ UNCHANGED <<storeVars, started>>

\* A store call raises and the exception leaves forward; a put may have
\* taken effect before it raised, so the index is then not reached.
StoreRaises(t) ==
    /\ \/ fwd[t].pc \in {"get", "absent", "check", "compare", "index"}
       \/ At(t, "record") /\ Recordable(t)
    /\ Move(t, "raised")
    /\ UNCHANGED <<storeVars, index, started>>

Return(t) ==
    /\ fwd[t].pc \in {"returned", "raised"}
    /\ fwd' = [fwd EXCEPT ![t] = Resting]
    /\ UNCHANGED <<storeVars, index, started>>

\* Someone revokes a published receipt.
Revoke(r) ==
    /\ r \in stored
    /\ revoked' = revoked \cup {r}
    /\ UNCHANGED <<sqlite, stored, index, fwd, started>>

\* Mutant of Restart: the index outlives the store it points into.
Restart_KeepsIndex ==
    /\ fwd' = [t \in Threads |-> Resting]
    /\ stored' = IF sqlite THEN stored ELSE {}
    /\ revoked' = IF sqlite THEN revoked ELSE {}
    /\ UNCHANGED <<sqlite, index, started>>

\* A new proxy object takes over, in a new process or not: the index is gone,
\* an in-memory store goes with its process, a SQLite file is opened again.
Restart ==
    /\ index' = [action \in Actions |-> None]
    /\ fwd' = [t \in Threads |-> Resting]
    /\ \/ UNCHANGED <<stored, revoked>>
       \/ ~sqlite /\ stored' = {} /\ revoked' = {}
    /\ UNCHANGED <<sqlite, started>>

Step(t) ==
    \/ Get(t) \/ Absent(t) \/ Check(t) \/ Compare(t) \/ Skip(t) \/ Unhashable(t)
    \/ Index(t)
    \/ \E result \in ToolResults : Execute(t, result)
    \/ \E time \in Times : Record(t, time)
    \/ StoreRaises(t) \/ Return(t)

Next ==
    \/ \E t \in Threads :
          \/ Step(t)
          \/ \E call \in Calls :
                \/ Refuse(t, call) \/ LookUp(t, call)
                \/ \E result \in Returned : Observe(t, call, result)
    \/ \E r \in Receipts : Revoke(r)
    \/ Restart

Spec == Init /\ [][Next]_vars

-----------------------------------------------------------------------------
(* Properties *)

\* The index never names a receipt that the store does not have or that was
\* made for another action, for all interleavings of calls, exceptions
\* and restarts: put comes before the index entry (161-162).
IndexIsBacked ==
    \A action \in Actions : index[action] # None =>
        index[action] \in stored /\ index[action].action = action

\* So an evaluation never reports the indexed receipt as "not found"; a miss
\* is always a revocation, on either backend (192-197, protocol.py:674-678).
PriorIsAlwaysFound ==
    \A t \in Threads : fwd[t].pc # "idle" => fwd[t].decision.reason # "receipt not found"

\* "would_reuse" is backed by an earlier recorded call of a read-only tool
\* with complete dependencies and an admitted producer, whose receipt was
\* not revoked when the forward began.
WouldReuseIsJustified ==
    \A t \in Threads :
        fwd[t].pc # "idle" /\ fwd[t].decision.state = "REUSABLE_EXACT" =>
            /\ fwd[t].prior \in stored
            /\ ~fwd[t].known
            /\ ReuseEvidence("intact", FALSE, LookupAction(fwd[t].call), fwd[t].prior,
                             Policy, None, "none")

\* The comparison shown to the operator is honest: a match is one, and a
\* mismatch is one too unless the prior was revoked by then (233-236).
ComparisonIsHonest ==
    \A t \in Threads : fwd[t].pc # "idle" =>
        /\ fwd[t].matches = "yes" => fwd[t].prior.result_digest = fwd[t].result.digest
        /\ fwd[t].matches = "no" =>
              \/ fwd[t].prior.result_digest # fwd[t].result.digest
              \/ fwd[t].prior \in revoked

\* The shadow only watches: a forward that returns has executed the tool
\* exactly once whatever it decided, one that raises at most once, and the
\* other methods never (226, 267).
ReturnedMeansExecutedOnce ==
    \A t \in Threads :
        /\ At(t, "returned") => fwd[t].executed = IF fwd[t].call.op = "forward" THEN 1 ELSE 0
        /\ At(t, "raised") => fwd[t].executed \in 0..1

\* No receipt describes a side effect, or a call whose result says by itself
\* that it failed, or an exception (94-96, 145).
OnlyEligibleCallsAreRecorded ==
    /\ \A r \in stored : ReadOnly(r.action)
    /\ \A t \in Threads : fwd[t].pc # "idle" /\ fwd[t].receipt # None =>
          fwd[t].result.kind \in {"ok", "wrapped error"}

\* docs/MCP_INTEROP.md:18, "record a receipt only for an ordinary successful
\* read-only result": also where the tool answers with a response around it.
OnlySuccessfulReadsAreRecorded ==
    \A t \in Threads : fwd[t].pc # "idle" /\ fwd[t].receipt # None =>
        fwd[t].result.kind = "ok"

\* docs/MCP_INTEROP.md:19, "evaluate a later equivalent action against the
\* stored receipt": a forward whose very action has a receipt in the index
\* is decided against a receipt.
LaterEquivalentActionIsEvaluated ==
    \A t \in Threads : fwd[t].pc # "idle" /\ fwd[t].equivalent # None => fwd[t].prior # None
=============================================================================
