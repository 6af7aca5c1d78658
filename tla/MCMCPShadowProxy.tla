--------------------------- MODULE MCMCPShadowProxy ---------------------------
(***************************************************************************)
(* A small instance of MCPShadowProxy: a read-only tool called by trusted  *)
(* and by unknown producers, with and without a validator identity, and a  *)
(* tool with side effects.                                                 *)
(***************************************************************************)
EXTENDS MCPShadowProxy, TLC

Action(facts, sideEffect, validator) ==
    [trust_scope |-> "local", authorization_scope_digest |-> None,
     side_effect_class |-> sideEffect, dependency_completeness |-> TRUE,
     dependencies |-> {}, validator_identity |-> validator, facts |-> facts]

Call(op, action, producer) ==
    [op |-> op, action |-> action, producer_identity |-> producer, cache_scope |-> "private"]

ReadCall == Action("read", "READ_ONLY", None)

MCCalls ==
    {Call("forward", ReadCall, "trusted"), Call("evaluate", ReadCall, "trusted"),
     Call("observe", ReadCall, "unknown"),
     Call("forward", Action("write", "EXTERNAL_MUTATION", None), "trusted")}

\* The same read, with a validator identity as well.
MCValidatedCalls ==
    {Call("forward", ReadCall, "trusted"),
     Call("forward", Action("read", "READ_ONLY", "validator"), "trusted")}

MCPolicy ==
    [allowed_producers |-> {"trusted"}, allowed_cache_scopes |-> {"private"},
     required_provenance |-> [method |-> "tools/call"]]

ThreadSymmetry == Permutations(Threads)
=============================================================================
