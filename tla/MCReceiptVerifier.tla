-------------------------- MODULE MCReceiptVerifier --------------------------
(***************************************************************************)
(* A small instance of ReceiptVerifier: two receipts, one of each          *)
(* authoritative class, and an action that differs from theirs.            *)
(***************************************************************************)
EXTENDS ReceiptVerifier

Action(facts) ==
    [trust_scope |-> "local", authorization_scope_digest |-> None,
     side_effect_class |-> "READ_ONLY", dependency_completeness |-> TRUE,
     dependencies |-> {"dep1"}, validator_identity |-> "validator", facts |-> facts]

Receipt(class) ==
    [action |-> Action("f1"), trust_scope |-> "local", reuse_class |-> class,
     dependency_snapshot |-> {"dep1"}, result_digest |-> "result1",
     validator_identity |-> "validator", revocation_ref |-> None,
     producer_identity |-> "producer", cache_scope |-> "private",
     provenance |-> [method |-> "tools/call"]]

MCActions == {Action("f1"), Action("f2")}
MCReceipts == {Receipt("EXACT"), Receipt("VERIFIED")}
MCPolicies ==
    {[allowed_producers |-> {}, allowed_cache_scopes |-> {},
      required_provenance |-> [k \in {} |-> ""]],
     [allowed_producers |-> {"producer"}, allowed_cache_scopes |-> {"private"},
      required_provenance |-> [method |-> "tools/call"]]}
MCResults == {"result1", Malformed}
=============================================================================
