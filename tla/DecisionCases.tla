---------------------------- MODULE DecisionCases ----------------------------
(***************************************************************************)
(* The inputs on which the decision is checked: a current action, a        *)
(* receipt whose action differs from it in one field or none and that      *)
(* deviates in each of its own fields independently, and a trust policy.   *)
(***************************************************************************)
EXTENDS ReuseDecision

\* The texts that stand for a result's digest and an authorization's are
\* digests.
ASSUME DigestsAreTexts == {"r1", "a1"} \cap {Empty, Malformed} = {}

CurrentActions ==
    [trust_scope : {"t1"}, authorization_scope_digest : {None},
     side_effect_class : {"READ_ONLY", "LOCAL_WRITE"}, dependency_completeness : BOOLEAN,
     dependencies : {{"d1"}}, validator_identity : {None, Empty, "v1"}, facts : {"f1"}]

\* The action of the receipt: the current one, with at most one change.
Deviations(action) ==
    {action,
     [action EXCEPT !.trust_scope = "t2"],
     [action EXCEPT !.authorization_scope_digest = "a1"],
     [action EXCEPT !.side_effect_class = "EXTERNAL_MUTATION"],
     [action EXCEPT !.dependency_completeness = ~@],
     [action EXCEPT !.dependencies = {"d1", "d2"}],
     [action EXCEPT !.validator_identity = "v2"],
     [action EXCEPT !.facts = "f2"]}

ReceiptsFor(action) ==
    [action : Deviations(action), trust_scope : {"t1", "t2"},
     reuse_class : {"EXACT", "VERIFIED", "ADVISORY", "UNSAFE"},
     dependency_snapshot : {{"d1"}, {}}, result_digest : {"r1"},
     validator_identity : {None, Empty, "v1"}, revocation_ref : {None, Empty, "ref"},
     producer_identity : {"p1", "p2"}, cache_scope : {"private"},
     provenance : {[method |-> "m1"], [other |-> "m1"]}]

Policy == [allowed_producers |-> {"p1"}, allowed_cache_scopes |-> {"private"},
           required_provenance |-> [method |-> "m1"]]
=============================================================================
