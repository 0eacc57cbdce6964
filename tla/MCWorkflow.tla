----------------------------- MODULE MCWorkflow -----------------------------
(* Instances of Workflow for TLC.                                           *)
EXTENDS Workflow

Plan(first, second) == <<[deps |-> first, repairs |-> {}], [deps |-> second, repairs |-> {}]>>
Independent == Plan({}, {})
Chain == Plan({}, {1})

Opt(auto, part, relax, revise, n, plans) ==
  [autoApprove |-> auto, partial |-> part, relaxed |-> relax, revision |-> revise, required |-> n,
   plans |-> plans,
   additions |-> {<<[deps |-> {}, repairs |-> {1}]>>, <<[deps |-> {1}, repairs |-> {2}]>>}]

(* The two settings of the product, one with a policy that wants a          *)
(* supplement, the other with plans to be approved, and the rewriting of a  *)
(* report.                                                                  *)
MCOptions ==
  {Opt(TRUE, TRUE, TRUE, FALSE, 1, {Independent}), Opt(FALSE, FALSE, FALSE, FALSE, 0, {Chain}),
   Opt(TRUE, TRUE, TRUE, TRUE, 0, {Chain})}
=============================================================================
