---------------------------- MODULE MCEvaluation ----------------------------
(* Instances of Evaluation for TLC.                                         *)
EXTENDS Evaluation

Opt(v2, live, judge, sync, n, m) ==
  [v2 |-> v2, live |-> live, judge |-> judge, sync |-> sync, crashes |-> n, faults |-> m]

(* Both editions live and judged; a replay that only the judge costs; a     *)
(* store that fails.                                                        *)
MCOptions ==
  {Opt(TRUE, TRUE, FALSE, TRUE, 1, 0), Opt(FALSE, TRUE, TRUE, TRUE, 1, 0),
   Opt(TRUE, FALSE, TRUE, FALSE, 1, 0), Opt(TRUE, FALSE, FALSE, FALSE, 0, 1),
   Opt(TRUE, TRUE, TRUE, FALSE, 0, 1)}
=============================================================================
