----------------------------- MODULE ResearchRun -----------------------------
(***************************************************************************)
(* What a run of the research graph promises, whatever its nodes do        *)
(* (README: "Research runs to one terminal status"): research follows an   *)
(* approved plan, only so many plans are made, a refusal ends the run and  *)
(* it ends once, with a verdict; RunService projects nothing else of it.   *)
(***************************************************************************)
EXTENDS Naturals

CONSTANT MaxPlans   \* the first plan and the replans
VARIABLES
  unattended,   \* nobody has to approve the plans
  stage, plans, verdict
vars == <<unattended, stage, plans, verdict>>

Stages == {"planning", "approval", "working", "closing", "over"}
Verdicts == {"completed", "with_warnings", "failed", "cancelled"}

TypeOK ==
  /\ stage \in Stages /\ plans \in 0..MaxPlans
  /\ verdict \in Verdicts \cup {"none"} /\ unattended \in BOOLEAN

(* The rewriting of a report works on a plan that was approved before.      *)
Init == /\ unattended \in BOOLEAN /\ verdict = "none"
        /\ \/ stage = "planning" /\ plans = 0
           \/ stage = "working" /\ plans = 1

Propose == /\ stage = "planning" /\ plans < MaxPlans
           /\ stage' = "approval" /\ plans' = plans + 1
           /\ UNCHANGED verdict

Begin == stage = "approval" /\ stage' = "working" /\ UNCHANGED <<plans, verdict>>

(* Only a user refuses, and only a refusal cancels.                         *)
Refuse == /\ stage = "approval" /\ ~unattended
          /\ stage' = "closing" /\ verdict' = "cancelled"
          /\ UNCHANGED plans

Replan == /\ stage = "working" /\ plans < MaxPlans
          /\ stage' = "planning" /\ UNCHANGED <<plans, verdict>>

Stop == stage \in {"planning", "working"} /\ stage' = "closing" /\ UNCHANGED <<plans, verdict>>

Close == /\ stage = "closing" /\ stage' = "over"
         /\ verdict' \in IF verdict = "cancelled" THEN {"cancelled"}
                         ELSE Verdicts \ {"cancelled"}
         /\ UNCHANGED plans

Next ==
  /\ Propose \/ Begin \/ Refuse \/ Replan \/ Stop \/ Close
  /\ UNCHANGED unattended

(* But for an approval that is awaited, every stage is left.                *)
Leave == Next /\ stage' # stage /\ (stage = "approval" => unattended)

Spec == Init /\ [][Next]_vars /\ WF_vars(Leave)
=============================================================================
