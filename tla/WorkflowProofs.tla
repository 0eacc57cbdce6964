--------------------------- MODULE WorkflowProofs ---------------------------
(***************************************************************************)
(* Theorems about Workflow, for every plan, option and bound of the loops: *)
(* the graph does what ResearchRun promises, step by step, what it calls   *)
(* completed is, its nodes keep to the contracts of what they build, and   *)
(* each node uses up one of the nodes that its loops still allow.          *)
(***************************************************************************)
EXTENDS Workflow, TLAPS, FiniteSetTheorems, SequenceTheorems

(* Nodes that work on an approved plan.                                     *)
AtWork == {"schedule_wave", "researcher", "wave_join", "research_gate", "critic",
           "synthesizer", "quality_gate"}
AtEnd == {"finalizer", "end"}

Typed ==
  /\ option \in Options /\ node \in Nodes
  /\ version \in Nat /\ replans \in Nat /\ replans <= MaxReplans
  /\ drafts \in [count : Nat, version : Nat]

(* The version of a plan counts the replans, and the rewriting of a report  *)
(* never plans.                                                             *)
Versions ==
  /\ option.revision => node \in {"supervisor", "synthesizer", "quality_gate"} \cup AtEnd
  /\ ~option.revision /\ node \in {"supervisor", "planner"} => version = replans
  /\ ~option.revision /\ node \in AtWork \cup {"approval"} => version = replans + 1

(* Only a node that leads to the finalizer asks for an outcome.             *)
Requests ==
  /\ node \notin AtEnd => requested = "none" /\ ~fallback /\ ~fatal
  /\ node = "quality_gate" => drafts.count > 0 /\ drafts.version = version
  /\ node # "end" => final = "none"

(* What the nodes that ask for it leave behind for the finalizer.           *)
Handover ==
  node = "finalizer" =>
    /\ requested \in {"completed", "with_warnings", "failed", "cancelled"}
    /\ requested = "completed" =>
         /\ drafts.count > 0 /\ drafts.version = version
         /\ review = [version |-> version, draft |-> drafts.count, accepted |-> TRUE]
    /\ requested = "with_warnings" /\ ~fallback => "limits" \in warnings /\ drafts.count > 0
    /\ fallback => ReportFirst /\ ~fatal /\ requested = "with_warnings"

Inv == Typed /\ Versions /\ Requests /\ Handover /\ VerdictIsEarned

LEMMA OptionTyped ==
  ASSUME NEW o \in Options
  PROVE  o.autoApprove \in BOOLEAN /\ o.revision \in BOOLEAN
  BY WorkflowAssumption DEF IsOption

LEMMA InitInv == Init => Inv /\ Run!Init
<1> SUFFICES ASSUME Init PROVE Inv /\ Run!Init  OBVIOUS
<1>1. Typed
  BY WorkflowAssumption DEF Init, Typed, Nodes
<1>2. Versions /\ Requests /\ Handover
  BY OptionTyped DEF Init, Versions, Requests, Handover, AtWork, AtEnd
<1>3. VerdictIsEarned
  BY DEF Init, VerdictIsEarned
<1>4. Run!Init
  BY OptionTyped DEF Init, Run!Init, Stage
<1> QED  BY <1>1, <1>2, <1>3, <1>4 DEF Inv

(* A step that neither plans nor ends the run keeps what is proved of it.   *)
LEMMA WorkStep ==
  ASSUME Inv, node \in AtWork \cup {"supervisor"}, node' \in AtWork,
         UNCHANGED <<option, version, replans, requested, fallback, fatal, final>>,
         drafts' \in [count : Nat, version : Nat],
         node' = "quality_gate" => drafts'.count > 0 /\ drafts'.version = version,
         option.revision => node' \in {"synthesizer", "quality_gate"},
         node = "supervisor" => option.revision
  PROVE  Inv' /\ UNCHANGED Run!vars
<1>1. Typed'  BY DEF Inv, Typed, AtWork, Nodes
<1>2. Versions'  BY DEF Inv, Versions, AtWork, AtEnd
<1>3. Requests' /\ Handover'  BY DEF Inv, Requests, Handover, AtWork, AtEnd
<1>4. VerdictIsEarned'  BY DEF Inv, Requests, VerdictIsEarned, AtWork
<1>5. UNCHANGED Run!vars  BY DEF Run!vars, Stage, AtWork
<1> QED  BY <1>1, <1>2, <1>3, <1>4, <1>5 DEF Inv

(* A step to the finalizer stops the run.                                   *)
LEMMA StopStep ==
  ASSUME Inv, node \in AtWork \cup {"planner"}, node' = "finalizer",
         UNCHANGED <<option, version, replans, drafts, final>>, Handover', requested' # "cancelled"
  PROVE  Inv' /\ [Run!Next]_(Run!vars)
<1>1. Typed'  BY DEF Inv, Typed, Nodes
<1>2. Versions' /\ Requests'  BY DEF Inv, Versions, Requests, AtWork, AtEnd
<1>3. VerdictIsEarned'  BY DEF Inv, Requests, VerdictIsEarned, AtWork
<1>4. Run!Next
  <2>1. Stage \in {"planning", "working"} /\ Stage' = "closing"
    BY DEF Stage, AtWork
  <2>2. final = "none" /\ final' = "none" /\ requested = "none"
    BY DEF Inv, Requests, AtWork, AtEnd
  <2> QED  BY <2>1, <2>2 DEF Run!Next, Run!Stop
<1> QED  BY <1>1, <1>2, <1>3, <1>4 DEF Inv

LEMMA FatalStops ==
  ASSUME Inv, node \in AtWork \cup {"planner"}, NEW outage \in BOOLEAN, FatalUpdate(outage),
         UNCHANGED <<option, version, replans, drafts, final>>
  PROVE  Inv' /\ [Run!Next]_(Run!vars)
<1>1. ~fallback /\ ~fatal  BY DEF Inv, Requests, AtWork, AtEnd
<1>2. Handover' /\ node' = "finalizer" /\ requested' # "cancelled"
  BY <1>1 DEF FatalUpdate, Handover, ReportFirst
<1> QED  BY <1>2, StopStep

(* A replan goes back to the planner, while there is one left.              *)
LEMMA ReplanStep ==
  ASSUME Inv, node \in AtWork, Replan, replans < MaxReplans, ~option.revision,
         UNCHANGED <<option, version, drafts, requested, fallback, fatal, final>>
  PROVE  Inv' /\ [Run!Next]_(Run!vars)
<1> USE DEF Replan
<1>1. Typed'  BY WorkflowAssumption DEF Inv, Typed, Nodes
<1>2. Versions' /\ Requests' /\ Handover'
  BY DEF Inv, Typed, Versions, Requests, Handover, AtWork, AtEnd
<1>3. VerdictIsEarned'  BY DEF Inv, Requests, VerdictIsEarned, AtWork
<1>4. Run!Next
  <2>1. Stage = "working" /\ Stage' = "planning" /\ version < MaxReplans + 1
    BY WorkflowAssumption DEF Inv, Typed, Versions, Stage, AtWork
  <2> QED  BY <2>1 DEF Run!Next, Run!Replan
<1> QED  BY <1>1, <1>2, <1>3, <1>4 DEF Inv

-----------------------------------------------------------------------------
(* The nodes.                                                               *)

LEMMA PlannerStep == Inv /\ Planner => Inv' /\ [Run!Next]_(Run!vars)
<1> SUFFICES ASSUME Inv, Planner PROVE Inv' /\ [Run!Next]_(Run!vars)  OBVIOUS
<1> node = "planner"  BY DEF Planner
<1> ~option.revision  BY DEF Inv, Versions, AtEnd
<1>1. CASE \E W \in SUBSET {"tools", "limits"}, outage \in BOOLEAN : NodeFails(W, outage)
  <2> PICK W \in SUBSET {"tools", "limits"}, outage \in BOOLEAN : NodeFails(W, outage)
    BY <1>1
  <2> QED  BY FatalStops DEF NodeFails, plan, counters, report
<1>2. CASE /\ version' = replans + 1 /\ node' = "approval" /\ requested' = "none" /\ fatal' = FALSE
           /\ UNCHANGED <<option, counters, report, fallback, final>>
  <2> UNCHANGED <<replans, drafts>>  BY <1>2 DEF counters, report
  <2>1. Typed'  BY <1>2 DEF Inv, Typed, Nodes
  <2>2. Versions' /\ Requests' /\ Handover'
    BY <1>2 DEF Inv, Versions, Requests, Handover, AtWork, AtEnd
  <2>3. VerdictIsEarned'  BY <1>2 DEF Inv, Requests, VerdictIsEarned, AtEnd
  <2>4. Run!Next
    <3>1. Stage = "planning" /\ Stage' = "approval"
      BY <1>2 DEF Stage
    <3>2. version = replans /\ version < MaxReplans + 1 /\ version' = version + 1
      BY <1>2, WorkflowAssumption DEF Inv, Typed, Versions
    <3> QED  BY <1>2, <3>1, <3>2 DEF Run!Next, Run!Propose, Inv, Requests, AtEnd
  <2> QED  BY <2>1, <2>2, <2>3, <2>4 DEF Inv
<1> QED  BY <1>1, <1>2 DEF Planner

LEMMA ApprovalStep == Inv /\ (Approve \/ Reject) => Inv' /\ [Run!Next]_(Run!vars)
<1> SUFFICES ASSUME Inv, Approve \/ Reject PROVE Inv' /\ [Run!Next]_(Run!vars)  OBVIOUS
<1> /\ node = "approval" /\ ~option.revision
    /\ UNCHANGED <<option, version, replans, drafts, fatal, fallback, final>>
  BY DEF Approve, Reject, counters, report, plan, Inv, Versions, AtEnd
<1> final = "none"  BY DEF Inv, Requests
<1>1. VerdictIsEarned'  BY DEF VerdictIsEarned
<1>2. CASE Approve
  <2>1. Typed' /\ Versions' /\ Requests' /\ Handover'
    BY <1>2 DEF Approve, Inv, Typed, Versions, Requests, Handover, AtWork, AtEnd, Nodes
  <2>2. Run!Next
    BY <1>2 DEF Approve, Inv, Requests, AtEnd, Stage, Run!Next, Run!Begin
  <2> QED  BY <1>1, <2>1, <2>2 DEF Inv
<1>3. CASE Reject
  <2>1. Typed' /\ Versions' /\ Requests' /\ Handover'
    BY <1>3 DEF Reject, Inv, Typed, Versions, Requests, Handover, AtWork, AtEnd, Nodes
  <2>2. Run!Next
    BY <1>3 DEF Reject, Stage, Run!Next, Run!Refuse
  <2> QED  BY <1>1, <2>1, <2>2 DEF Inv
<1> QED  BY <1>2, <1>3

(* Supervisor, the waves, and crashes of them.                              *)
LEMMA WaveStep ==
  Inv /\ (Supervisor \/ ScheduleWave \/ (\E t \in DOMAIN work : Research(t)) \/ WaveDone
            \/ WaveJoin \/ Interrupt)
    => Inv' /\ [Run!Next]_(Run!vars)
<1> SUFFICES ASSUME Inv,
                    Supervisor \/ ScheduleWave \/ (\E t \in DOMAIN work : Research(t)) \/ WaveDone
                      \/ WaveJoin \/ Interrupt
             PROVE  Inv' /\ [Run!Next]_(Run!vars)
  OBVIOUS
<1>1. UNCHANGED <<option, version, replans, drafts, requested, fatal, fallback, final>>
  BY DEF Supervisor, ScheduleWave, Research, AttemptAccepted, AttemptPartial, AttemptFailed,
         Attempt, WaveDone, WaveJoin, Interrupt, plan, counters, report, outcome
<1>2. CASE Supervisor /\ ~option.revision
  <2> node = "supervisor" /\ node' = "planner"  BY <1>2 DEF Supervisor
  <2>1. Typed' /\ Versions' /\ Requests' /\ Handover'
    BY <1>1, <1>2 DEF Inv, Typed, Versions, Requests, Handover, AtWork, AtEnd, Nodes
  <2>2. VerdictIsEarned'  BY <1>1 DEF Inv, Requests, VerdictIsEarned
  <2>3. UNCHANGED Run!vars  BY <1>1, <1>2 DEF Run!vars, Stage
  <2> QED  BY <2>1, <2>2, <2>3 DEF Inv
<1>3. CASE Supervisor /\ option.revision
  BY <1>1, <1>3, WorkStep DEF Supervisor, AtWork, Inv, Typed
<1>4. CASE ~Supervisor
  <2>1. node \in AtWork \ {"synthesizer", "quality_gate"}
    BY <1>4 DEF Supervisor, ScheduleWave, Research, AttemptAccepted, AttemptPartial,
         AttemptFailed, Attempt, WaveDone, WaveJoin, Interrupt, AtWork
  <2>2. node' \in AtWork \ {"synthesizer", "quality_gate"}
    BY <1>4 DEF Supervisor, ScheduleWave, Research, AttemptAccepted, AttemptPartial,
         AttemptFailed, Attempt, WaveDone, WaveJoin, Interrupt, AtWork
  <2>3. ~option.revision  BY <2>1 DEF Inv, Versions, AtWork, AtEnd
  <2> QED  BY <1>1, <2>1, <2>2, <2>3, WorkStep DEF Inv, Typed, AtWork
<1> QED  BY <1>2, <1>3, <1>4

LEMMA GateStep == Inv /\ ResearchGate => Inv' /\ [Run!Next]_(Run!vars)
<1> SUFFICES ASSUME Inv, ResearchGate PROVE Inv' /\ [Run!Next]_(Run!vars)  OBVIOUS
<1> /\ node = "research_gate" /\ ~option.revision /\ node \in AtWork
    /\ UNCHANGED <<option, version, drafts>>
  BY DEF ResearchGate, plan, report, Inv, Versions, AtWork, AtEnd
<1> ~fallback /\ ~fatal /\ requested = "none"  BY DEF Inv, Requests, AtEnd
<1>1. CASE UNCHANGED <<replans, requested, fallback, fatal, final>> /\ node' \in {"critic", "synthesizer"}
  BY <1>1, WorkStep DEF AtWork, Inv, Typed
<1>2. CASE /\ UNCHANGED <<replans, final>> /\ node' = "finalizer"
           /\ \/ ReportFirst /\ requested' = "with_warnings" /\ fallback' = TRUE /\ UNCHANGED fatal
              \/ requested' = "failed" /\ UNCHANGED fallback
  <2> Handover' /\ requested' # "cancelled"  BY <1>2 DEF Handover, ReportFirst
  <2> QED  BY <1>2, StopStep
<1>3. CASE Replan /\ replans < MaxReplans /\ UNCHANGED outcome
  BY <1>3, ReplanStep DEF outcome
<1> QED  BY <1>1, <1>2, <1>3 DEF ResearchGate, outcome, Limit

LEMMA CriticStep == Inv /\ Critic => Inv' /\ [Run!Next]_(Run!vars)
<1> SUFFICES ASSUME Inv, Critic PROVE Inv' /\ [Run!Next]_(Run!vars)  OBVIOUS
<1> /\ node = "critic" /\ ~option.revision /\ node \in AtWork
    /\ UNCHANGED <<option, version, drafts, final>>
  BY DEF Critic, plan, report, Inv, Versions, AtWork, AtEnd
<1>1. CASE /\ UNCHANGED <<replans, requested, fallback, fatal>>
           /\ node' \in {"synthesizer", "schedule_wave"}
  BY <1>1, WorkStep DEF AtWork, Inv, Typed
<1>2. CASE Replan /\ replans < MaxReplans /\ UNCHANGED <<requested, fatal, fallback>>
  BY <1>2, ReplanStep
<1>3. CASE \E outage \in BOOLEAN : FatalUpdate(outage) /\ UNCHANGED replans
  BY <1>3, FatalStops
<1> QED  BY <1>1, <1>2, <1>3 DEF Critic, Write

LEMMA SynthesizerStep == Inv /\ Synthesizer => Inv' /\ [Run!Next]_(Run!vars)
<1> SUFFICES ASSUME Inv, Synthesizer PROVE Inv' /\ [Run!Next]_(Run!vars)  OBVIOUS
<1> /\ node = "synthesizer" /\ node \in AtWork
    /\ UNCHANGED <<option, version, replans, final>>
  BY DEF Synthesizer, plan, counters, AtWork
<1>1. CASE drafts' = Draft(drafts) /\ node' = "quality_gate" /\ UNCHANGED <<requested, fatal, fallback>>
  <2> /\ drafts' \in [count : Nat, version : Nat]
      /\ drafts'.count > 0 /\ drafts'.version = version
    BY <1>1 DEF Inv, Typed, Draft
  <2> QED  BY <1>1, WorkStep DEF AtWork
<1>2. CASE \E outage \in BOOLEAN : FatalUpdate(outage) /\ UNCHANGED drafts
  BY <1>2, FatalStops
<1> QED  BY <1>1, <1>2 DEF Synthesizer

LEMMA QualityGateStep == Inv /\ QualityGate => Inv' /\ [Run!Next]_(Run!vars)
<1> SUFFICES ASSUME Inv, QualityGate PROVE Inv' /\ [Run!Next]_(Run!vars)  OBVIOUS
<1> /\ node = "quality_gate" /\ node \in AtWork
    /\ UNCHANGED <<option, version, drafts, final>>
  BY DEF QualityGate, plan, AtWork
<1> /\ ~fallback /\ ~fatal /\ requested = "none"
    /\ drafts.count > 0 /\ drafts.version = version
  BY DEF Inv, Requests, AtEnd
<1>1. CASE /\ Reviewed(TRUE) /\ node' = "finalizer" /\ requested' = "completed"
           /\ UNCHANGED <<replans, fatal, fallback>>
  <2> Handover' /\ requested' # "cancelled"  BY <1>1 DEF Handover, Reviewed
  <2> QED  BY <1>1, StopStep
<1>2. CASE Revise /\ UNCHANGED <<requested, replans, fatal, fallback>>
  BY <1>2, WorkStep DEF Revise, AtWork, Inv, Typed
<1>3. CASE GiveUpOn(warnings \cup {"limits"}) /\ UNCHANGED <<replans, fatal, fallback>>
  <2> node' = "finalizer" /\ Handover' /\ requested' # "cancelled"
    BY <1>3 DEF GiveUpOn, Handover
  <2> QED  BY <1>3, StopStep
<1>4. CASE Replan /\ replans < MaxReplans /\ ~option.revision /\ UNCHANGED <<requested, fatal, fallback>>
  BY <1>4, ReplanStep
<1>5. CASE \E outage \in BOOLEAN : FatalUpdate(outage) /\ UNCHANGED replans
  BY <1>5, FatalStops
<1> QED  BY <1>1, <1>2, <1>3, <1>4, <1>5 DEF QualityGate

(* What the finalizer reports is what was handed over to it.                *)
LEMMA FinalizerStep == Inv /\ Finalizer => Inv' /\ [Run!Next]_(Run!vars)
<1> SUFFICES ASSUME Inv, Finalizer PROVE Inv' /\ [Run!Next]_(Run!vars)  OBVIOUS
<1> /\ node = "finalizer" /\ node' = "end" /\ final = "none"
    /\ UNCHANGED <<option, version, tasks, replans, results, review, requested, fatal, fallback>>
  BY DEF Finalizer, plan, research, counters, Inv, Requests
<1>h. /\ requested \in {"completed", "with_warnings", "failed", "cancelled"}
      /\ requested = "completed" =>
           /\ drafts.count > 0 /\ drafts.version = version
           /\ review = [version |-> version, draft |-> drafts.count, accepted |-> TRUE]
      /\ requested = "with_warnings" /\ ~fallback => "limits" \in warnings /\ drafts.count > 0
      /\ fallback => ReportFirst /\ ~fatal /\ requested = "with_warnings"
  BY DEF Inv, Handover
<1>d. /\ Delivers => requested = "with_warnings"
      /\ fallback => Delivers
  BY <1>h DEF Delivers
<1>1. /\ drafts' = IF Delivers THEN Draft(drafts) ELSE drafts
      /\ drafts' \in [count : Nat, version : Nat]
      /\ Delivers => drafts'.count > 0
  BY DEF Finalizer, Draft, Inv, Typed
<1>2. /\ Gaps # {} \/ Delivers \/ "limits" \in warnings => "limits" \in warnings'
      /\ final' \in {"completed", "with_warnings", "failed", "cancelled"}
      /\ final' = "cancelled" <=> requested = "cancelled"
      /\ final' = "completed" => requested = "completed" /\ warnings' = {}
      /\ final' = "with_warnings" =>
           /\ requested \in {"completed", "with_warnings"}
           /\ warnings' # {} \/ requested = "with_warnings"
  BY <1>h, <1>d DEF Finalizer
<1>3. Typed'  BY <1>1 DEF Inv, Typed, Nodes
<1>4. Versions' /\ Requests' /\ Handover'
  BY DEF Inv, Versions, Requests, Handover, AtWork, AtEnd
<1>5. VerdictIsEarned'
  <2>1. ASSUME final' = "completed"
        PROVE  /\ drafts'.count > 0 /\ drafts'.version = version
               /\ review = [version |-> version, draft |-> drafts'.count, accepted |-> TRUE]
    BY <2>1, <1>h, <1>d, <1>1, <1>2
  <2>2. ASSUME final' = "completed", NEW t \in Tasks
        PROVE  \/ t \in DOMAIN results /\ results[t] \in {"complete", "accepted"}
               \/ \E r \in DOMAIN results : t \in tasks[r].repairs /\ results[r] = "complete"
    BY <2>2, <1>2 DEF Gaps, Repaired, Accepted
  <2>3. ASSUME final' = "with_warnings"
        PROVE  warnings' # {} /\ drafts'.count > 0
    BY <2>3, <1>h, <1>d, <1>1, <1>2
  <2> QED  BY <2>1, <2>2, <2>3 DEF VerdictIsEarned, Tasks
<1>6. Run!Next
  BY <1>2 DEF Stage, Run!Next, Run!Close, Run!Verdicts
<1> QED  BY <1>3, <1>4, <1>5, <1>6 DEF Inv

LEMMA StepInv == Inv /\ [Next]_vars => Inv' /\ [Run!Next]_(Run!vars)
<1> SUFFICES ASSUME Inv, [Next]_vars PROVE Inv' /\ [Run!Next]_(Run!vars)  OBVIOUS
<1>1. CASE UNCHANGED vars
  <2> UNCHANGED <<option, node, version, tasks, results, replans, drafts, review, warnings,
                  requested, fatal, fallback, final>>
    BY <1>1 DEF vars, plan, research, counters, report, outcome
  <2>1. Typed' /\ Versions' /\ Requests' /\ Handover'
    BY DEF Inv, Typed, Versions, Requests, Handover, ReportFirst
  <2>2. VerdictIsEarned'  BY DEF Inv, VerdictIsEarned, Tasks
  <2> QED  BY <2>1, <2>2 DEF Inv, Run!vars, Stage
<1>2. CASE Next
  BY <1>2, PlannerStep, ApprovalStep, WaveStep, GateStep, CriticStep, SynthesizerStep,
     QualityGateStep, FinalizerStep DEF Next, Graph
<1> QED  BY <1>1, <1>2

-----------------------------------------------------------------------------
(* The contracts and the bounds of the loops.                               *)

(* How many tasks the plans made so far may have together.                  *)
Allowance == version * MaxInitialTasks + supplements * MaxSupplementTasks
Worker == [attempt : Nat, best : Outcomes \cup {"none"},
           outcome : Outcomes \cup {"running", "failed"}, failed : BOOLEAN]

Shaped ==
  /\ IsPlan(tasks) /\ initial \in Nat /\ earlier \in Nat
  /\ DOMAIN results \subseteq Tasks /\ failed \subseteq Tasks
  /\ supplements \in Nat /\ supplements <= MaxSupplements
  /\ revisions \in Nat /\ revisions <= MaxRevisions
  /\ version <= MaxReplans + 1

(* Each plan and each supplement uses its share of the allowance; a plan    *)
(* that waits for approval can be replaced by a full one.                   *)
Sized ==
  /\ Len(tasks) > initial => supplements >= 1
  /\ earlier + Len(tasks) <= Allowance
  /\ node = "approval" => earlier + MaxInitialTasks <= Allowance /\ Len(tasks) <= MaxInitialTasks

(* The gate is reached when nothing more can be researched, and a wave      *)
(* settles each of its tasks, which were all pending.                       *)
Waved ==
  /\ node = "approval" => DOMAIN results = {} /\ failed = {}
  /\ node \in {"research_gate", "critic"} => Ready = {}
  /\ node = "researcher" =>
       /\ work \in [DOMAIN work -> Worker] /\ DOMAIN work # {} /\ DOMAIN work \subseteq Pending
       /\ \A t \in DOMAIN work : work[t].outcome = "failed" => work[t].failed

Fit == Shaped /\ Sized /\ Waved
Sound == Inv /\ Fit

Shrinks == node' # node => Remaining' < Remaining

LEMMA Constants ==
  /\ {MaxInitialTasks, MaxSupplementTasks, MaxSupplements, MaxReplans, MaxRevisions} \subseteq Nat
  /\ MaxSupplements <= 1
BY WorkflowAssumption

(* Products, for the bounds of the loops.                                   *)
LEMMA Products ==
  ASSUME NEW a \in Nat, NEW b \in Nat, NEW k \in Nat, a <= b
  PROVE  /\ a * k \in Nat /\ b * k \in Nat /\ a * k <= b * k
         /\ (a + 1) * k = a * k + k
         /\ (b - a) * k \in Nat
         /\ a < b => (b - (a + 1)) * k \in Nat /\ (b - (a + 1)) * k + k = (b - a) * k
<1>1. \A m \in Nat, n \in Nat : m * n \in Nat  OBVIOUS
<1>2. PICK d \in Nat : b = a + d
  <2>1. b - a \in Nat /\ b = a + (b - a)  OBVIOUS
  <2> QED  BY <2>1
<1>3. a * k \in Nat /\ b * k \in Nat /\ d * k \in Nat  BY <1>1
<1>4. b * k = a * k + d * k  BY <1>2
<1>5. (a + 1) * k = a * k + k  OBVIOUS
<1>6. b - a = d  BY <1>2
<1>7. a < b => d - 1 \in Nat /\ b - (a + 1) = d - 1  BY <1>2
<1>8. d - 1 \in Nat => (d - 1) * k \in Nat /\ (d - 1) * k + k = d * k  BY <1>1
<1> QED  BY <1>3, <1>4, <1>5, <1>6, <1>7, <1>8

LEMMA PlanSize ==
  ASSUME NEW p \in Seq(Task), NEW S \in SUBSET DOMAIN p
  PROVE  /\ IsFiniteSet(DOMAIN p) /\ Cardinality(DOMAIN p) = Len(p)
         /\ IsFiniteSet(S) /\ Cardinality(S) \in Nat /\ Cardinality(S) <= Len(p)
<1>1. Len(p) \in Nat /\ DOMAIN p = 1..Len(p)  OBVIOUS
<1>2. \A n \in Nat : IsFiniteSet(1..n) /\ Cardinality(1..n) = n
  <2> TAKE n \in Nat
  <2>1. n \in Int /\ 1 \in Int  OBVIOUS
  <2> QED  BY <2>1, FS_Interval
<1> QED  BY <1>1, <1>2, FS_Subset, FS_CardinalityType

LEMMA PlanFacts ==
  ASSUME Shaped
  PROVE  /\ tasks \in Seq(Task) /\ Len(tasks) \in Nat /\ Tasks = 1..Len(tasks)
         /\ IsFiniteSet(Pending) /\ Cardinality(Pending) \in Nat /\ Cardinality(Pending) <= Len(tasks)
<1>1. tasks \in Seq(Task)  BY DEF Shaped, IsPlan
<1>2. Len(tasks) \in Nat /\ Tasks = 1..Len(tasks)  BY <1>1 DEF Tasks
<1>3. Pending \in SUBSET DOMAIN tasks  BY DEF Pending, Tasks
<1> QED  BY <1>1, <1>2, <1>3, PlanSize

(* What the loops may still take, and what an iteration takes of it.        *)
LEMMA LoopFacts ==
  ASSUME Sound
  PROVE  /\ Loops \in Nat
         /\ UNCHANGED counters => Loops' = Loops
         /\ replans < MaxReplans /\ replans' = replans + 1 /\ UNCHANGED <<supplements, revisions>>
              => Loops' \in Nat /\ Loops' + 3 * MaxInitialTasks + 7 = Loops
         /\ supplements < MaxSupplements /\ supplements' = supplements + 1
              /\ UNCHANGED <<replans, revisions>>
              => Loops' \in Nat /\ Loops' + 3 * MaxSupplementTasks + 3 = Loops
         /\ revisions < MaxRevisions /\ revisions' = revisions + 1
              /\ UNCHANGED <<replans, supplements>>
              => Loops' \in Nat /\ Loops' + 2 = Loops
<1> DEFINE A == (MaxReplans - replans) * (3 * MaxInitialTasks + 7)
           B == (MaxSupplements - supplements) * (3 * MaxSupplementTasks + 3)
           C == (MaxRevisions - revisions) * 2
<1>1. /\ replans \in Nat /\ replans <= MaxReplans
      /\ supplements \in Nat /\ supplements <= MaxSupplements
      /\ revisions \in Nat /\ revisions <= MaxRevisions
      /\ 3 * MaxInitialTasks + 7 \in Nat /\ 3 * MaxSupplementTasks + 3 \in Nat
      /\ {MaxReplans, MaxSupplements, MaxRevisions, MaxInitialTasks, MaxSupplementTasks} \subseteq Nat
  BY Constants DEF Sound, Fit, Inv, Typed, Shaped
<1>2. A \in Nat /\ (replans < MaxReplans /\ replans' = replans + 1 => A' \in Nat /\ A' + (3 * MaxInitialTasks + 7) = A)
  <2> DEFINE k == (3 * MaxInitialTasks + 7)
  <2>1. k \in Nat  BY <1>1
  <2> HIDE DEF k
  <2>2. /\ (MaxReplans - replans) * k \in Nat
        /\ replans < MaxReplans =>
             /\ (MaxReplans - (replans + 1)) * k \in Nat
             /\ (MaxReplans - (replans + 1)) * k + k = (MaxReplans - replans) * k
    BY <1>1, <2>1, Products
  <2> QED  BY <2>2 DEF k
<1>3. B \in Nat /\ (supplements < MaxSupplements /\ supplements' = supplements + 1 => B' \in Nat /\ B' + (3 * MaxSupplementTasks + 3) = B)
  <2> DEFINE k == (3 * MaxSupplementTasks + 3)
  <2>1. k \in Nat  BY <1>1
  <2> HIDE DEF k
  <2>2. /\ (MaxSupplements - supplements) * k \in Nat
        /\ supplements < MaxSupplements =>
             /\ (MaxSupplements - (supplements + 1)) * k \in Nat
             /\ (MaxSupplements - (supplements + 1)) * k + k = (MaxSupplements - supplements) * k
    BY <1>1, <2>1, Products
  <2> QED  BY <2>2 DEF k
<1>4. C \in Nat /\ (revisions < MaxRevisions /\ revisions' = revisions + 1 => C' \in Nat /\ C' + 2 = C)
  <2> DEFINE k == 2
  <2>1. k \in Nat  BY <1>1
  <2> HIDE DEF k
  <2>2. /\ (MaxRevisions - revisions) * k \in Nat
        /\ revisions < MaxRevisions =>
             /\ (MaxRevisions - (revisions + 1)) * k \in Nat
             /\ (MaxRevisions - (revisions + 1)) * k + k = (MaxRevisions - revisions) * k
    BY <1>1, <2>1, Products
  <2> QED  BY <2>2 DEF k
<1>5. /\ UNCHANGED replans => A' = A
      /\ UNCHANGED supplements => B' = B
      /\ UNCHANGED revisions => C' = C
  OBVIOUS
<1>6. Loops = A + B + C /\ Loops' = A' + B' + C'  BY DEF Loops
<1> HIDE DEF A, B, C
<1> QED  BY <1>1, <1>2, <1>3, <1>4, <1>5, <1>6 DEF counters

(* A step that leaves the plan and what was found of it.                    *)
LEMMA Settled ==
  ASSUME Fit, UNCHANGED <<plan, results, failed, supplements>>,
         node' \notin {"approval", "research_gate", "critic", "researcher"},
         revisions' \in Nat, revisions' <= MaxRevisions
  PROVE  Fit'
<1>1. UNCHANGED <<version, tasks, initial, earlier>>  BY DEF plan
<1> QED  BY <1>1 DEF Fit, Shaped, Sized, Waved, Allowance, Tasks

LEMMA AtFinalizer ==
  ASSUME Sound, node \notin {"finalizer", "end"}, node' = "finalizer"
  PROVE  Shrinks
<1>1. Remaining' = 1  BY DEF Remaining
<1>2. Loops \in Nat /\ Cardinality(Pending) \in Nat  BY LoopFacts, PlanFacts DEF Sound, Fit
<1>3. Remaining > 1  BY <1>2, Constants DEF Remaining, Sound, Inv, Typed, Nodes
<1> QED  BY <1>1, <1>3 DEF Shrinks

LEMMA AtReplan ==
  ASSUME Sound, node \in {"research_gate", "critic", "quality_gate"}, Replan, replans < MaxReplans,
         UNCHANGED <<supplements, revisions>>
  PROVE  Shrinks
<1>1. node' = "planner" /\ replans' = replans + 1  BY DEF Replan
<1>2. Loops \in Nat /\ Loops' \in Nat /\ Loops' + 3 * MaxInitialTasks + 7 = Loops
  BY <1>1, LoopFacts
<1>3. Remaining' = 8 + 3 * MaxInitialTasks + Loops'  BY <1>1 DEF Remaining
<1>4. Cardinality(Pending) \in Nat  BY PlanFacts DEF Sound, Fit
<1>5. Remaining \in Nat /\ Remaining >= 2 + Loops
  <2>1. CASE node = "quality_gate"  BY <1>2, <2>1 DEF Remaining
  <2>2. CASE node = "research_gate"  BY <1>2, <1>4, <2>2 DEF Remaining
  <2>3. CASE node = "critic"  BY <1>2, <1>4, <2>3 DEF Remaining
  <2> QED  BY <2>1, <2>2, <2>3
<1> QED  BY <1>2, <1>3, <1>5, Constants DEF Shrinks

LEMMA SupervisorFits == ASSUME Sound, Supervisor PROVE Fit' /\ Shrinks
<1>1. /\ node = "supervisor" /\ node' \in {"synthesizer", "planner"}
      /\ UNCHANGED <<plan, research, counters>>
  BY DEF Supervisor
<1>2. Fit'  BY <1>1, Settled DEF Sound, Fit, Shaped, research, counters
<1>3. Loops' = Loops /\ Loops \in Nat  BY <1>1, LoopFacts
<1> QED  BY <1>1, <1>2, <1>3, Constants DEF Shrinks, Remaining

LEMMA PlannerFits == ASSUME Sound, Planner PROVE Fit' /\ Shrinks
<1>0. node = "planner" /\ ~option.revision /\ version = replans
  BY DEF Planner, Sound, Inv, Versions, AtEnd
<1>1. CASE \E W \in SUBSET {"tools", "limits"}, outage \in BOOLEAN : NodeFails(W, outage)
  <2>1. node' = "finalizer" /\ UNCHANGED <<plan, research, counters>>
    BY <1>1 DEF NodeFails, FatalUpdate
  <2>2. Fit'  BY <2>1, Settled DEF Sound, Fit, Shaped, research, counters
  <2> QED  BY <1>0, <2>1, <2>2, AtFinalizer
<1>2. ASSUME NEW p \in option.plans,
             tasks' = p, initial' = Len(p), version' = replans + 1, earlier' = earlier + Len(tasks),
             results' = NoTasks, failed' = {}, node' = "approval", UNCHANGED counters
      PROVE  Fit' /\ Shrinks
  <2>1. InitialPlan(p)  BY WorkflowAssumption DEF IsOption, Sound, Inv, Typed
  <2>2. IsPlan(p) /\ Len(p) \in Nat /\ Len(p) <= MaxInitialTasks
    BY <2>1, Constants DEF InitialPlan, IsPlan
  <2>3. Len(tasks) \in Nat  BY PlanFacts DEF Sound, Fit
  <2>4. UNCHANGED <<replans, supplements, revisions>>  BY <1>2 DEF counters
  <2>5. Shaped'
    <3>1. version' <= MaxReplans + 1  BY <1>2, Constants DEF Sound, Inv, Typed
    <3>2. DOMAIN results' = {}  BY <1>2 DEF NoTasks
    <3> QED  BY <1>2, <2>2, <2>3, <2>4, <3>1, <3>2 DEF Sound, Fit, Shaped, Tasks
  <2>6. Allowance' = Allowance + MaxInitialTasks /\ Allowance \in Nat
    <3>1. version \in Nat /\ supplements \in Nat /\ version' = version + 1
      BY <1>0, <1>2 DEF Sound, Inv, Typed, Fit, Shaped
    <3>2. version' * MaxInitialTasks = version * MaxInitialTasks + MaxInitialTasks
          /\ version * MaxInitialTasks \in Nat
      BY <3>1, Constants, Products
    <3>3. supplements * MaxSupplementTasks \in Nat  BY <3>1, Constants, Products
    <3> QED  BY <2>4, <3>2, <3>3, Constants DEF Allowance
  <2>7. Sized'
    <3>1. earlier + Len(tasks) <= Allowance /\ earlier \in Nat  BY DEF Sound, Fit, Sized, Shaped
    <3>2. earlier' + MaxInitialTasks <= Allowance'  BY <1>2, <2>3, <2>6, <3>1, Constants
    <3>3. earlier' + Len(tasks') <= Allowance' /\ ~(Len(tasks') > initial')
      BY <1>2, <2>2, <2>3, <2>6, <3>1, Constants
    <3> QED  BY <1>2, <2>2, <3>2, <3>3 DEF Sized
  <2>8. Waved'  BY <1>2 DEF Waved, NoTasks
  <2>9. Loops' = Loops /\ Loops \in Nat  BY <1>2, LoopFacts
  <2>10. Shrinks  BY <1>0, <1>2, <2>9, Constants DEF Shrinks, Remaining
  <2> QED  BY <2>5, <2>7, <2>8, <2>10 DEF Fit
<1> QED  BY <1>1, <1>2 DEF Planner

LEMMA ApprovalFits == ASSUME Sound, Approve \/ Reject PROVE Fit' /\ Shrinks
<1>1. CASE Reject
  <2>1. node = "approval" /\ node' = "finalizer" /\ UNCHANGED <<plan, research, counters>>
    BY <1>1 DEF Reject
  <2>2. Fit'  BY <2>1, Settled DEF Sound, Fit, Shaped, research, counters
  <2> QED  BY <2>1, <2>2, AtFinalizer
<1>2. CASE Approve
  <2>1. /\ node = "approval" /\ node' = "schedule_wave"
        /\ UNCHANGED <<option, version, earlier, research, counters>>
    BY <1>2 DEF Approve
  <2>2. UNCHANGED <<results, failed, supplements, revisions>>  BY <2>1 DEF research, counters
  <2>3. Loops' = Loops /\ Loops \in Nat  BY <2>1, LoopFacts
  <2>4. /\ IsPlan(tasks') /\ initial' \in Nat /\ Len(tasks') \in Nat /\ Len(tasks') <= MaxInitialTasks
        /\ Len(tasks') > initial' => supplements >= 1
    <3>1. CASE UNCHANGED <<tasks, initial>>
      BY <2>1, <3>1, PlanFacts DEF Sound, Fit, Shaped, Sized
    <3>2. CASE tasks' \in option.plans /\ initial' = Len(tasks')
      <4>1. InitialPlan(tasks')  BY <3>2, WorkflowAssumption DEF IsOption, Sound, Inv, Typed
      <4>2. IsPlan(tasks') /\ Len(tasks') \in Nat /\ Len(tasks') <= MaxInitialTasks
        BY <4>1, Constants DEF InitialPlan, IsPlan
      <4> QED  BY <3>2, <4>2
    <3> QED  BY <1>2, <3>1, <3>2 DEF Approve
  <2>5. DOMAIN results = {} /\ failed = {} /\ earlier \in Nat /\ earlier + MaxInitialTasks <= Allowance
        /\ version \in Nat /\ supplements \in Nat
    BY <2>1 DEF Sound, Inv, Typed, Fit, Waved, Sized, Shaped
  <2>6. Allowance' = Allowance /\ Allowance \in Nat
    <3>1. version * MaxInitialTasks \in Nat /\ supplements * MaxSupplementTasks \in Nat
      BY <2>5, Constants, Products
    <3> QED  BY <2>1, <2>2, <3>1 DEF Allowance
  <2>7. Shaped'  BY <2>1, <2>2, <2>4, <2>5 DEF Sound, Fit, Shaped
  <2>8. Sized'  BY <2>1, <2>2, <2>4, <2>5, <2>6, Constants DEF Sized
  <2>9. Waved'  BY <2>1 DEF Waved
  <2>10. Cardinality(Pending') \in Nat /\ Cardinality(Pending') <= Len(tasks')
    <3>1. tasks' \in Seq(Task) /\ Pending' \in SUBSET DOMAIN tasks'
      BY <2>4 DEF IsPlan, Pending, Tasks
    <3> QED  BY <3>1, PlanSize
  <2>11. Remaining = 7 + 3 * MaxInitialTasks + Loops
         /\ Remaining' = 6 + 3 * Cardinality(Pending') + Loops'
    BY <2>1 DEF Remaining
  <2>12. Shrinks  BY <2>3, <2>4, <2>10, <2>11, Constants DEF Shrinks
  <2> QED  BY <2>7, <2>8, <2>9, <2>12 DEF Fit
<1> QED  BY <1>1, <1>2

LEMMA ScheduleFits == ASSUME Sound, ScheduleWave PROVE Fit' /\ Shrinks
<1>1. /\ node = "schedule_wave" /\ UNCHANGED <<plan, results, failed, counters>>
      /\ \/ Ready = {} /\ node' = "research_gate"
         \/ Ready # {} /\ node' = "researcher" /\ work' = [t \in Ready |-> Idle]
  BY DEF ScheduleWave
<1>2. UNCHANGED <<version, tasks, initial, earlier, supplements, revisions>>  BY <1>1 DEF plan, counters
<1>3. Shaped' /\ Sized'
  BY <1>1, <1>2 DEF Sound, Fit, Shaped, Sized, Allowance, Tasks
<1>4. Idle \in Worker /\ Idle.outcome = "running"
  BY WorkflowAssumption DEF Idle, Worker, Outcomes
<1>5. Ready \subseteq Pending /\ Ready' = Ready /\ Pending' = Pending
  BY <1>1, <1>2 DEF Ready, Pending, Succeeded, Repaired, Tasks
<1>6. Waved'
  <2>1. CASE Ready = {} /\ node' = "research_gate"  BY <1>5, <2>1 DEF Waved
  <2>2. CASE Ready # {} /\ node' = "researcher" /\ work' = [t \in Ready |-> Idle]
    BY <1>4, <1>5, <2>2 DEF Waved
  <2> QED  BY <1>1, <2>1, <2>2
<1>7. Loops' = Loops /\ Loops \in Nat  BY <1>1, LoopFacts
<1>8. Cardinality(Pending) \in Nat  BY PlanFacts DEF Sound, Fit
<1>9. /\ Remaining = 6 + 3 * Cardinality(Pending) + Loops
      /\ Remaining' = 5 + 3 * Cardinality(Pending') + Loops'
  BY <1>1 DEF Remaining
<1> QED  BY <1>3, <1>5, <1>6, <1>7, <1>8, <1>9 DEF Fit, Shrinks

(* What an attempt or an interruption makes of a researcher.                *)
LEMMA AttemptFits ==
  ASSUME Sound, NEW t \in DOMAIN work, Research(t)
  PROVE  Fit' /\ Shrinks
<1>1. PICK w : Attempt(t, w) /\ (\/ w = [work[t] EXCEPT !.attempt = @ + 1]
                                 \/ \E b \in {"partial", "empty"} :
                                      w = [work[t] EXCEPT !.attempt = @ + 1, !.best = b]
                                 \/ \E o \in Outcomes \cup {"failed"}, error \in BOOLEAN :
                                      w = Done(o, error) /\ (o = "failed" => error))
  <2>0. node = "researcher" /\ work[t] \in Worker
    BY DEF Research, AttemptAccepted, AttemptPartial, AttemptFailed, Attempt, Sound, Fit, Waved
  <2>1. CASE AttemptAccepted(t)  BY <2>1 DEF AttemptAccepted, Outcomes
  <2>2. CASE AttemptPartial(t)
    <3>1. PICK o \in {"partial", "empty"}, missing \in BOOLEAN :
            Attempt(t, IF work[t].attempt < MaxAttempts /\ ~missing /\ budget'
                       THEN [work[t] EXCEPT !.attempt = @ + 1, !.best = Better(work[t].best, o)]
                       ELSE Done(Better(work[t].best, o), FALSE))
      BY <2>2 DEF AttemptPartial
    <3>2. Better(work[t].best, o) \in {"partial", "empty"}  BY DEF Better
    <3> QED  BY <3>1, <3>2 DEF Outcomes
  <2>3. CASE AttemptFailed(t)
    <3>1. PICK terminal \in BOOLEAN :
            Attempt(t, IF work[t].attempt < MaxAttempts /\ ~terminal
                       THEN [work[t] EXCEPT !.attempt = @ + 1]
                       ELSE Done(IF work[t].best = "none" THEN "failed" ELSE work[t].best, TRUE))
      BY <2>3 DEF AttemptFailed
    <3>2. work[t].best \in Outcomes \cup {"none"}  BY <2>0 DEF Worker
    <3> QED  BY <3>1, <3>2
  <2> QED  BY <2>1, <2>2, <2>3 DEF Research
<1>2. /\ node = "researcher" /\ node' = node /\ work[t].outcome = "running"
      /\ work' = [work EXCEPT ![t] = w] /\ UNCHANGED <<plan, results, failed, counters>>
  BY <1>1 DEF Attempt
<1>3. work \in [DOMAIN work -> Worker] /\ work[t] \in Worker  BY <1>2 DEF Sound, Fit, Waved
<1>4. w \in Worker /\ (w.outcome = "failed" => w.failed)
  <2>1. CASE w = [work[t] EXCEPT !.attempt = @ + 1]
    BY <1>2, <1>3, <2>1 DEF Worker
  <2>2. CASE \E b \in {"partial", "empty"} : w = [work[t] EXCEPT !.attempt = @ + 1, !.best = b]
    <3>1. PICK b \in {"partial", "empty"} : w = [work[t] EXCEPT !.attempt = @ + 1, !.best = b]
      BY <2>2
    <3>2. w = [attempt |-> work[t].attempt + 1, best |-> b, outcome |-> work[t].outcome,
               failed |-> work[t].failed]
      BY <1>3, <3>1 DEF Worker
    <3> QED  BY <1>2, <1>3, <3>2 DEF Worker, Outcomes
  <2>3. CASE \E o \in Outcomes \cup {"failed"}, error \in BOOLEAN :
               w = Done(o, error) /\ (o = "failed" => error)
    BY <2>3 DEF Worker, Done
  <2> QED  BY <1>1, <2>1, <2>2, <2>3
<1>5. UNCHANGED <<version, tasks, initial, earlier, supplements, revisions>>  BY <1>2 DEF plan, counters
<1>6. Shaped' /\ Sized'  BY <1>2, <1>5 DEF Sound, Fit, Shaped, Sized, Allowance, Tasks
<1>7. DOMAIN work' = DOMAIN work /\ \A u \in DOMAIN work : work'[u] = IF u = t THEN w ELSE work[u]
  BY <1>2, <1>3
<1>8. Pending' = Pending  BY <1>2, <1>5 DEF Pending, Tasks
<1>9. Waved'
  <2>1. work' \in [DOMAIN work' -> Worker]  BY <1>2, <1>3, <1>4
  <2> QED  BY <1>2, <1>4, <1>7, <1>8, <2>1 DEF Sound, Fit, Waved
<1> QED  BY <1>2, <1>6, <1>9 DEF Fit, Shrinks

LEMMA InterruptFits == ASSUME Sound, Interrupt PROVE Fit' /\ Shrinks
<1>1. /\ node = "researcher" /\ node' = node /\ UNCHANGED <<plan, results, failed, counters>>
      /\ work' = [t \in DOMAIN work |-> IF work[t].outcome = "running" THEN Idle ELSE work[t]]
  BY DEF Interrupt
<1>2. UNCHANGED <<version, tasks, initial, earlier, supplements, revisions>>  BY <1>1 DEF plan, counters
<1>3. Shaped' /\ Sized'  BY <1>1, <1>2 DEF Sound, Fit, Shaped, Sized, Allowance, Tasks
<1>4. Idle \in Worker /\ Idle.outcome = "running"
  BY WorkflowAssumption DEF Idle, Worker, Outcomes
<1>5. Pending' = Pending  BY <1>1, <1>2 DEF Pending, Tasks
<1>6. Waved'  BY <1>1, <1>4, <1>5 DEF Sound, Fit, Waved
<1> QED  BY <1>1, <1>3, <1>6 DEF Fit, Shrinks

(* A wave that is done has settled each of its tasks.                       *)
LEMMA WaveDoneFits == ASSUME Sound, WaveDone PROVE Fit' /\ Shrinks
<1>1. /\ node = "researcher" /\ node' = "wave_join" /\ UNCHANGED <<plan, counters>>
      /\ DOMAIN results' = DOMAIN results \cup {u \in DOMAIN work : work[u].outcome # "failed"}
      /\ failed' = failed \cup {t \in DOMAIN work : work[t].failed}
  BY DEF WaveDone
<1>2. UNCHANGED <<version, tasks, initial, earlier, supplements, revisions>>  BY <1>1 DEF plan, counters
<1>3. /\ DOMAIN work # {} /\ DOMAIN work \subseteq Pending
      /\ \A t \in DOMAIN work : work[t].outcome = "failed" => work[t].failed
  BY <1>1 DEF Sound, Fit, Waved
<1>4. Shaped' /\ Sized'
  BY <1>1, <1>2, <1>3 DEF Sound, Fit, Shaped, Sized, Allowance, Tasks, Pending
<1>5. Waved'  BY <1>1 DEF Waved
<1>6. PICK t : t \in DOMAIN work  BY <1>3
<1>7. Pending' \subseteq Pending \ {t} /\ t \in Pending
  BY <1>1, <1>2, <1>3, <1>6 DEF Pending, Tasks
<1>8. Cardinality(Pending') \in Nat /\ Cardinality(Pending') + 1 <= Cardinality(Pending)
      /\ Cardinality(Pending) \in Nat
  <2>1. IsFiniteSet(Pending) /\ Cardinality(Pending) \in Nat  BY PlanFacts DEF Sound, Fit
  <2>2. IsFiniteSet(Pending \ {t}) /\ Cardinality(Pending \ {t}) = Cardinality(Pending) - 1
    BY <1>7, <2>1, FS_RemoveElement
  <2>3. Cardinality(Pending') <= Cardinality(Pending \ {t}) /\ Cardinality(Pending') \in Nat
    BY <1>7, <2>2, FS_Subset, FS_CardinalityType
  <2> QED  BY <2>1, <2>2, <2>3
<1>9. Loops' = Loops /\ Loops \in Nat  BY <1>1, LoopFacts
<1>10. /\ Remaining = 5 + 3 * Cardinality(Pending) + Loops
       /\ Remaining' = 7 + 3 * Cardinality(Pending') + Loops'
  BY <1>1 DEF Remaining
<1> QED  BY <1>4, <1>5, <1>8, <1>9, <1>10 DEF Fit, Shrinks

LEMMA WaveJoinFits == ASSUME Sound, WaveJoin PROVE Fit' /\ Shrinks
<1>1. node = "wave_join" /\ node' = "schedule_wave" /\ UNCHANGED <<plan, research, counters>>
  BY DEF WaveJoin
<1>2. UNCHANGED <<tasks, results, failed, supplements, revisions>>  BY <1>1 DEF plan, research, counters
<1>3. Fit'  BY <1>1, <1>2, Settled DEF Sound, Fit, Shaped
<1>4. Pending' = Pending  BY <1>2 DEF Pending, Tasks
<1>5. Loops' = Loops /\ Loops \in Nat /\ Cardinality(Pending) \in Nat
  BY <1>1, LoopFacts, PlanFacts DEF Sound, Fit
<1>6. /\ Remaining = 7 + 3 * Cardinality(Pending) + Loops
      /\ Remaining' = 6 + 3 * Cardinality(Pending') + Loops'
  BY <1>1 DEF Remaining
<1> QED  BY <1>3, <1>4, <1>5, <1>6 DEF Shrinks

LEMMA GateFits == ASSUME Sound, ResearchGate PROVE Fit' /\ Shrinks
<1>1. /\ node = "research_gate" /\ UNCHANGED <<plan, research, supplements, revisions>>
      /\ \/ node' \in {"critic", "synthesizer"} /\ UNCHANGED replans
         \/ node' = "finalizer"
         \/ Replan /\ replans < MaxReplans
  BY DEF ResearchGate
<1>2. UNCHANGED <<version, tasks, initial, earlier, results, failed>>  BY <1>1 DEF plan, research
<1>3. revisions' \in Nat /\ revisions' <= MaxRevisions  BY <1>1 DEF Sound, Fit, Shaped
<1>4. CASE node' = "finalizer"
  <2>1. Fit'  BY <1>1, <1>2, <1>3, <1>4, Settled DEF Sound
  <2> QED  BY <1>1, <1>4, <2>1, AtFinalizer
<1>5. CASE Replan /\ replans < MaxReplans
  <2>1. Fit'  BY <1>1, <1>2, <1>3, <1>5, Settled DEF Sound, Replan
  <2> QED  BY <1>1, <1>5, <2>1, AtReplan
<1>6. CASE node' \in {"critic", "synthesizer"} /\ UNCHANGED replans
  <2>1. Fit'
    <3>1. Ready' = Ready /\ Ready = {}
      BY <1>1, <1>2 DEF Sound, Fit, Waved, Ready, Succeeded, Repaired, Tasks
    <3> QED  BY <1>1, <1>2, <1>6, <3>1 DEF Sound, Fit, Shaped, Sized, Waved, Allowance, Tasks
  <2>2. Pending' = Pending  BY <1>2 DEF Pending, Tasks
  <2>3. Loops' = Loops /\ Loops \in Nat /\ Cardinality(Pending) \in Nat
    BY <1>1, <1>6, LoopFacts, PlanFacts DEF counters, Sound, Fit
  <2>4. Remaining = 5 + 3 * Cardinality(Pending) + Loops  BY <1>1 DEF Remaining
  <2>5. node' = "critic" => Remaining' = 4 + 3 * Cardinality(Pending') + Loops'  BY DEF Remaining
  <2>6. node' = "synthesizer" => Remaining' = 3 + Loops'  BY DEF Remaining
  <2>7. Shrinks  BY <1>6, <2>2, <2>3, <2>4, <2>5, <2>6 DEF Shrinks
  <2> QED  BY <2>1, <2>7
<1> QED  BY <1>1, <1>4, <1>5, <1>6

(* A supplement uses its round and adds at most its share of tasks.         *)
LEMMA SupplementFits ==
  ASSUME Sound, node = "critic", node' = "schedule_wave", NEW new \in option.additions, Admissible(new),
         tasks' = tasks \o new, supplements' = supplements + 1,
         UNCHANGED <<option, version, initial, earlier, results, failed, replans, revisions>>
  PROVE  Fit' /\ Shrinks
<1>1. new \in Seq(Task) /\ Len(new) \in Nat /\ Len(new) <= MaxSupplementTasks
  BY WorkflowAssumption DEF IsOption, Sound, Inv, Typed
<1>2. IsPlan(tasks') /\ supplements < MaxSupplements  BY DEF Admissible
<1>3. tasks \in Seq(Task) /\ Len(tasks) \in Nat /\ Tasks = 1..Len(tasks)
      /\ Cardinality(Pending) \in Nat /\ IsFiniteSet(Pending)
  BY PlanFacts DEF Sound, Fit
<1>4. Len(tasks') = Len(tasks) + Len(new) /\ tasks' \in Seq(Task)  BY <1>1, <1>3, ConcatProperties
<1>5. Tasks' = 1..(Len(tasks) + Len(new)) /\ Tasks \subseteq Tasks'
  <2>1. DOMAIN tasks' = 1..Len(tasks')  BY <1>4
  <2> QED  BY <1>1, <1>3, <1>4, <2>1 DEF Tasks
<1>6. Shaped'
  <2>1. Shaped  BY DEF Sound, Fit
  <2>2. DOMAIN results' \subseteq Tasks' /\ failed' \subseteq Tasks'  BY <1>5, <2>1 DEF Shaped
  <2>3. supplements' \in Nat /\ supplements' <= MaxSupplements
    BY <1>2, <2>1, Constants DEF Shaped
  <2> QED  BY <1>2, <2>1, <2>2, <2>3 DEF Shaped
<1>7. Allowance' = Allowance + MaxSupplementTasks /\ Allowance \in Nat
  <2>1. version \in Nat /\ supplements \in Nat  BY DEF Sound, Inv, Typed, Fit, Shaped
  <2> DEFINE a == version * MaxInitialTasks
             b == supplements * MaxSupplementTasks
  <2>2. (supplements + 1) * MaxSupplementTasks = b + MaxSupplementTasks /\ b \in Nat
    BY <2>1, Constants, Products
  <2>3. a \in Nat  BY <2>1, Constants, Products
  <2>4. Allowance = a + b /\ Allowance' = a + (b + MaxSupplementTasks)
    BY <2>2 DEF Allowance
  <2>5. MaxSupplementTasks \in Nat  BY Constants
  <2> HIDE DEF a, b
  <2> QED  BY <2>2, <2>3, <2>4, <2>5
<1>8. Sized'
  <2>1. earlier + Len(tasks) <= Allowance /\ earlier \in Nat /\ supplements \in Nat
    BY DEF Sound, Fit, Sized, Shaped
  <2>2. earlier' + Len(tasks') <= Allowance'  BY <1>1, <1>3, <1>4, <1>7, <2>1, Constants
  <2> QED  BY <2>1, <2>2 DEF Sized
<1>9. Waved'  BY DEF Waved
<1>10. Cardinality(Pending') \in Nat
       /\ Cardinality(Pending') <= Cardinality(Pending) + MaxSupplementTasks
  <2> DEFINE Added == (Len(tasks) + 1)..(Len(tasks) + Len(new))
  <2>1. Pending' \subseteq Pending \cup Added  BY <1>1, <1>3, <1>5 DEF Pending
  <2>2. IsFiniteSet(Added) /\ Cardinality(Added) = Len(new)
    <3>1. \A a \in Int, b \in Int : /\ IsFiniteSet(a..b)
                                     /\ Cardinality(a..b) = IF a > b THEN 0 ELSE b - a + 1
      BY FS_Interval
    <3>2. Len(tasks) + 1 \in Int /\ Len(tasks) + Len(new) \in Int  BY <1>1, <1>3
    <3>3. Cardinality(Added) = IF Len(tasks) + 1 > Len(tasks) + Len(new) THEN 0
                               ELSE Len(tasks) + Len(new) - (Len(tasks) + 1) + 1
      BY <3>1, <3>2
    <3>4. \A n \in Nat, m \in Nat : (IF n + 1 > n + m THEN 0 ELSE n + m - (n + 1) + 1) = m
      OBVIOUS
    <3>5. Cardinality(Added) = Len(new)  BY <1>1, <1>3, <3>3, <3>4
    <3> QED  BY <3>1, <3>2, <3>5
  <2> HIDE DEF Added
  <2>3. IsFiniteSet(Pending \cup Added)
        /\ Cardinality(Pending \cup Added) = Cardinality(Pending) + Cardinality(Added)
                                             - Cardinality(Pending \cap Added)
    BY <1>3, <2>2, FS_Union
  <2>4. Cardinality(Pending \cap Added) \in Nat
    BY <1>3, FS_Intersection, FS_CardinalityType
  <2>5. Cardinality(Pending') <= Cardinality(Pending \cup Added) /\ Cardinality(Pending') \in Nat
    BY <2>1, <2>3, FS_Subset, FS_CardinalityType
  <2>6. Cardinality(Pending \cup Added) <= Cardinality(Pending) + Len(new)
        /\ Cardinality(Pending \cup Added) \in Int
    BY <1>1, <1>3, <2>2, <2>3, <2>4
  <2> QED  BY <1>1, <1>3, <2>5, <2>6, Constants
<1>11. Loops' \in Nat /\ Loops' + 3 * MaxSupplementTasks + 3 = Loops  BY <1>2, LoopFacts
<1>12. /\ Remaining = 4 + 3 * Cardinality(Pending) + Loops
       /\ Remaining' = 6 + 3 * Cardinality(Pending') + Loops'
  BY DEF Remaining
<1>13. Loops \in Nat  BY LoopFacts
<1>14. Shrinks
  <2>1. MaxSupplementTasks \in Nat  BY Constants
  <2>2. 6 + 3 * Cardinality(Pending') + Loops' < 4 + 3 * Cardinality(Pending) + Loops
    <3>1. \A k \in Nat, l \in Nat, p \in Nat, q \in Nat, n \in Nat :
            k + 3 * n + 3 = l /\ q <= p + n => 6 + 3 * q + k < 4 + 3 * p + l
      OBVIOUS
    <3> QED  BY <1>3, <1>10, <1>11, <1>13, <2>1, <3>1
  <2>3. Remaining' < Remaining  BY Zenon, <1>12, <2>2
  <2> QED  BY <2>3 DEF Shrinks
<1> QED  BY <1>6, <1>8, <1>9, <1>14 DEF Fit

LEMMA CriticFits == ASSUME Sound, Critic PROVE Fit' /\ Shrinks
<1>1. node = "critic" /\ UNCHANGED <<option, results, failed, revisions>>  BY DEF Critic, research
<1>2. revisions' \in Nat /\ revisions' <= MaxRevisions  BY <1>1 DEF Sound, Fit, Shaped
<1>3. Loops \in Nat /\ Cardinality(Pending) \in Nat
      /\ Remaining = 4 + 3 * Cardinality(Pending) + Loops
  BY <1>1, LoopFacts, PlanFacts DEF Sound, Fit, Remaining
<1>4. CASE node' = "synthesizer" /\ UNCHANGED <<plan, supplements, replans>>
  <2>1. Fit'  BY <1>1, <1>2, <1>4, Settled DEF Sound
  <2>2. Loops' = Loops  BY <1>1, <1>4, LoopFacts DEF counters
  <2>3. Remaining' = 3 + Loops'  BY <1>4 DEF Remaining
  <2> QED  BY <1>3, <2>1, <2>2, <2>3 DEF Shrinks
<1>5. CASE Replan /\ replans < MaxReplans /\ UNCHANGED <<plan, supplements>>
  <2>1. Fit'  BY <1>1, <1>2, <1>5, Settled DEF Sound, Replan
  <2> QED  BY <1>1, <1>5, <2>1, AtReplan
<1>6. CASE node' = "finalizer" /\ UNCHANGED <<plan, supplements, replans>>
  <2>1. Fit'  BY <1>1, <1>2, <1>6, Settled DEF Sound
  <2> QED  BY <1>1, <1>6, <2>1, AtFinalizer
<1>7. CASE \E new \in option.additions :
             /\ Admissible(new) /\ tasks' = tasks \o new /\ supplements' = supplements + 1
             /\ node' = "schedule_wave" /\ UNCHANGED <<version, initial, earlier, replans>>
  BY <1>1, <1>7, SupplementFits
<1> QED  BY <1>4, <1>5, <1>6, <1>7 DEF Critic, Write, FatalUpdate

LEMMA SynthesizerFits == ASSUME Sound, Synthesizer PROVE Fit' /\ Shrinks
<1>1. /\ node = "synthesizer" /\ node' \in {"quality_gate", "finalizer"}
      /\ UNCHANGED <<plan, research, counters>>
  BY DEF Synthesizer, FatalUpdate
<1>2. Fit'  BY <1>1, Settled DEF Sound, Fit, Shaped, research, counters
<1>3. Loops' = Loops /\ Loops \in Nat  BY <1>1, LoopFacts
<1>4. Remaining = 3 + Loops  BY <1>1 DEF Remaining
<1>5. CASE node' = "quality_gate"
  <2>1. Remaining' = 2 + Loops'  BY <1>5 DEF Remaining
  <2> QED  BY <1>2, <1>3, <1>4, <2>1 DEF Shrinks
<1>6. CASE node' = "finalizer"  BY <1>1, <1>2, <1>6, AtFinalizer
<1> QED  BY <1>1, <1>5, <1>6

LEMMA QualityGateFits == ASSUME Sound, QualityGate PROVE Fit' /\ Shrinks
<1>1. /\ node = "quality_gate" /\ UNCHANGED <<plan, research, supplements>>
      /\ \/ node' = "finalizer" /\ UNCHANGED revisions
         \/ Revise /\ revisions < MaxRevisions /\ UNCHANGED replans
         \/ Replan /\ replans < MaxReplans /\ UNCHANGED revisions
  BY DEF QualityGate, GiveUpOn, FatalUpdate
<1>2. UNCHANGED <<results, failed>>  BY <1>1 DEF research
<1>3. revisions \in Nat /\ revisions <= MaxRevisions  BY DEF Sound, Fit, Shaped
<1>4. CASE node' = "finalizer" /\ UNCHANGED revisions
  <2>1. Fit'  BY <1>1, <1>2, <1>3, <1>4, Settled DEF Sound
  <2> QED  BY <1>1, <1>4, <2>1, AtFinalizer
<1>5. CASE Revise /\ revisions < MaxRevisions /\ UNCHANGED replans
  <2>1. node' = "synthesizer" /\ revisions' = revisions + 1  BY <1>5 DEF Revise
  <2>2. Fit'  BY <1>1, <1>2, <1>3, <1>5, <2>1, Settled, Constants DEF Sound
  <2>3. Loops \in Nat /\ Loops' \in Nat /\ Loops' + 2 = Loops  BY <1>1, <1>5, <2>1, LoopFacts
  <2>4. Remaining = 2 + Loops /\ Remaining' = 3 + Loops'  BY <1>1, <2>1 DEF Remaining
  <2>5. 3 + Loops' < 2 + Loops
    <3>1. \A k \in Nat, l \in Nat : k + 2 = l => 3 + k < 2 + l  OBVIOUS
    <3> QED  BY <2>3, <3>1
  <2>6. Remaining' < Remaining  BY Zenon, <2>4, <2>5
  <2> QED  BY <2>2, <2>6 DEF Shrinks
<1>6. CASE Replan /\ replans < MaxReplans /\ UNCHANGED revisions
  <2>1. Fit'  BY <1>1, <1>2, <1>3, <1>6, Settled DEF Sound, Replan
  <2> QED  BY <1>1, <1>6, <2>1, AtReplan
<1> QED  BY <1>1, <1>4, <1>5, <1>6

LEMMA FinalizerFits == ASSUME Sound, Finalizer PROVE Fit' /\ Shrinks
<1>1. node = "finalizer" /\ node' = "end" /\ UNCHANGED <<plan, research, counters>>
  BY DEF Finalizer
<1>2. Fit'  BY <1>1, Settled DEF Sound, Fit, Shaped, research, counters
<1> QED  BY <1>1, <1>2 DEF Shrinks, Remaining

LEMMA InitSound == Init => Sound
<1> SUFFICES ASSUME Init PROVE Sound  OBVIOUS
<1>1. Inv  BY InitInv
<1>2. node = "supervisor" /\ supplements = 0 /\ revisions = 0 /\ failed = {} /\ earlier = 0
  BY DEF Init
<1>3. /\ IsPlan(tasks) /\ Len(tasks) \in Nat /\ initial = Len(tasks) /\ DOMAIN results \subseteq DOMAIN tasks
      /\ version \in Nat /\ version <= MaxReplans + 1 /\ Len(tasks) <= version * MaxInitialTasks
  <2>1. CASE option.revision
    <3>1. InitialPlan(tasks)  BY <2>1, WorkflowAssumption DEF Init, IsOption
    <3>2. IsPlan(tasks) /\ Len(tasks) \in Nat /\ Len(tasks) <= MaxInitialTasks
      BY <3>1, Constants DEF InitialPlan, IsPlan
    <3> QED  BY <2>1, <3>2, Constants DEF Init
  <2>2. CASE ~option.revision
    <3>1. tasks = << >> /\ initial = 0 /\ version = 0 /\ DOMAIN results = {}  BY <2>2 DEF Init, NoTasks
    <3>2. IsPlan(tasks) /\ Len(tasks) = 0  BY <3>1 DEF IsPlan
    <3> QED  BY <3>1, <3>2, Constants
  <2> QED  BY <2>1, <2>2
<1>4. Shaped  BY <1>2, <1>3, Constants DEF Shaped, Tasks
<1>5. Allowance \in Nat /\ Len(tasks) <= Allowance
  <2>1. version * MaxInitialTasks \in Nat  BY <1>3, Constants, Products
  <2>2. supplements * MaxSupplementTasks = 0  BY <1>2, Constants
  <2> QED  BY <1>3, <2>1, <2>2 DEF Allowance
<1>6. Sized  BY <1>2, <1>3, <1>5 DEF Sized
<1>7. Waved  BY <1>2 DEF Waved
<1> QED  BY <1>1, <1>4, <1>6, <1>7 DEF Sound, Fit

LEMMA StepSound == Sound /\ [Next]_vars => Sound' /\ [node' # node => Remaining' < Remaining]_vars
<1> SUFFICES ASSUME Sound, [Next]_vars
             PROVE  Sound' /\ [node' # node => Remaining' < Remaining]_vars
  OBVIOUS
<1>1. Inv'  BY StepInv DEF Sound
<1>2. CASE UNCHANGED vars
  <2>1. UNCHANGED <<node, version, tasks, initial, earlier, work, results, failed, supplements, revisions>>
    BY <1>2 DEF vars, plan, research, counters
  <2>2. Shaped' /\ Sized'  BY <2>1 DEF Sound, Fit, Shaped, Sized, Allowance, Tasks
  <2>3. Ready' = Ready /\ Pending' = Pending
    BY <2>1 DEF Ready, Pending, Succeeded, Repaired, Tasks
  <2>4. Waved'  BY <2>1, <2>3 DEF Sound, Fit, Waved
  <2> QED  BY <1>1, <1>2, <2>2, <2>4 DEF Sound, Fit
<1>3. CASE Next
  <2>1. Fit' /\ Shrinks
    BY <1>3, SupervisorFits, PlannerFits, ApprovalFits, ScheduleFits, AttemptFits, WaveDoneFits,
       WaveJoinFits, GateFits, CriticFits, SynthesizerFits, QualityGateFits, FinalizerFits,
       InterruptFits
    DEF Next, Graph
  <2> QED  BY <1>1, <2>1 DEF Sound, Shrinks
<1> QED  BY <1>2, <1>3

-----------------------------------------------------------------------------
(* The theorems.                                                            *)

(* A run is completed only with the accepted report of its plan and a       *)
(* result that counts for every task, and a report that lacks something     *)
(* says so (workflow.py: _quality_gate, _finalizer).                        *)
THEOREM VerdictsAreEarned == Spec => []VerdictIsEarned
<1>1. Init => Inv  BY InitInv
<1>2. Inv /\ [Next]_vars => Inv'  BY StepInv
<1>3. Inv => VerdictIsEarned  BY DEF Inv
<1> QED  BY <1>1, <1>2, <1>3, PTL DEF Spec

(* Every node, approval and crash of the graph is a step that ResearchRun   *)
(* allows, or none: research follows an approved plan, of MaxReplans + 1    *)
(* plans at most, only a refusal cancels, and the verdict is given once.    *)
THEOREM ImplementsRun == Spec => Run!Init /\ [][Run!Next]_(Run!vars)
<1>1. Init => Inv /\ Run!Init  BY InitInv
<1>2. Inv /\ [Next]_vars => Inv' /\ [Run!Next]_(Run!vars)  BY StepInv
<1> QED  BY <1>1, <1>2, PTL DEF Spec

(* What a review is based on and what the last node counts is within the    *)
(* contracts: the critic sees each task in exactly one state, a plan that   *)
(* was supplemented has used its round, and all versions together have no   *)
(* more tasks than the bounds of the loops add up to (ReviewContext,        *)
(* _finalizer), whatever the plans, the decisions and the failures are.     *)
THEOREM ContractsAreKept == Spec => []ContractsHold
<1>1. Sound => ContractsHold
  <2> SUFFICES ASSUME Sound PROVE ContractsHold  OBVIOUS
  <2>1. DOMAIN results \subseteq Tasks /\ failed \subseteq Tasks  BY DEF Sound, Fit, Shaped
  <2>2. Repaired \subseteq Tasks
    <3>1. tasks \in Seq(Task) /\ \A t \in Tasks : tasks[t].repairs \subseteq 1..(t - 1)
      BY DEF Sound, Fit, Shaped, IsPlan, Tasks
    <3>2. ASSUME NEW t \in Tasks, NEW r \in tasks[t].repairs PROVE r \in Tasks
      <4>1. r \in 1..(t - 1) /\ t \in 1..Len(tasks) /\ Tasks = 1..Len(tasks) /\ Len(tasks) \in Nat
        BY <3>1, <3>2, PlanFacts DEF Sound, Fit
      <4> QED  BY <4>1
    <3> QED  BY <2>1, <3>2 DEF Repaired
  <2>3. ASSUME node = "critic"
        PROVE  /\ Review.completed \cap Review.failed = {}
               /\ Review.partial \cap (Review.completed \cup Review.failed) = {}
               /\ Review.blocked \cap (Review.completed \cup Review.failed \cup Review.partial) = {}
               /\ Review.revision <= Review.used /\ Review.used <= 1
               /\ Tasks = Review.completed \cup Review.failed \cup Review.partial \cup Review.blocked
                            \cup Repaired
    <3> DEFINE ok == {t \in DOMAIN results : results[t] = "complete"}
               part == {t \in DOMAIN results : results[t] # "complete"}
               failing == failed \ DOMAIN results
               blocked == {t \in Tasks \ (DOMAIN results \cup failing) :
                             ~(tasks[t].deps \subseteq Succeeded)}
    <3>1. /\ Review.completed = ok /\ Review.partial = part /\ Review.failed = failing
          /\ Review.blocked = blocked /\ Review.used = supplements
          /\ Review.revision = IF Len(tasks) > initial THEN 1 ELSE 0
      BY DEF Review, Facts
    <3>2. supplements \in Nat /\ supplements <= 1 /\ (Len(tasks) > initial => supplements >= 1)
      BY Constants DEF Sound, Fit, Shaped, Sized
    <3>3. Ready = {}  BY <2>3 DEF Sound, Fit, Waved
    <3>4. Tasks \subseteq ok \cup failing \cup part \cup blocked \cup Repaired
      <4> SUFFICES ASSUME NEW t \in Tasks, t \notin DOMAIN results, t \notin failed, t \notin Repaired
                   PROVE  t \in blocked
        OBVIOUS
      <4>1. t \notin Ready /\ t \notin Succeeded \cup failed  BY <3>3 DEF Succeeded
      <4> QED  BY <4>1 DEF Ready
    <3>5. ok \cup failing \cup part \cup blocked \cup Repaired \subseteq Tasks  BY <2>1, <2>2
    <3>6. ok \cap failing = {} /\ part \cap (ok \cup failing) = {}
          /\ blocked \cap (ok \cup failing \cup part) = {}
      OBVIOUS
    <3> HIDE DEF ok, part, failing, blocked
    <3> QED  BY <3>1, <3>2, <3>4, <3>5, <3>6
  <2>4. earlier + Len(tasks) <= (MaxReplans + 1) * MaxInitialTasks + MaxSupplements * MaxSupplementTasks
    <3>1. /\ version \in Nat /\ version <= MaxReplans + 1 /\ MaxReplans + 1 \in Nat
          /\ supplements \in Nat /\ supplements <= MaxSupplements
          /\ earlier \in Nat /\ Len(tasks) \in Nat /\ earlier + Len(tasks) <= Allowance
      BY PlanFacts, Constants DEF Sound, Inv, Typed, Fit, Shaped, Sized
    <3>2. /\ version * MaxInitialTasks <= (MaxReplans + 1) * MaxInitialTasks
          /\ version * MaxInitialTasks \in Nat /\ (MaxReplans + 1) * MaxInitialTasks \in Nat
      <4> DEFINE n == MaxReplans + 1
      <4>1. n \in Nat /\ version <= n  BY <3>1
      <4> HIDE DEF n
      <4>2. version * MaxInitialTasks <= n * MaxInitialTasks
            /\ version * MaxInitialTasks \in Nat /\ n * MaxInitialTasks \in Nat
        BY <3>1, <4>1, Constants, Products
      <4> QED  BY <4>2 DEF n
    <3>3. /\ supplements * MaxSupplementTasks <= MaxSupplements * MaxSupplementTasks
          /\ supplements * MaxSupplementTasks \in Nat /\ MaxSupplements * MaxSupplementTasks \in Nat
      BY <3>1, Constants, Products
    <3> QED  BY <3>1, <3>2, <3>3 DEF Allowance
  <2> QED  BY <2>3, <2>4 DEF ContractsHold
<1>2. Sound /\ [Next]_vars => Sound'  BY StepSound
<1> QED  BY InitSound, <1>1, <1>2, PTL DEF Spec

(* With the bounds the workflow is built with (at most 5 tasks of a plan, 2 *)
(* of a supplement, one replan), the 12 tasks that ExecutionMetrics accepts *)
(* are never exceeded.                                                      *)
THEOREM MetricsFit ==
  ASSUME MaxInitialTasks <= 5, MaxSupplementTasks <= 2, MaxReplans <= 1
  PROVE  Spec => [](earlier + Len(tasks) <= 12)
<1>1. Sound => earlier + Len(tasks) <= 12
  <2> SUFFICES ASSUME Sound PROVE earlier + Len(tasks) <= 12  OBVIOUS
  <2>1. /\ version \in Nat /\ version <= 2 /\ supplements \in Nat /\ supplements <= 1
        /\ earlier \in Nat /\ Len(tasks) \in Nat /\ earlier + Len(tasks) <= Allowance
    BY PlanFacts, Constants DEF Sound, Inv, Typed, Fit, Shaped, Sized
  <2>2. version * MaxInitialTasks <= 10 /\ version * MaxInitialTasks \in Nat
    <3>1. version = 0 \/ version = 1 \/ version = 2  BY <2>1
    <3> QED  BY <3>1, Constants
  <2>3. supplements * MaxSupplementTasks <= 2 /\ supplements * MaxSupplementTasks \in Nat
    <3>1. supplements = 0 \/ supplements = 1  BY <2>1
    <3> QED  BY <3>1, Constants
  <2> QED  BY <2>1, <2>2, <2>3 DEF Allowance
<1>2. Sound /\ [Next]_vars => Sound'  BY StepSound
<1> QED  BY InitSound, <1>1, <1>2, PTL DEF Spec

(* Each node that is executed uses up one of the nodes that remained: the   *)
(* counters of the replans, supplements and revisions and the tasks of a    *)
(* wave bound the graph together, along every route between its loops.      *)
THEOREM RunsAreBounded == Spec => EachNodeCounts
<1>1. Sound /\ [Next]_vars => Sound' /\ [node' # node => Remaining' < Remaining]_vars  BY StepSound
<1> QED  BY InitSound, <1>1, PTL DEF Spec, EachNodeCounts
=============================================================================
