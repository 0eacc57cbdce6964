------------------------------ MODULE Workflow ------------------------------
(***************************************************************************)
(* The research graph of one run (agents/workflow.py): planner, approval,  *)
(* waves of parallel researchers, gate, critic, synthesizer, quality gate, *)
(* finalizer, and the counters that bound its loops.  A node execution is  *)
(* one step, because its output is checkpointed as a whole; the attempts   *)
(* of the researchers of a wave interleave.                                *)
(***************************************************************************)
EXTENDS Naturals, Sequences, FiniteSets

CONSTANTS
  MaxInitialTasks, MaxSupplementTasks, MaxPlanTasks,
  MaxSupplements, MaxReplans, MaxRevisions,
  MaxAttempts,     \* max_research_attempts
  QuorumPercent,   \* quorum_ratio
  Options,         \* configurations, modes and policies of a run
  MaxCrashes       \* bound: interrupted and continued executions

(* A task names the tasks it depends on and the ones it repairs by their    *)
(* place in the plan; validate_task_dag lets a dependency point backwards   *)
(* in some order, and the plan is written in that order.                    *)
Task == [deps : SUBSET Nat, repairs : SUBSET Nat]
IsPlan(tasks) ==
  /\ tasks \in Seq(Task)
  /\ \A t \in DOMAIN tasks : /\ tasks[t].deps \cup tasks[t].repairs \subseteq 1..(t - 1)
                             /\ tasks[t].deps \cap tasks[t].repairs = {}
InitialPlan(p) ==
  IsPlan(p) /\ Len(p) \in 2..MaxInitialTasks /\ \A t \in DOMAIN p : p[t].repairs = {}

(* autoApprove; partial: accept_partial_results; relaxed: quality_relaxed_- *)
(* review; revision: execution_mode = "report_revision"; required: the      *)
(* supplement rounds of the policy; plans, additions: the plans of the      *)
(* planner or an approver and the supplements of the critic that fit it.    *)
IsOption(o) ==
  /\ {o.autoApprove, o.partial, o.relaxed, o.revision} \subseteq BOOLEAN
  /\ o.required \in 0..MaxSupplements
  /\ \A p \in o.plans : InitialPlan(p)
  /\ \A a \in o.additions : a \in Seq(Task) /\ Len(a) \in 1..MaxSupplementTasks

ASSUME WorkflowAssumption ==
  /\ {MaxInitialTasks, MaxSupplementTasks, MaxPlanTasks, MaxSupplements, MaxReplans,
      MaxRevisions, MaxAttempts, QuorumPercent, MaxCrashes} \subseteq Nat
  /\ MaxAttempts >= 1 /\ MaxInitialTasks >= 2 /\ MaxSupplementTasks >= 1 /\ MaxSupplements <= 1
  /\ MaxInitialTasks <= MaxPlanTasks
  /\ QuorumPercent \in 1..100
  /\ \A o \in Options : IsOption(o)

Nodes == {"supervisor", "planner", "approval", "schedule_wave", "researcher", "wave_join",
          "research_gate", "critic", "synthesizer", "quality_gate", "finalizer", "end"}

(* calibrate_task_result: complete; accepted, a partial result that counts; *)
(* partial, one that does not; empty, a partial result of coverage zero.    *)
Outcomes == {"complete", "accepted", "partial", "empty"}

VARIABLES
  option, node,
  version, tasks, initial,  \* the plan: its version, tasks, and how many were not supplemented
  earlier,                  \* number of tasks of the versions before
  work,                     \* the wave: a researcher for each ready task
  results, failed,          \* research_results and research_failed errors of the version
  supplements, replans, revisions,
  drafts, review,           \* draft_versions: how many, and the plan version of the last;
                            \* the last decision of quality_history
  budget,                   \* the tool budget is not used up
  warnings,                 \* warnings in the state, "tools" being the operational ones
  requested, fatal, fallback, final, crashes

plan     == <<version, tasks, initial, earlier>>
research == <<work, results, failed>>
counters == <<supplements, replans, revisions>>
report   == <<drafts, review>>
outcome  == <<warnings, requested, fatal, fallback, final>>
vars == <<option, node, plan, research, counters, report, budget, outcome, crashes>>

Tasks == DOMAIN tasks
ReportFirst == option.partial /\ option.relaxed
Researcher == [attempt : 1..MaxAttempts, best : Outcomes \cup {"none"},
               outcome : Outcomes \cup {"running", "failed"}, failed : BOOLEAN]
Idle == [attempt |-> 1, best |-> "none", outcome |-> "running", failed |-> FALSE]

TypeOK ==
  /\ option \in Options /\ node \in Nodes
  /\ version \in Nat /\ initial \in Nat /\ earlier \in Nat
  /\ IsPlan(tasks) /\ Len(tasks) <= MaxPlanTasks
  /\ DOMAIN results \subseteq Tasks /\ results \in [DOMAIN results -> Outcomes]
  /\ failed \subseteq Tasks
  /\ DOMAIN work \subseteq Tasks /\ work \in [DOMAIN work -> Researcher]
  /\ supplements \in 0..MaxSupplements /\ replans \in 0..MaxReplans
  /\ revisions \in 0..MaxRevisions
  /\ drafts \in [count : Nat, version : Nat]
  /\ review \in [version : Nat, draft : Nat, accepted : BOOLEAN]
  /\ warnings \subseteq {"tools", "limits"}
  /\ requested \in {"none", "completed", "with_warnings", "failed", "cancelled"}
  /\ final \in {"none", "completed", "with_warnings", "failed", "cancelled"}
  /\ {budget, fatal, fallback} \subseteq BOOLEAN /\ crashes \in 0..MaxCrashes

NoTasks == [t \in {} |-> "none"]
NoReview == [version |-> 0, draft |-> 0, accepted |-> FALSE]
Draft(d) == [count |-> d.count + 1, version |-> version]

(* _seed_continuation: a revision of a report starts with the plan, results *)
(* and report of the run it revises.                                        *)
Init ==
  /\ option \in Options
  /\ node = "supervisor"
  /\ IF option.revision
     THEN /\ version = 1 /\ tasks \in option.plans /\ initial = Len(tasks)
          /\ results \in UNION {[S -> Outcomes] : S \in SUBSET DOMAIN tasks}
          /\ drafts = [count |-> 1, version |-> 1] /\ warnings \in {{}, {"limits"}}
     ELSE /\ version = 0 /\ tasks = << >> /\ initial = 0 /\ results = NoTasks
          /\ drafts = [count |-> 0, version |-> 0] /\ warnings = {}
  /\ earlier = 0 /\ work = NoTasks /\ failed = {}
  /\ supplements = 0 /\ replans = 0 /\ revisions = 0
  /\ review = NoReview /\ budget = TRUE
  /\ requested = "none" /\ fatal = FALSE /\ fallback = FALSE /\ final = "none"
  /\ crashes = 0

-----------------------------------------------------------------------------
(* What the nodes read.                                                     *)

Accepted(t) == t \in DOMAIN results /\ results[t] \in {"complete", "accepted"}

RepairedByAny == UNION {tasks[t].repairs : t \in DOMAIN results}   \* mutant

(* Only a complete result repairs; the checks of a supplement keep the      *)
(* criteria of its targets.                                                 *)
Repaired == UNION {tasks[t].repairs : t \in {u \in DOMAIN results : results[u] = "complete"}}

Succeeded == DOMAIN results \cup Repaired

ReadyAgain == {t \in Tasks \ Succeeded : tasks[t].deps \subseteq Succeeded}   \* mutant
Ready == {t \in Tasks \ (Succeeded \cup failed) : tasks[t].deps \subseteq Succeeded}

(* _task_gap_warnings: tasks without a result that counts.                  *)
Gaps == {t \in Tasks \ Repaired : ~Accepted(t)}

(* The facts of _review_context; a task whose retry failed after a partial  *)
(* result is partial.                                                       *)
Facts(failing) ==
  [completed |-> {t \in DOMAIN results : results[t] = "complete"},
   partial   |-> {t \in DOMAIN results : results[t] # "complete"},
   failed    |-> failing,
   blocked   |-> {t \in Tasks \ (DOMAIN results \cup failing) :
                    ~(tasks[t].deps \subseteq Succeeded)},
   revision  |-> IF Len(tasks) > initial THEN 1 ELSE 0,
   used      |-> supplements]

FactsOfErrors == Facts(failed)                                  \* mutant
Review == Facts(failed \ DOMAIN results)

(* A stage with tools may use up the budget and leave a warning: of a tool  *)
(* that failed, which is also operational, or of the budget.  The rewriting *)
(* of a report calls no tools.                                              *)
ToolStage(W) ==
  IF option.revision THEN W = {} /\ UNCHANGED budget
  ELSE \/ W \in {{}, {"tools"}} /\ budget' \in {budget, FALSE}
       \/ W = {"limits"} /\ budget' = FALSE

(* _fatal_update: an outage of a provider or a tool is delivered as a       *)
(* limited report when reports come first.                                  *)
FatalUpdate(outage) ==
  /\ node' = "finalizer"
  /\ IF ReportFirst /\ outage
     THEN fallback' = TRUE /\ fatal' = FALSE /\ requested' = "with_warnings"
     ELSE fatal' = TRUE /\ requested' = "failed" /\ UNCHANGED fallback

NodeFails(W, outage) ==
  /\ FatalUpdate(outage) /\ warnings' = warnings \cup W
  /\ UNCHANGED <<option, plan, research, counters, report, final, crashes>>

(* The edges of the loops, each with its counter.                           *)
Replan == node' = "planner" /\ replans' = replans + 1

ReviseUncounted == node' = "synthesizer" /\ UNCHANGED revisions \* mutant
Revise == node' = "synthesizer" /\ revisions' = revisions + 1

-----------------------------------------------------------------------------
(* The nodes.                                                               *)

Supervisor ==
  /\ node = "supervisor"
  /\ node' = IF option.revision THEN "synthesizer" ELSE "planner"
  /\ UNCHANGED <<option, plan, research, counters, report, budget, outcome, crashes>>

(* A new plan starts a new version: next_plan_version is one more than the  *)
(* version that was given up, and results are filed under their version.    *)
Planner ==
  /\ node = "planner"
  /\ \E W \in SUBSET {"tools", "limits"} : ToolStage(W) /\
       \/ \E p \in option.plans :
            /\ tasks' = p /\ initial' = Len(p)
            /\ version' = replans + 1 /\ earlier' = earlier + Len(tasks)
            /\ results' = NoTasks /\ failed' = {}
            /\ node' = "approval" /\ requested' = "none" /\ fatal' = FALSE
            /\ warnings' = warnings \cup W
            /\ UNCHANGED <<option, work, counters, report, fallback, final, crashes>>
       \/ \E outage \in BOOLEAN : NodeFails(W, outage)

(* interrupt() returns the decision of the user; an edited plan keeps the   *)
(* version.                                                                 *)
Approve ==
  /\ node = "approval"
  /\ \/ UNCHANGED <<tasks, initial>>
     \/ ~option.autoApprove /\ tasks' \in option.plans /\ initial' = Len(tasks')
  /\ node' = "schedule_wave" /\ requested' = "none"
  /\ UNCHANGED <<option, version, earlier, research, counters, report, budget, warnings, fatal,
                 fallback, final, crashes>>

Reject ==
  /\ node = "approval" /\ ~option.autoApprove
  /\ node' = "finalizer" /\ requested' = "cancelled"
  /\ UNCHANGED <<option, plan, research, counters, report, budget, warnings, fatal, fallback,
                 final, crashes>>

ScheduleWave ==
  /\ node = "schedule_wave"
  /\ IF Ready = {} THEN node' = "research_gate" /\ UNCHANGED work
     ELSE node' = "researcher" /\ work' = [t \in Ready |-> Idle]
  /\ UNCHANGED <<option, plan, results, failed, counters, report, budget, outcome, crashes>>

(* What a researcher returns: a result, or none, and its errors.            *)
Done(o, error) == [attempt |-> 1, best |-> "none", outcome |-> o, failed |-> error]

(* Its tools may use up the budget.                                         *)
Attempt(t, w) ==
  /\ node = "researcher" /\ t \in DOMAIN work /\ work[t].outcome = "running"
  /\ budget' \in {budget, FALSE}
  /\ work' = [work EXCEPT ![t] = w]
  /\ UNCHANGED <<option, node, plan, results, failed, counters, report, outcome, crashes>>

AttemptAccepted(t) ==
  \E o \in IF option.partial THEN {"complete", "accepted"} ELSE {"complete"} :
    Attempt(t, Done(o, FALSE))

(* Of two partial results the one with the better coverage, else the later. *)
Better(old, new) == IF old = "partial" THEN old ELSE new

(* A partial result that does not count is tried again once, unless tools   *)
(* the task needs are missing.                                              *)
AttemptPartial(t) ==
  \E o \in {"partial", "empty"}, missing \in BOOLEAN :
    LET w == work[t]  b == Better(w.best, o) IN
    Attempt(t, IF w.attempt < MaxAttempts /\ ~missing /\ budget'
               THEN [w EXCEPT !.attempt = @ + 1, !.best = b]
               ELSE Done(b, FALSE))

(* An exception: of a tool that cannot help any more, or one worth a retry. *)
AttemptFailed(t) ==
  \E terminal \in BOOLEAN :
    LET w == work[t] IN
    Attempt(t, IF w.attempt < MaxAttempts /\ ~terminal
               THEN [w EXCEPT !.attempt = @ + 1]
               ELSE Done(IF w.best = "none" THEN "failed" ELSE w.best, TRUE))

(* The graph goes on when every researcher of the wave has returned; what   *)
(* they return is merged at once (_merge_results).                          *)
WaveDone ==
  /\ node = "researcher" /\ \A t \in DOMAIN work : work[t].outcome # "running"
  /\ results' = [t \in DOMAIN results \cup {u \in DOMAIN work : work[u].outcome # "failed"} |->
                   IF t \in DOMAIN work THEN work[t].outcome ELSE results[t]]
  /\ failed' = failed \cup {t \in DOMAIN work : work[t].failed}
  /\ work' = NoTasks /\ node' = "wave_join"
  /\ UNCHANGED <<option, plan, counters, report, budget, outcome, crashes>>

WaveJoin ==
  /\ node = "wave_join" /\ node' = "schedule_wave"
  /\ UNCHANGED <<option, plan, research, counters, report, budget, outcome, crashes>>

(* Usable research: results of some coverage, and repaired tasks.           *)
Usable == {t \in DOMAIN results : results[t] # "empty"} \cup Repaired
Quorum == 100 * Cardinality(Usable) >= QuorumPercent * Len(tasks)

Limit == warnings' = warnings \cup {"limits"}

ResearchGate ==
  /\ node = "research_gate"
  /\ \/ /\ Quorum /\ node' = "critic"
        /\ UNCHANGED <<replans, outcome>>
     \/ /\ ~Quorum /\ ReportFirst
        /\ Limit /\ UNCHANGED <<replans, fatal, final>>
        /\ IF Usable # {} THEN node' = "synthesizer" /\ UNCHANGED <<requested, fallback>>
           ELSE node' = "finalizer" /\ requested' = "with_warnings" /\ fallback' = TRUE
     \/ /\ ~Quorum /\ ~ReportFirst /\ budget /\ replans < MaxReplans
        /\ Replan /\ UNCHANGED outcome
     \/ /\ ~Quorum /\ ~ReportFirst /\ (~budget \/ replans = MaxReplans)
        /\ node' = "finalizer" /\ fatal' = TRUE /\ requested' = "failed"
        /\ warnings' = IF budget THEN warnings ELSE warnings \cup {"limits"}
        /\ UNCHANGED <<replans, fallback, final>>
  /\ UNCHANGED <<option, plan, research, supplements, revisions, report, budget, crashes>>

-----------------------------------------------------------------------------
(* Review and writing.                                                      *)

RoundPending == supplements < option.required

(* Checks of a supplement (validate_for, validate_local_repairs,            *)
(* with_supplement): the tasks depend on no failed or blocked one, and      *)
(* repair tasks that were reviewed.                                         *)
Admissible(new) ==
  /\ supplements < MaxSupplements /\ Len(tasks) + Len(new) <= MaxPlanTasks
  /\ IsPlan(tasks \o new)
  /\ \A i \in DOMAIN new : /\ new[i].repairs \subseteq Tasks
                           /\ new[i].deps \cap (Review.failed \cup Review.blocked) = {}

Write(W) == node' = "synthesizer" /\ warnings' = W

(* A decision the workflow takes over.  What a decision that would start    *)
(* new research becomes without a tool budget: the warnings of the stage    *)
(* are replaced by the reason, as in every branch that gives one.           *)
Critic ==
  /\ node = "critic"
  /\ \E W \in SUBSET {"tools", "limits"} : ToolStage(W) /\
       \/ /\ ~RoundPending /\ Write(warnings \cup W)      \* accept
          /\ UNCHANGED <<plan, supplements, replans, requested, fatal, fallback>>
       \/ \E new \in option.additions, critical \in BOOLEAN : \* supplement
            /\ Admissible(new)
            /\ IF option.partial /\ ~RoundPending /\ Gaps = {} /\ ~critical
               THEN Write(warnings \cup W) /\ UNCHANGED <<plan, supplements>>
               ELSE IF ~budget' THEN Write(warnings \cup {"limits"})
                                     /\ UNCHANGED <<plan, supplements>>
               ELSE /\ tasks' = tasks \o new
                    /\ supplements' = supplements + 1
                    /\ node' = "schedule_wave" /\ warnings' = warnings \cup W
                    /\ UNCHANGED <<version, initial, earlier>>
            /\ UNCHANGED <<replans, requested, fatal, fallback>>
       \/ /\ ~RoundPending                                \* replan
          /\ IF ~ReportFirst /\ replans < MaxReplans /\ budget'
             THEN Replan /\ warnings' = warnings \cup W
             ELSE Write(warnings \cup {"limits"}) /\ UNCHANGED replans
          /\ UNCHANGED <<plan, supplements, requested, fatal, fallback>>
       \/ \* a review that is not well formed, where all tasks count already
          /\ option.partial /\ ~RoundPending /\ Gaps = {}
          /\ Write(warnings \cup W \cup {"tools"})
          /\ UNCHANGED <<plan, supplements, replans, requested, fatal, fallback>>
       \/ \E outage \in BOOLEAN :
            /\ FatalUpdate(outage) /\ warnings' = warnings \cup W
            /\ UNCHANGED <<plan, supplements, replans>>
  /\ UNCHANGED <<option, research, revisions, report, final, crashes>>

Synthesizer ==
  /\ node = "synthesizer"
  /\ \E W \in SUBSET {"tools", "limits"} : ToolStage(W) /\
       \/ /\ drafts' = Draft(drafts) /\ node' = "quality_gate"
          /\ warnings' = warnings \cup W
          /\ UNCHANGED <<requested, fatal, fallback>>
       \/ \E outage \in BOOLEAN :
            FatalUpdate(outage) /\ warnings' = warnings \cup W /\ UNCHANGED drafts
  /\ UNCHANGED <<option, plan, research, counters, review, final, crashes>>

Reviewed(accepted) ==
  review' = [version |-> version, draft |-> drafts.count, accepted |-> accepted]

GiveUpOn(W) == node' = "finalizer" /\ requested' = "with_warnings" /\ warnings' = W

(* When reports come first, later drafts are judged without tools and a     *)
(* decision to research again becomes a local revision.                     *)
QualityGate ==
  /\ node = "quality_gate"
  /\ \E W \in SUBSET {"tools", "limits"} :
       /\ IF ReportFirst /\ drafts.count > 1 THEN W = {} /\ UNCHANGED budget ELSE ToolStage(W)
       /\ \/ /\ Reviewed(TRUE)                              \* accept
             /\ node' = "finalizer" /\ requested' = "completed" /\ warnings' = warnings \cup W
             /\ UNCHANGED <<replans, revisions, fatal, fallback>>
          \/ /\ Reviewed(FALSE)                             \* revise
             /\ IF revisions < MaxRevisions
                THEN Revise /\ warnings' = warnings \cup W /\ UNCHANGED requested
                ELSE GiveUpOn(warnings \cup {"limits"}) /\ UNCHANGED revisions
             /\ UNCHANGED <<replans, fatal, fallback>>
          \/ /\ ~ReportFirst /\ Reviewed(FALSE)             \* replan
             /\ IF replans < MaxReplans /\ budget' /\ ~option.revision
                THEN Replan /\ warnings' = warnings \cup W /\ UNCHANGED requested
                ELSE GiveUpOn(warnings \cup {"limits"}) /\ UNCHANGED replans
             /\ UNCHANGED <<revisions, fatal, fallback>>
          \/ \E outage \in BOOLEAN :
               /\ FatalUpdate(outage) /\ warnings' = warnings \cup W
               /\ UNCHANGED <<replans, revisions, review>>
  /\ UNCHANGED <<option, plan, research, supplements, drafts, final, crashes>>

(* A report that did not pass is published with a warning, or one is put    *)
(* together from what was found, when reports come first.                   *)
Delivers ==
  /\ ReportFirst /\ ~fatal /\ requested # "cancelled"
  /\ \/ fallback
     \/ requested = "with_warnings" /\ review # NoReview /\ ~review.accepted

(* The last review accepted the report that is delivered; then warnings of  *)
(* tools are history.                                                       *)
Approved ==
  /\ requested = "completed" /\ ~Delivers /\ ~fatal
  /\ drafts.count > 0 /\ review.accepted
  /\ review.draft = drafts.count /\ review.version = version

Finalizer ==
  LET raised == warnings \cup (IF Gaps # {} \/ Delivers THEN {"limits"} ELSE {})
      active == IF Approved THEN raised \ {"tools"} ELSE raised
      wanted == IF Delivers THEN "with_warnings" ELSE requested
  IN
  /\ node = "finalizer" /\ node' = "end"
  /\ drafts' = IF Delivers THEN Draft(drafts) ELSE drafts
  /\ warnings' = active
  /\ final' = IF wanted = "cancelled" THEN "cancelled"
              ELSE IF wanted = "failed" \/ fatal THEN "failed"
              ELSE IF active # {} \/ wanted = "with_warnings" THEN "with_warnings"
              ELSE "completed"
  /\ UNCHANGED <<option, plan, research, counters, review, budget, requested, fatal, fallback,
                 crashes>>

(* The process dies or loses its claim: the outputs of the researchers that *)
(* returned are in the journal, the others start again when the run is      *)
(* resumed.                                                                 *)
Interrupt ==
  /\ node = "researcher" /\ crashes < MaxCrashes /\ crashes' = crashes + 1
  /\ work' = [t \in DOMAIN work |-> IF work[t].outcome = "running" THEN Idle ELSE work[t]]
  /\ work' # work
  /\ UNCHANGED <<option, node, plan, results, failed, counters, report, budget, outcome>>

Research(t) == AttemptAccepted(t) \/ AttemptPartial(t) \/ AttemptFailed(t)

Graph ==
  \/ Supervisor \/ Planner \/ ScheduleWave \/ (\E t \in DOMAIN work : Research(t))
  \/ WaveDone \/ WaveJoin \/ ResearchGate \/ Critic \/ Synthesizer \/ QualityGate \/ Finalizer

Next == Graph \/ Approve \/ Reject \/ Interrupt

(* A node that can run is run; nobody has to approve a plan unless it is    *)
(* approved automatically.                                                  *)
Fairness == WF_vars(Graph) /\ WF_vars(option.autoApprove /\ Approve)

Spec == Init /\ [][Next]_vars /\ Fairness

-----------------------------------------------------------------------------
(* Properties.                                                              *)

(* A run is completed only with the report that the quality gate accepted   *)
(* last, on the plan it was written for, and with a result that counts, its *)
(* own or that of a repair, for every task.  Whatever else is delivered has *)
(* a report and says what it lacks (workflow.py: _finalizer).               *)
VerdictIsEarned ==
  /\ final = "completed" =>
       /\ drafts.count > 0 /\ drafts.version = version
       /\ review = [version |-> version, draft |-> drafts.count, accepted |-> TRUE]
       /\ \A t \in Tasks :
            \/ t \in DOMAIN results /\ results[t] \in {"complete", "accepted"}
            \/ \E r \in DOMAIN results : t \in tasks[r].repairs /\ results[r] = "complete"
  /\ final = "with_warnings" => warnings # {} /\ drafts.count > 0

(* The values the nodes build are ones their contracts accept, or the run   *)
(* would end for them: the facts a review is based on (ReviewContext), and  *)
(* the metrics of the last node, which count at most 12 tasks of all        *)
(* versions, a bound that the bounds of the loops have to keep to.          *)
ContractsHold ==
  /\ node = "critic" =>
       LET r == Review IN
       /\ r.completed \cap r.failed = {} /\ r.partial \cap (r.completed \cup r.failed) = {}
       /\ r.blocked \cap (r.completed \cup r.failed \cup r.partial) = {}
       /\ r.revision <= r.used /\ r.used <= 1
       /\ Tasks = r.completed \cup r.failed \cup r.partial \cup r.blocked \cup Repaired
  /\ earlier + Len(tasks) <= (MaxReplans + 1) * MaxInitialTasks + MaxSupplements * MaxSupplementTasks

(* The nodes still to be executed, at most: a bound of each loop times its  *)
(* length.  3 nodes per task, for a wave that finishes only one.            *)
Pending == Tasks \ (DOMAIN results \cup failed)
Loops ==
  (MaxReplans - replans) * (3 * MaxInitialTasks + 7)
    + (MaxSupplements - supplements) * (3 * MaxSupplementTasks + 3)
    + (MaxRevisions - revisions) * 2
Remaining ==
  CASE node = "supervisor"    -> 9 + 3 * MaxInitialTasks + Loops
    [] node = "planner"       -> 8 + 3 * MaxInitialTasks + Loops
    [] node = "approval"      -> 7 + 3 * MaxInitialTasks + Loops
    [] node = "wave_join"     -> 7 + 3 * Cardinality(Pending) + Loops
    [] node = "schedule_wave" -> 6 + 3 * Cardinality(Pending) + Loops
    [] node = "researcher"    -> 5 + 3 * Cardinality(Pending) + Loops
    [] node = "research_gate" -> 5 + 3 * Cardinality(Pending) + Loops
    [] node = "critic"        -> 4 + 3 * Cardinality(Pending) + Loops
    [] node = "synthesizer"   -> 3 + Loops
    [] node = "quality_gate"  -> 2 + Loops
    [] node = "finalizer"     -> 1
    [] node = "end"           -> 0

(* Every node executed uses one up, so that a run takes at most Remaining   *)
(* supersteps: no route between the loops escapes their bounds.             *)
EachNodeCounts == [][node' # node => Remaining' < Remaining]_vars

(* The graph does what a run promises: ResearchRun, with the plans made so  *)
(* far for its plans, and the verdict that is already settled.              *)
Stage ==
  CASE node \in {"supervisor", "planner"} -> IF option.revision THEN "working" ELSE "planning"
    [] node = "approval"                   -> "approval"
    [] node = "finalizer"                  -> "closing"
    [] node = "end"                        -> "over"
    [] OTHER                               -> "working"

Run == INSTANCE ResearchRun WITH
         MaxPlans <- MaxReplans + 1, unattended <- option.autoApprove,
         stage <- Stage, plans <- version,
         verdict <- IF final = "none" /\ requested = "cancelled" THEN requested ELSE final

RunPromised == Run!Spec
=============================================================================
