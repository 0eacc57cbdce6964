----------------------------- MODULE Evaluation -----------------------------
(***************************************************************************)
(* One evaluation experiment: a matrix of cells (case, variant, trial),    *)
(* executed by concurrent tasks that share an HTTP budget, while users     *)
(* cancel and delete it, time runs out, its store fails and the process is *)
(* closed or dies.  V2EvaluationService (evaluation/common/service.py) and *)
(* the first edition, EvaluationService (evaluation/runner.py), differ in  *)
(* what a cell that did not run leaves behind, in recovery and in deletion.*)
(*                                                                         *)
(* The service runs on one event loop, and its two stores never wait: what *)
(* lies between two awaits of a call, a timeout or a gather is one step.   *)
(***************************************************************************)
EXTENDS Naturals, Sequences, FiniteSets

CONSTANTS
  Cells,
  Concurrency,       \* plan.budget.concurrency
  MaxHttpAttempts,   \* plan.budget.max_http_attempts
  Options,           \* editions and plans, and the faults that may strike them
  MaxCancels         \* bound: cancellations of users

(* v2, or the first edition; live, or replayed from frozen inputs; judge:   *)
(* the independent judge; sync: langsmith_sync.  Bounds: crashes, of the    *)
(* process; faults, of the store.                                           *)
IsOption(o) ==
  /\ {o.v2, o.live, o.judge, o.sync} \subseteq BOOLEAN
  /\ {o.crashes, o.faults} \subseteq Nat

ASSUME EvaluationAssumption ==
  /\ IsFiniteSet(Cells) /\ Cells # {}
  /\ {Concurrency, MaxHttpAttempts, MaxCancels} \subseteq Nat /\ Concurrency > 0
  /\ \A o \in Options : IsOption(o)

Active == {"planned", "running"}
Final == {"completed", "failed", "partial", "cancelled"}
RowStatus == {"completed", "failed", "timed_out", "budget_stopped", "not_run"}
StopReasons == {"none", "cancelled", "elapsed", "attempts", "shutdown", "ledger"}

VARIABLES
  option,
  status, rows, ledger, deleted,  \* the stored experiment: rows of each cell, HTTP attempts
  up, closing,                    \* the process
  task,        \* _execute: created, running (awaits its cells), stopping (awaits those
               \* that it cancelled), syncing, done
  wake,        \* what its first gather has returned with
  thrown,      \* a cancellation that no gather passes on: it is thrown when the task goes on
  asked,       \* somebody else than the clock cancelled the task
  cell,        \* the task of each cell
  struck,      \* cells whose task has a cancellation to take
  attempts, stop,                 \* EvaluationBudget
  cancels,                        \* calls of cancel that wait for the end of the task
  sent, requested, crashes, faults  \* history: requests sent, cancellations, interruptions

outcome == <<status, rows, ledger>>
stored  == <<status, rows, ledger, deleted>>
process == <<up, closing>>
driver  == <<task, wake, thrown, asked>>
budget  == <<attempts, stop>>
history == <<sent, requested, crashes, faults>>
vars == <<option, stored, process, driver, cell, struck, budget, cancels, history>>

TypeOK ==
  /\ option \in Options
  /\ status \in Active \cup Final \cup {"none"} /\ rows \in [Cells -> Seq(RowStatus)]
  /\ {ledger, attempts, sent, cancels} \subseteq Nat /\ stop \in StopReasons
  /\ task \in {"none", "created", "running", "stopping", "syncing", "done"}
  /\ wake \in {"none", "done", "cancelled", "broken"}
  /\ {deleted, up, closing, thrown, asked} \subseteq BOOLEAN
  /\ cell \in [Cells -> {"none", "waiting", "executing", "judging", "done"}]
  /\ struck \subseteq Cells /\ requested \in 0..MaxCancels
  /\ crashes \in 0..option.crashes /\ faults \in 0..option.faults

Init ==
  /\ option \in Options
  /\ status = "none" /\ rows = [c \in Cells |-> << >>] /\ ledger = 0 /\ deleted = FALSE
  /\ up = TRUE /\ closing = FALSE
  /\ task = "none" /\ wake = "none" /\ thrown = FALSE /\ asked = FALSE
  /\ cell = [c \in Cells |-> "none"] /\ struck = {}
  /\ attempts = 0 /\ stop = "none" /\ cancels = 0
  /\ sent = 0 /\ requested = 0 /\ crashes = 0 /\ faults = 0

Live == {c \in Cells : cell[c] \in {"waiting", "executing", "judging"}}
Working == {c \in Cells : cell[c] \in {"executing", "judging"}}

(* budget.stop keeps the first reason.                                      *)
Stopped(reason) == IF stop = "none" THEN reason ELSE stop

(* The store fails: a lock that is not released in time, a full disk.       *)
Fault == faults < option.faults /\ faults' = faults + 1
NoFault == UNCHANGED faults

(* A stored experiment that is deleted is not found any more.               *)
Writable == ~deleted

-----------------------------------------------------------------------------
(* The experiment.                                                          *)

Create ==
  /\ up /\ ~closing /\ status = "none"
  /\ status' = "planned" /\ task' = "created"
  /\ UNCHANGED <<option, rows, ledger, deleted, process, wake, thrown, asked, cell, struck, budget,
                 cancels, history>>

(* _execute, until it awaits its cells.                                     *)
Begin ==
  /\ task = "created" /\ ~thrown
  /\ \/ /\ NoFault /\ status' = "running" /\ task' = "running"
        /\ cell' = [c \in Cells |-> "waiting"]
     \/ /\ Fault /\ task' = "done" /\ UNCHANGED <<status, cell>>
  /\ UNCHANGED <<option, rows, ledger, deleted, process, wake, thrown, asked, struck, budget,
                 cancels, sent, requested, crashes>>

(* A task that is cancelled before its first step never runs.               *)
NeverBegun ==
  /\ task = "created" /\ thrown
  /\ task' = "done" /\ thrown' = FALSE
  /\ UNCHANGED <<option, stored, process, wake, asked, cell, struck, budget, cancels, history>>

(* The end of a cell.  The first gather returns with the first cell that    *)
(* was cancelled or has failed, and with the last one otherwise.            *)
Ends(c, how) ==
  /\ cell' = [cell EXCEPT ![c] = "done"] /\ struck' = struck \ {c}
  /\ wake' = IF task # "running" \/ wake # "none" THEN wake
             ELSE IF how # "done" \/ Live = {c} THEN how ELSE "none"

(* record: the row is added to what is stored, with the budget so far.      *)
Record(c, s, how) ==
  \/ /\ Writable /\ NoFault
     /\ rows' = [rows EXCEPT ![c] = Append(@, s)] /\ ledger' = attempts
     /\ Ends(c, how)
  \/ /\ (~Writable /\ NoFault) \/ Fault
     /\ Ends(c, "broken") /\ UNCHANGED <<rows, ledger>>

Step(c) ==
  UNCHANGED <<option, status, deleted, process, task, thrown, asked, cancels, requested, crashes>>

(* An artifact is frozen and scored by rules; with a judge it is judged     *)
(* next.                                                                    *)
Scored(c) ==
  IF option.judge THEN /\ cell' = [cell EXCEPT ![c] = "judging"]
                       /\ UNCHANGED <<rows, ledger, wake, struck, faults>>
  ELSE Record(c, "completed", "done")

(* A cell gets one of the places (semaphore): once the budget is stopped it *)
(* is done with, and a replayed one is scored at once.                      *)
Enter(c) ==
  /\ cell[c] = "waiting" /\ c \notin struck /\ Cardinality(Working) < Concurrency
  /\ IF stop # "none"
     THEN Record(c, "budget_stopped", "done")
     ELSE IF option.live
     THEN /\ cell' = [cell EXCEPT ![c] = "executing"]
          /\ UNCHANGED <<rows, ledger, wake, struck, faults>>
     ELSE Scored(c) \/ Record(c, "failed", "done")
  /\ Step(c) /\ UNCHANGED <<budget, sent>>

(* EvaluationBudget.reserve, before each HTTP attempt of the executor and   *)
(* of the judge: what is refused ends the cell, or the judging of it.       *)
RefusedOnlyAtLimit == attempts >= MaxHttpAttempts                       \* mutant

Refused == stop # "none" \/ attempts >= MaxHttpAttempts

GivesUp(c, reason) ==
  /\ stop' = Stopped(reason)
  /\ Record(c, IF cell[c] = "judging" THEN "completed" ELSE "budget_stopped", "done")

SendUnsaved(c) ==                                                       \* mutant
  attempts' = attempts + 1 /\ sent' = sent + 1 /\ UNCHANGED <<ledger, faults>>

Send(c) ==
  attempts' = attempts + 1 /\ ledger' = attempts + 1 /\ sent' = sent + 1 /\ NoFault

Reserve(c) ==
  /\ c \in Working \ struck
  /\ \/ /\ ~Refused /\ Writable
        /\ Send(c) /\ UNCHANGED <<rows, stop, cell, struck, wake>>
     \/ /\ Refused /\ GivesUp(c, "attempts") /\ UNCHANGED <<attempts, sent>>
     \/ /\ stop = "none" /\ GivesUp(c, "elapsed") /\ UNCHANGED <<attempts, sent>>
     \/ \* the reservation is not saved: on_reserve fails, and nothing is sent
        /\ ~Refused /\ ((~Writable /\ NoFault) \/ Fault)
        /\ attempts' = attempts + 1 /\ stop' = "ledger" /\ UNCHANGED sent
        /\ IF ~Writable THEN Ends(c, "broken") /\ UNCHANGED <<rows, ledger>>
           ELSE /\ rows' = [rows EXCEPT ![c] = Append(@, IF cell[c] = "judging" THEN "completed"
                                                         ELSE "budget_stopped")]
                /\ ledger' = attempts' /\ Ends(c, "done")
  /\ Step(c)

(* The executor returns, fails or is cut off by the timeout of the case.    *)
Execute(c) ==
  /\ cell[c] = "executing" /\ c \notin struck
  /\ \/ Scored(c)
     \/ \E s \in {"failed", IF option.v2 THEN "timed_out" ELSE "failed"} : Record(c, s, "done")
  /\ Step(c) /\ UNCHANGED <<budget, sent>>

(* _judge_one: a judge that fails leaves the scores of the rules.           *)
Judge(c) ==
  /\ cell[c] = "judging" /\ c \notin struck
  /\ Record(c, "completed", "done")
  /\ Step(c) /\ UNCHANGED <<budget, sent>>

(* CancelledError: what has a place leaves a row in v2 before it goes on.   *)
Stricken(c) ==
  /\ c \in struck \cap Live
  /\ IF option.v2 /\ c \in Working THEN Record(c, "not_run", "cancelled")
     ELSE Ends(c, "cancelled") /\ UNCHANGED <<rows, ledger, faults>>
  /\ Step(c) /\ UNCHANGED <<budget, sent>>

-----------------------------------------------------------------------------
(* Cancellation and the end.                                                *)

(* Task.cancel: a gather that has not returned cancels the cells instead.   *)
CancelTask ==
  IF task \in {"running", "stopping"} /\ wake = "none" /\ Live # {}
  THEN struck' = Live /\ UNCHANGED thrown
  ELSE thrown' = (task \in {"created", "running", "stopping", "syncing"}) /\ UNCHANGED struck

(* asyncio.timeout(max_elapsed_seconds) around the first gather.            *)
Elapse ==
  /\ task = "running" /\ wake = "none" /\ ~asked /\ struck = {}
  /\ CancelTask
  /\ UNCHANGED <<option, stored, process, task, wake, asked, cell, budget, cancels, history>>

Cancel ==
  /\ up /\ ~closing /\ status \in Active /\ ~deleted /\ requested < MaxCancels
  /\ requested' = requested + 1 /\ cancels' = cancels + 1
  /\ stop' = IF task \in {"running", "stopping"} THEN Stopped("cancelled") ELSE stop
  /\ asked' = (asked \/ task \in {"created", "running", "stopping"})
  /\ CancelTask
  /\ UNCHANGED <<option, stored, process, task, wake, cell, attempts, sent, crashes, faults>>

(* The except clause of _execute: the cells are cancelled and awaited.      *)
Unwind ==
  /\ task = "running" /\ (wake = "cancelled" \/ (wake # "none" /\ thrown))
  /\ stop' = Stopped(IF asked THEN "cancelled" ELSE "elapsed")
  /\ task' = "stopping" /\ wake' = "none" /\ thrown' = FALSE /\ struck' = Live
  /\ UNCHANGED <<option, stored, process, asked, cell, attempts, cancels, history>>

(* _fill_missing: a row for each cell that has none.                        *)
Filled(s) == [c \in Cells |-> IF rows[c] = << >> THEN <<s>> ELSE rows[c]]
Missing == IF option.v2 THEN "not_run" ELSE "budget_stopped"
Has(table, s) == \E c \in Cells : \E i \in DOMAIN table[c] : table[c][i] = s

VerdictOfFailures(table) ==                                             \* mutant
  IF stop = "cancelled" THEN "cancelled"
  ELSE IF stop # "none" THEN "partial"
  ELSE IF Has(table, "failed") THEN "failed" ELSE "completed"

Verdict(table) ==
  IF stop = "cancelled" THEN "cancelled"
  ELSE IF stop # "none" \/ Has(table, "not_run") \/ Filled(Missing) # rows THEN "partial"
  ELSE IF Has(table, "failed") \/ Has(table, "timed_out") THEN "failed"
  ELSE "completed"

(* The finally clause of _execute.  A cell whose record failed brings it    *)
(* about while others are at work, which nobody waits for any more.         *)
Finish ==
  /\ \/ task = "running" /\ wake \in {"done", "broken"} /\ ~thrown
     \/ task = "stopping" /\ (Live = {} \/ wake # "none")
  /\ thrown' = FALSE
  /\ \/ /\ Writable /\ NoFault
        /\ rows' = Filled(Missing) /\ status' = Verdict(rows')
        /\ ledger' = attempts /\ task' = IF option.sync THEN "syncing" ELSE "done"
     \/ /\ Fault /\ task' = "done" /\ UNCHANGED <<rows, status, ledger>>
  /\ UNCHANGED <<option, deleted, process, wake, asked, cell, struck, budget, cancels, sent,
                 requested, crashes>>

(* The telemetry is sent, and its outcome noted; or that is cut off.        *)
Sync ==
  /\ task = "syncing" /\ task' = "done" /\ thrown' = FALSE
  /\ UNCHANGED <<option, stored, process, wake, asked, cell, struck, budget, cancels, history>>

(* cancel goes on once the task has ended: what is still active had none,   *)
(* or one that did not begin or could not save its end.                     *)
Cancelled ==
  /\ up /\ cancels > 0 /\ task \in {"none", "done"} /\ cancels' = cancels - 1
  /\ IF status \in Active
     THEN /\ status' = "cancelled"
          /\ rows' = IF option.v2 THEN Filled("not_run") ELSE rows
     ELSE UNCHANGED <<status, rows>>
  /\ UNCHANGED <<option, ledger, deleted, process, driver, cell, struck, budget, history>>

Delete ==
  /\ up /\ ~closing /\ option.v2 /\ status \in Final /\ task \in {"none", "done"} /\ ~deleted
  /\ deleted' = TRUE
  /\ UNCHANGED <<option, status, rows, ledger, process, driver, cell, struck, budget, cancels,
                 history>>

-----------------------------------------------------------------------------
(* The process.                                                             *)

Down ==
  /\ up' = FALSE /\ closing' = FALSE /\ cancels' = 0
  /\ task' = "none" /\ wake' = "none" /\ thrown' = FALSE /\ asked' = FALSE
  /\ cell' = [c \in Cells |-> "none"] /\ struck' = {}
  /\ attempts' = 0 /\ stop' = "none"

(* close: budgets are stopped, tasks cancelled and awaited.                 *)
Close ==
  /\ up /\ ~closing /\ crashes < option.crashes /\ crashes' = crashes + 1
  /\ closing' = TRUE
  /\ stop' = IF task \in {"running", "stopping"} THEN Stopped("shutdown") ELSE stop
  /\ asked' = (asked \/ task \in {"created", "running", "stopping"})
  /\ CancelTask
  /\ UNCHANGED <<option, stored, up, task, wake, cell, attempts, cancels, sent, requested, faults>>

Closed ==
  /\ closing /\ task \in {"none", "done"}
  /\ Down /\ UNCHANGED <<option, stored, history>>

Crash ==
  /\ up /\ crashes < option.crashes /\ crashes' = crashes + 1
  /\ Down /\ UNCHANGED <<option, stored, sent, requested, faults>>

(* main.py recovers the second edition only.                                *)
RecoverNothing == UNCHANGED <<status, rows>>                            \* mutant

Recover ==
  IF option.v2 /\ status \in Active
  THEN status' = "partial" /\ rows' = Filled("not_run")
  ELSE UNCHANGED <<status, rows>>

Start ==
  /\ ~up /\ up' = TRUE /\ Recover
  /\ UNCHANGED <<option, ledger, deleted, closing, driver, cell, struck, budget, cancels, history>>

Cell(c) == Enter(c) \/ Reserve(c) \/ Execute(c) \/ Judge(c) \/ Stricken(c)
Driver == Begin \/ NeverBegun \/ Unwind \/ Finish \/ Sync

Next ==
  \/ Create \/ Driver \/ (\E c \in Cells : Cell(c)) \/ Elapse
  \/ Cancel \/ Cancelled \/ Delete \/ Close \/ Closed \/ Crash \/ Start

(* Tasks go on, and every cell ends in the end: it is cut off by its        *)
(* timeout.                                                                 *)
Fairness ==
  /\ WF_vars(Driver) /\ WF_vars(Cancelled) /\ WF_vars(Closed) /\ WF_vars(Start)
  /\ \A c \in Cells : WF_vars(Enter(c) \/ Execute(c) \/ Judge(c) \/ Stricken(c))

Spec == Init /\ [][Next]_vars /\ Fairness

-----------------------------------------------------------------------------
(* Properties.                                                              *)

(* An experiment that ended accounts for each cell once, and its status     *)
(* says how they fared (common/service.py:604, :748): completed if all are, *)
(* cancelled only when somebody cancelled it.  The first edition leaves     *)
(* cells out of an experiment that was cancelled after a crash.  Store      *)
(* failures are excluded: the cells that are then left alone record their   *)
(* rows again.  What ended stays as it is, nothing is recorded, spent or    *)
(* decided later, and a deleted experiment does not come back (common/      *)
(* store.py: save).                                                         *)
EndAccounts ==
  /\ [](status \in Final /\ faults = 0 =>
          /\ \A c \in Cells : Len(rows[c]) <= 1
          /\ option.v2 \/ status # "cancelled" => \A c \in Cells : rows[c] # << >>
          /\ status = "completed" => \A c \in Cells : rows[c] = <<"completed">>
          /\ status = "failed" => Has(rows, "failed") \/ Has(rows, "timed_out")
          /\ status = "cancelled" => requested > 0)
  /\ [][(faults = 0 \/ deleted) /\ status \in Final => outcome' = outcome]_vars

(* No request is sent beyond the budget, after it was stopped, or before it *)
(* is counted in what is stored (budget.py: reserve; whatever fails).       *)
BudgetKept ==
  [][sent' # sent => stop = "none" /\ sent' <= MaxHttpAttempts /\ sent' <= ledger']_vars

(* Every experiment ends, unless the store failed, or the process died in   *)
(* the first edition.                                                       *)
ExperimentEnds ==
  [](status \in Active => <>(status \in Final \/ faults > 0 \/ (~option.v2 /\ crashes > 0)))
=============================================================================
