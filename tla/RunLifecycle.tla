----------------------------- MODULE RunLifecycle -----------------------------
(***************************************************************************)
(* The life of ONE run in RunService (service.py), from its creation to    *)
(* its deletion, across crashes and restarts.  Three stores disagree for a *)
(* while and are brought together again:                                   *)
(*   pg       PostgreSQL: control row, commands, outbox, call journal and  *)
(*            graph checkpoint;                                            *)
(*   status   SQLite: the projection the user sees, with its receipts;     *)
(*   memory   the claims map, the task of the run, the operation that      *)
(*            holds the run's lock, the delivery lock.                     *)
(* A step is what a coroutine does between two awaits of PostgreSQL; the   *)
(* SQLite store never suspends.  A transaction and the code that runs when *)
(* its result arrives are one step: the row lock orders transactions, and  *)
(* the next one needs several round trips before it can commit.            *)
(***************************************************************************)
EXTENDS Integers, Sequences, FiniteSets

(* What may happen in a run: auto, its auto_approve; revision, whether it   *)
(* revises a report that is there; and the bounds on replans (max_replans); *)
(* ops, the user commands after the creation; crashes and shutdowns;        *)
(* faults, PostgreSQL transactions reported as unavailable; storeFaults,    *)
(* SQLite errors while an outbox event is applied, or SQLite put back.      *)
CONSTANT Scenarios

ASSUME ScenarioAssumption ==
  Scenarios \subseteq [auto : BOOLEAN, revision : BOOLEAN, replans : Nat,
                       ops : Nat, crashes : Nat, faults : Nat, storeFaults : Nat]

VARIABLES pg, status, receipts, mode, pc, task, handler, claim, delivery,
          sends, refused, scenario, ops, crashes, faults, storeFaults

store   == <<status, receipts>>
memory  == <<mode, pc, task, handler, claim, delivery>>
history == <<sends, refused>>
bounds  == <<scenario, ops, crashes, faults, storeFaults>>
AutoApprove == scenario.auto
vars == <<pg, store, memory, history, bounds>>

Terminal == {"completed", "failed", "cancelled"}
RunStatus == Terminal \cup {"pending", "running", "waiting_approval", "interrupted"}
Missing == {"none", "gone"}      \* not created yet, deleted

(* _ALLOWED_TRANSITIONS; a transition to the same status always passes.     *)
Allowed(from) ==
  CASE from = "pending"          -> {"running", "failed", "cancelled", "interrupted"}
    [] from = "running"          -> RunStatus \ {"pending", "running"}
    [] from = "waiting_approval" -> {"running", "cancelled", "failed", "interrupted"}
    [] from = "interrupted"      -> {"running", "waiting_approval", "cancelled", "failed"}
    [] OTHER                     -> {}
MayMove(to) == status = to \/ to \in Allowed(status)

Procs == {"creator", "handler", "task"}
Decisions == {"none", "approve", "reject"}

(* Graph checkpoints: none yet; next is the planner; interrupted for the    *)
(* approval of the plan; next is the research, or the synthesizer of a      *)
(* revision; final.                                                         *)
Stages == {"none", "planning", "approval", "working", "final"}

Envelopes == [patch : RunStatus, state : {"pending", "delivered", "discarded"}]

TypeOK ==
  /\ pg \in [bound : BOOLEAN, owner : Nat, epoch : Nat, cancelRequested : BOOLEAN,
             deleted : BOOLEAN, initial : BOOLEAN, outbox : Seq(Envelopes),
             version : Nat, accepted : Decisions, decided : Nat,
             call : {"none", "dispatched", "answered", "unknown", "acknowledged"},
             stage : Stages, final : Terminal, acks : Nat]
  /\ status \in RunStatus \cup Missing
  /\ receipts \subseteq DOMAIN pg.outbox
  /\ mode \in {"up", "down", "starting"}
  /\ task \in [kind : {"start", "approve", "continue"}, claim : Nat, command : Decisions]
  /\ handler \in [op : {"none", "launch", "approve", "cancel", "delete", "resume", "startup",
                        "settled", "close"},
                  claim : Nat, command : Decisions]
  /\ claim \in Nat
  /\ delivery \in Procs \cup {"free"}
  /\ sends \in Nat /\ refused \in BOOLEAN

NoTask == [kind |-> "start", claim |-> 0, command |-> "none"]
NoHandler == [op |-> "none", claim |-> 0, command |-> "none"]

Init ==
  /\ pg = [bound |-> FALSE, owner |-> 0, epoch |-> 0, cancelRequested |-> FALSE,
           deleted |-> FALSE, initial |-> FALSE, outbox |-> << >>, version |-> 0,
           accepted |-> "none", decided |-> 0, call |-> "none", stage |-> "none",
           final |-> "completed", acks |-> 0]
  /\ status = "none" /\ receipts = {}
  /\ mode = "up"
  /\ pc = [p \in Procs |-> "idle"]
  /\ task = NoTask /\ handler = NoHandler
  /\ claim = 0 /\ delivery = "free"
  /\ sends = 0 /\ refused = FALSE
  /\ scenario \in Scenarios
  /\ ops = 0 /\ crashes = 0 /\ faults = 0 /\ storeFaults = 0

-----------------------------------------------------------------------------
(* What the transactions of ExecutionRuntime do to PostgreSQL.              *)

Valid(c) == ~pg.deleted /\ ~pg.cancelRequested /\ pg.owner = c /\ c # 0

Claimable == pg.bound /\ ~pg.deleted /\ ~pg.cancelRequested /\ pg.owner = 0

Claimed == [pg EXCEPT !.owner = pg.epoch + 1, !.epoch = pg.epoch + 1]

Released(c) == [pg EXCEPT !.owner = IF @ = c THEN 0 ELSE @]

Discard(e) ==
  IF e.state = "pending" /\ e.patch # "cancelled" THEN [e EXCEPT !.state = "discarded"] ELSE e

Cancelled(delete) ==
  [pg EXCEPT !.cancelRequested = TRUE, !.deleted = @ \/ delete, !.owner = 0,
             !.epoch = @ + 1,
             !.outbox = [i \in DOMAIN @ |-> Discard(@[i])]]

(* mutant: a call in flight is forgotten.                                   *)
RecoveredForgetting ==
  [pg EXCEPT !.owner = 0, !.epoch = @ + 1, !.call = IF @ = "dispatched" THEN "none" ELSE @]
(* mutant: the claim of the dead process stays.                             *)
RecoveredOwned ==
  [pg EXCEPT !.epoch = @ + 1, !.call = IF @ = "dispatched" THEN "unknown" ELSE @]
Recovered ==
  [pg EXCEPT !.owner = 0, !.epoch = @ + 1, !.call = IF @ = "dispatched" THEN "unknown" ELSE @]

(* emit with a projected status: a deleted or cancelled run takes no other. *)
Emitted(patch) ==
  IF pg.deleted \/ (pg.cancelRequested /\ patch # "cancelled") THEN pg
  ELSE [pg EXCEPT !.outbox = Append(@, [patch |-> patch, state |-> "pending"])]

(* The terminal event has one key; a second emit finds it there.            *)
EmittedFinal ==
  IF \E i \in DOMAIN pg.outbox : pg.outbox[i].patch \in Terminal THEN pg ELSE Emitted(pg.final)

(* mutant: the decision is looked up by the run, not by its checkpoint.     *)
PendingOfRun == IF pg.stage = "approval" THEN pg.accepted ELSE "none"
(* accepted, the decision stored last, was given for the checkpoint of plan *)
(* number decided.                                                          *)
PendingApproval ==
  IF pg.stage = "approval" /\ pg.decided = pg.version THEN pg.accepted ELSE "none"

(* inspect_recovery: "available".                                           *)
Resumable ==
  /\ pg.bound /\ ~pg.deleted /\ ~pg.cancelRequested /\ pg.owner = 0
  /\ pg.stage \notin {"none", "final"}
  /\ pg.stage = "approval" => PendingApproval # "none"

-----------------------------------------------------------------------------
(* Steps of a coroutine: it moves on, or it sees PersistenceUnavailable and *)
(* does not know whether its transaction was committed.                     *)

At(p, label) == mode # "down" /\ pc[p] = label
Go(p, label) == pc' = [pc EXCEPT ![p] = label]

Lost(new) ==
  /\ faults < scenario.faults /\ faults' = faults + 1
  /\ pg' \in {pg, new}
  /\ UNCHANGED <<scenario, ops, crashes, storeFaults>>

(* A control error interrupts a task or a launch, aborts a startup, and is  *)
(* the answer of any other operation.                                       *)
Interrupts(p) == p = "task" \/ (p = "handler" /\ handler.op = "launch")

Keep(p) == UNCHANGED delivery   \* mutant: a lock that is not released on every path
Unlock(p) == delivery' = IF delivery = p THEN "free" ELSE delivery

Answer == Go("handler", "idle") /\ handler' = NoHandler

GiveUp(p) ==
  /\ Go(p, IF Interrupts(p) THEN "interrupt" ELSE "idle")
  /\ Unlock(p)
  /\ handler' = IF p = "handler" /\ ~Interrupts(p) THEN NoHandler ELSE handler
  /\ mode' = IF p = "handler" /\ mode = "starting" THEN "down" ELSE mode
  /\ UNCHANGED <<store, task, claim, history>>

(* The finally clause of the task: it releases the claim it was given, or   *)
(* the one found in the claims map; with none there it is over.             *)
(* mutant: the task ends without it.                                        *)
FinallySkipped(map, others) == pc' = [others EXCEPT !["task"] = "idle"] /\ UNCHANGED task
Finally(map, others) ==
  LET c == IF task.kind = "continue" THEN task.claim ELSE map IN
  /\ pc' = [others EXCEPT !["task"] = IF c = 0 THEN "idle" ELSE "release"]
  /\ task' = [task EXCEPT !.claim = c]

(* _fail: a generic exception of the task.                                  *)
Fail ==
  /\ status' = IF status \in Terminal \cup Missing THEN status ELSE "failed"
  /\ Finally(claim, pc)
  /\ Unlock("task")
  /\ UNCHANGED <<pg, receipts, mode, handler, claim, history>>

Still == UNCHANGED bounds

-----------------------------------------------------------------------------
(* Creation, and the launch of a run that a conversation turn reserved.     *)

Create(reserved) ==
  /\ mode = "up" /\ status = "none" /\ pc["creator"] = "idle"
  /\ status' = "pending"
  /\ Go("creator", IF reserved THEN "reserved" ELSE "bind")
  /\ UNCHANGED <<pg, receipts, mode, task, handler, claim, delivery, history>> /\ Still

Launch ==
  /\ At("creator", "reserved") /\ pc["handler"] = "idle"
  /\ IF status = "pending" /\ pc["task"] = "idle"
     THEN /\ handler' = [NoHandler EXCEPT !.op = "launch"]
          /\ pc' = [pc EXCEPT !["creator"] = "idle", !["handler"] = "bind"]
     ELSE Go("creator", "idle") /\ UNCHANGED handler
  /\ UNCHANGED <<pg, store, mode, task, claim, delivery, history>> /\ Still

(* Another error than a control error, as of the knowledge snapshot, fails  *)
(* a launched run.                                                          *)
Bind(p) ==
  LET new == [pg EXCEPT !.bound = TRUE] IN
  /\ At(p, "bind")
  /\ \/ /\ pg' = new /\ Go(p, "initial")
        /\ UNCHANGED <<store, mode, task, handler, claim, delivery, history>> /\ Still
     \/ /\ p = "handler" /\ Lost(pg) /\ pg' = pg
        /\ status' = (IF status \in Terminal THEN status ELSE "failed") /\ Answer
        /\ UNCHANGED <<receipts, mode, task, claim, delivery, history>>
     \/ Lost(new) /\ GiveUp(p)

(* The claim of the initial command; a repeated request gets no new claim.  *)
ClaimInitial(p) ==
  LET new == [Claimed EXCEPT !.initial = TRUE] IN
  /\ At(p, "initial")
  /\ \/ /\ IF pg.initial THEN UNCHANGED <<pg, claim>>
                         ELSE Claimable /\ pg' = new /\ claim' = new.epoch
        /\ pc' = [pc EXCEPT ![p] = "idle", !["task"] = "begin"]
        /\ task' = NoTask
        /\ handler' = IF p = "handler" THEN NoHandler ELSE handler
        /\ UNCHANGED <<store, mode, delivery, history>> /\ Still
     \/ ~pg.initial /\ ~Claimable /\ UNCHANGED pg /\ GiveUp(p) /\ Still
     \/ Lost(IF Claimable THEN new ELSE pg) /\ GiveUp(p)

-----------------------------------------------------------------------------
(* The task: _execute_start, _execute_resume, _execute_continue.            *)

(* The transition to running stands before the try block.                   *)
Begin ==
  /\ At("task", "begin")
  /\ IF status \in RunStatus /\ MayMove("running")
     THEN status' = "running" /\ Go("task", "run")
     ELSE UNCHANGED status /\ Go("task", "idle")
  /\ UNCHANGED <<pg, receipts, mode, task, handler, claim, delivery, history>> /\ Still

(* A journalled step of the graph: it is written under the current claim,   *)
(* then checkpointed; a crash in between replays it from the journal.       *)
Graph(label, new, next) ==
  /\ At("task", label)
  /\ \/ /\ Valid(claim) /\ pg' = new /\ Go("task", next)
        /\ UNCHANGED <<store, mode, handler, claim, delivery>> /\ Still
     \/ /\ ~Valid(claim) /\ UNCHANGED pg /\ GiveUp("task") /\ Still
     \/ Lost(IF Valid(claim) THEN new ELSE pg) /\ GiveUp("task")

(* The supervisor; a revision goes on to the synthesizer.                   *)
StartGraph ==
  /\ pg.stage = "none"
  /\ Graph("run", [pg EXCEPT !.stage = IF scenario.revision THEN "working" ELSE "planning"], "run")
  /\ UNCHANGED <<task, history>>

Plan ==
  /\ pg.stage = "planning"
  /\ Graph("run", [pg EXCEPT !.version = @ + 1,
                             !.stage = IF AutoApprove THEN "working" ELSE "approval"], "run")
  /\ UNCHANGED <<task, history>>

(* A planner that fails makes no plan, and there is nothing to approve: the *)
(* finalizer ends the run, with the fallback report or as failed.           *)
PlanFails(outcome) ==
  /\ pg.stage = "planning"
  /\ Graph("run", [pg EXCEPT !.stage = "final", !.final = outcome], "apply")
  /\ UNCHANGED <<task, history>>

(* A gate of the research, the critic or the quality gate wants another plan. *)
Replan ==
  /\ pg.stage = "working" /\ ~scenario.revision /\ pg.call \in {"none", "answered"}
  /\ pg.version <= scenario.replans
  /\ Graph("run", [pg EXCEPT !.stage = "planning"], "run")
  /\ UNCHANGED <<task, history>>

(* The approval node interrupts the graph unless it is given a decision,    *)
(* which it takes: the next plan is put to the user again.                  *)
Pause ==
  /\ At("task", "run") /\ pg.stage = "approval" /\ task.command = "none"
  /\ Go("task", "apply")
  /\ UNCHANGED <<pg, store, mode, task, handler, claim, delivery, history>> /\ Still

Decide ==
  /\ pg.stage = "approval" /\ task.command # "none"
  /\ Graph("run", IF task.command = "approve"
                  THEN [pg EXCEPT !.stage = "working"]
                  ELSE [pg EXCEPT !.stage = "final", !.final = "cancelled"],
           IF task.command = "approve" THEN "run" ELSE "apply")
  /\ task' = [task EXCEPT !.command = IF pc'["task"] = "interrupt" THEN @ ELSE "none"]
  /\ UNCHANGED history

(* One external request of the research; the journal refuses to repeat one  *)
(* that is in flight or unknown.                                            *)
Send ==
  /\ pg.stage = "working" /\ pg.call \in {"none", "acknowledged"}
  /\ Graph("run", [pg EXCEPT !.call = "dispatched"], "call")
  /\ sends' = IF pc'["task"] = "call" THEN sends + 1 ELSE sends
  /\ UNCHANGED <<task, refused>>

Blocked ==
  /\ At("task", "run") /\ pg.stage = "working" /\ pg.call \in {"dispatched", "unknown"}
  /\ UNCHANGED pg /\ GiveUp("task") /\ Still

Answered ==
  /\ Graph("call", [pg EXCEPT !.call = "answered"], "run")
  /\ UNCHANGED <<task, history>>

Unanswered ==
  /\ Graph("call", [pg EXCEPT !.call = "unknown"], "interrupt")
  /\ UNCHANGED <<task, history>>

Finish(outcome) ==
  /\ pg.stage = "working" /\ pg.call = "answered"
  /\ Graph("run", [pg EXCEPT !.stage = "final", !.final = outcome], "apply")
  /\ UNCHANGED <<task, history>>

(* A node raises something that is not a control error.                     *)
Raise == (At("task", "run") \/ At("task", "call")) /\ Fail /\ Still

(* _apply_execution: reads the usage from PostgreSQL, then projects.        *)
Apply ==
  /\ At("task", "apply")
  /\ \/ /\ pg.stage = "approval" /\ MayMove("waiting_approval")
        /\ status' = "waiting_approval" /\ Go("task", "complete")
        /\ UNCHANGED <<pg, receipts, mode, task, handler, claim, delivery, history>> /\ Still
     \/ pg.stage = "approval" /\ ~MayMove("waiting_approval") /\ Fail /\ Still
     \/ /\ pg.stage = "final" /\ Go("task", "emit")
        /\ UNCHANGED <<pg, store, mode, task, handler, claim, delivery, history>> /\ Still
     \/ Lost(pg) /\ GiveUp("task")

-----------------------------------------------------------------------------
(* The outbox: an event is committed in PostgreSQL, applied to SQLite under *)
(* the delivery lock, then marked.                                          *)

Emit(p) ==
  LET new == IF p = "handler" /\ handler.op = "resume" THEN Emitted("running") ELSE EmittedFinal IN
  /\ At(p, "emit")
  /\ \/ /\ pg' = new /\ Go(p, "flush")
        /\ UNCHANGED <<store, mode, task, handler, claim, delivery, history>> /\ Still
     \/ Lost(new) /\ GiveUp(p)

Undelivered ==
  {i \in DOMAIN pg.outbox :
     pg.outbox[i].state = "pending" /\ (pg.cancelRequested => pg.outbox[i].patch = "cancelled")}
First == CHOOSE i \in Undelivered : \A j \in Undelivered : i <= j

(* What comes after the flush.                                              *)
Flushed(p) ==
  \/ /\ p = "task" /\ Go("task", "complete")
     /\ UNCHANGED <<mode, task, handler, refused>>
  \/ /\ p = "handler" /\ handler.op = "startup" /\ Go("handler", "settle")
     /\ UNCHANGED <<mode, task, handler, refused>>
  \/ /\ p = "handler" /\ handler.op = "settled" /\ Answer
     /\ mode' = "up" /\ UNCHANGED <<task, refused>>
  \/ /\ p = "handler" /\ handler.op = "resume" /\ handler' = NoHandler /\ UNCHANGED mode
     /\ IF pc["task"] = "idle"
        THEN /\ task' = [kind |-> "continue", claim |-> handler.claim, command |-> handler.command]
             /\ pc' = [pc EXCEPT !["handler"] = "idle", !["task"] = "run"]
             /\ UNCHANGED refused
        ELSE Go("handler", "idle") /\ refused' = TRUE /\ UNCHANGED task

(* apply_outbox: the receipt and the patch commit together, once.           *)
Deliver(i) ==
  /\ status' = IF i \in receipts THEN status ELSE pg.outbox[i].patch
  /\ receipts' = receipts \cup {i}

Flush(p) ==
  /\ At(p, "flush") /\ delivery \in {"free", p}
  /\ \/ /\ Undelivered = {} \/ pg.deleted
        /\ Flushed(p) /\ Unlock(p)
        /\ UNCHANGED <<pg, store, claim, sends>> /\ Still
     \/ /\ Undelivered # {} /\ ~pg.deleted /\ status \notin Missing
        /\ Deliver(First)
        /\ delivery' = p /\ Go(p, "mark")
        /\ UNCHANGED <<pg, mode, task, handler, claim, history>> /\ Still
     \/ /\ Undelivered # {} /\ ~pg.deleted
        /\ \/ status \in Missing /\ Still
           \/ /\ storeFaults < scenario.storeFaults /\ storeFaults' = storeFaults + 1
              /\ UNCHANGED <<scenario, ops, crashes, faults>>
        /\ IF p = "task" THEN Fail ELSE UNCHANGED pg /\ GiveUp(p)
     \/ /\ delivery = "free" /\ Lost(pg) /\ GiveUp(p)

Mark(p) ==
  LET new == [pg EXCEPT !.outbox[First].state = "delivered"] IN
  /\ At(p, "mark")
  /\ \/ /\ pg' = new /\ Go(p, "flush")
        /\ UNCHANGED <<store, mode, task, handler, claim, delivery, history>> /\ Still
     \/ Lost(new) /\ GiveUp(p)

Held == IF task.kind = "continue" THEN task.claim ELSE claim

Complete ==
  /\ At("task", "complete")
  /\ \/ /\ Valid(Held) /\ Finally(claim, pc)
        /\ UNCHANGED <<pg, store, mode, handler, claim, delivery, history>> /\ Still
     \/ ~Valid(Held) /\ UNCHANGED pg /\ GiveUp("task") /\ Still
     \/ Lost(pg) /\ GiveUp("task")

(* _interrupt_execution, of a task, a launch or a shutdown.                 *)
OverIfGone == status \in Missing   \* mutant: the terminal status is not looked at
Over == status \in Terminal \cup Missing

Interrupt(p) ==
  /\ At(p, "interrupt")
  /\ \/ (Over \/ ~pg.bound) /\ UNCHANGED <<pg, status, claim>> /\ Still
     \/ ~Over /\ pg.bound /\ pg' = Recovered /\ claim' = 0 /\ status' = "interrupted" /\ Still
     \/ /\ ~Over
        /\ Lost(IF pg.bound THEN Recovered ELSE pg)
        /\ status' = "interrupted" /\ UNCHANGED claim
  /\ IF p = "task"
     THEN Finally(claim', pc) /\ UNCHANGED <<mode, handler>>
     ELSE /\ Answer /\ UNCHANGED task
          /\ mode' = IF handler.op = "close" THEN "down" ELSE mode
  /\ UNCHANGED <<receipts, delivery, history>>

(* release: it clears the owner only if the claim is the current one.       *)
Release ==
  /\ At("task", "release") /\ Go("task", "idle")
  /\ \/ /\ pg' = Released(task.claim)
        /\ claim' = (IF claim = task.claim THEN 0 ELSE claim) /\ Still
     \/ Lost(Released(task.claim)) /\ UNCHANGED claim
  /\ UNCHANGED <<store, mode, task, handler, delivery, history>>

-----------------------------------------------------------------------------
(* User commands; each holds the run's lock until its answer.               *)

Command(op, decision, label) ==
  /\ mode = "up" /\ pc["handler"] = "idle" /\ ops < scenario.ops
  /\ ops' = ops + 1
  /\ handler' = [op |-> op, claim |-> 0, command |-> decision]
  /\ Go("handler", label)
  /\ UNCHANGED <<pg, store, mode, task, claim, delivery, history, scenario, crashes, faults, storeFaults>>

Approve(decision) == status = "waiting_approval" /\ Command("approve", decision, "claim")
Resume == status = "interrupted" /\ Command("resume", "none", "claim")
Cancel == status \in RunStatus \ Terminal /\ Command("cancel", "none", "lock")
Delete == status \in Terminal /\ Command("delete", "none", "lock")

(* The claim and the command are one transaction; the decision is looked up *)
(* later by the checkpoint it was given for.                                *)
Accepted(decision) ==
  IF pg.stage = "approval"
  THEN [Claimed EXCEPT !.accepted = decision, !.decided = pg.version]
  ELSE Claimed

ClaimApproval ==
  LET new == Accepted(handler.command)
      granted == Claimable /\ pg.call # "unknown" IN
  /\ At("handler", "claim") /\ handler.op = "approve"
  /\ \/ /\ granted
        /\ pg' = new /\ claim' = new.epoch
        /\ status' = IF MayMove("running") THEN "running" ELSE status
        /\ handler' = NoHandler
        /\ IF MayMove("running") /\ pc["task"] = "idle"
           THEN /\ task' = [kind |-> "approve", claim |-> new.epoch, command |-> handler.command]
                /\ pc' = [pc EXCEPT !["handler"] = "idle", !["task"] = "run"]
                /\ UNCHANGED refused
           ELSE /\ Go("handler", "idle") /\ UNCHANGED task
                /\ refused' = (refused \/ MayMove("running"))
        /\ UNCHANGED <<receipts, mode, delivery, sends>> /\ Still
     \/ ~granted /\ UNCHANGED pg /\ GiveUp("handler") /\ Still
     \/ Lost(IF granted THEN new ELSE pg) /\ GiveUp("handler")

(* resume, up to its claim.  The user confirms the unknown call, or not.    *)
ClaimResume(confirm) ==
  LET new == [Claimed EXCEPT !.call = IF @ = "unknown" THEN "acknowledged" ELSE @,
                             !.acks = IF pg.call = "unknown" THEN @ + 1 ELSE @]
      granted == Resumable /\ (pg.call = "unknown" => confirm) IN
  /\ At("handler", "claim") /\ handler.op = "resume"
  /\ \/ /\ granted
        /\ pg' = new /\ claim' = new.epoch
        /\ handler' = [handler EXCEPT !.claim = new.epoch, !.command = PendingApproval]
        /\ Go("handler", "emit")
        /\ UNCHANGED <<store, mode, task, delivery, history>> /\ Still
     \/ ~granted /\ UNCHANGED pg /\ GiveUp("handler") /\ Still
     \/ Lost(IF granted THEN new ELSE pg) /\ GiveUp("handler")

(* cancel takes the delivery lock and looks again; delete just takes it.    *)
Lock ==
  /\ At("handler", "lock") /\ delivery = "free"
  /\ IF handler.op = "cancel" /\ status \in Terminal
     THEN Answer /\ UNCHANGED delivery
     ELSE Go("handler", "commit") /\ delivery' = "handler" /\ UNCHANGED handler
  /\ UNCHANGED <<pg, store, mode, task, claim, history>> /\ Still

(* task.cancel(): the finally clause still runs, unless it is what is cut.  *)
Kill(map, others) ==
  IF pc["task"] \in {"idle", "begin", "release"}
  THEN pc' = [others EXCEPT !["task"] = "idle"] /\ UNCHANGED task
  ELSE Finally(map, others)

EndedByUser == IF status \in Terminal \cup Missing THEN status ELSE "cancelled"

(* With no task to wait for, cancel projects in the same step.              *)
Commit ==
  /\ At("handler", "commit")
  /\ \/ /\ handler.op = "cancel"
        /\ pg.bound \/ status \in {"pending", "interrupted"}
        /\ pg' = IF pg.bound THEN Cancelled(FALSE) ELSE pg
        /\ claim' = IF pg.bound THEN 0 ELSE claim
        /\ IF pc["task"] = "idle"
           THEN Answer /\ status' = EndedByUser /\ UNCHANGED task
           ELSE /\ Kill(claim', [pc EXCEPT !["handler"] = "await"])
                /\ UNCHANGED <<status, handler>>
        /\ delivery' = "free"
        /\ UNCHANGED <<receipts, mode, history>> /\ Still
     \/ /\ handler.op = "cancel" /\ ~pg.bound /\ status \notin {"pending", "interrupted"}
        /\ UNCHANGED pg /\ GiveUp("handler") /\ Still
     \/ /\ handler.op = "delete"
        /\ pg' = IF pg.bound THEN Cancelled(TRUE) ELSE pg
        /\ claim' = IF pg.bound THEN 0 ELSE claim
        /\ status' = "gone" /\ receipts' = {}
        /\ Answer /\ delivery' = "free"
        /\ UNCHANGED <<mode, task, history>> /\ Still
     \/ /\ Lost(IF pg.bound THEN Cancelled(handler.op = "delete") ELSE pg) /\ GiveUp("handler")

(* cancel waits for the task to end and projects.                           *)
Await ==
  /\ At("handler", "await") /\ pc["task"] = "idle"
  /\ IF handler.op = "cancel"
     THEN /\ Answer
          /\ status' = EndedByUser
     ELSE Go("handler", "interrupt") /\ UNCHANGED <<status, handler>>
  /\ UNCHANGED <<pg, receipts, mode, task, claim, delivery, history>> /\ Still

-----------------------------------------------------------------------------
(* Shutdown, crash and startup.                                             *)

(* close: tasks are cancelled, and their runs are marked interrupted.       *)
Close ==
  /\ mode = "up" /\ pc["handler"] = "idle" /\ pc["creator"] = "idle" /\ pc["task"] # "idle"
  /\ crashes < scenario.crashes /\ crashes' = crashes + 1
  /\ handler' = [NoHandler EXCEPT !.op = "close"]
  /\ Kill(claim, [pc EXCEPT !["handler"] = "await"])
  /\ Unlock("task")
  /\ UNCHANGED <<pg, store, mode, claim, history, scenario, ops, faults, storeFaults>>

Crash ==
  /\ mode # "down"
  /\ crashes < scenario.crashes /\ crashes' = crashes + 1
  /\ mode' = "down"
  /\ pc' = [p \in Procs |-> "idle"] /\ handler' = NoHandler
  /\ claim' = 0 /\ delivery' = "free"
  /\ UNCHANGED <<pg, store, task, history, scenario, ops, faults, storeFaults>>

Restart ==
  /\ mode = "down"
  /\ mode' = "starting"
  /\ pc' = [p \in Procs |-> IF p = "handler" THEN "recover" ELSE "idle"]
  /\ handler' = [NoHandler EXCEPT !.op = "startup"]
  /\ claim' = 0 /\ delivery' = "free"
  /\ UNCHANGED <<pg, store, task, history>> /\ Still

(* While the process is down SQLite may be put back as it was before the run. *)
Restore ==
  /\ mode = "down" /\ status # "none"
  /\ storeFaults < scenario.storeFaults /\ storeFaults' = storeFaults + 1
  /\ status' = "gone" /\ receipts' = {}
  /\ UNCHANGED <<pg, memory, history, scenario, ops, crashes, faults>>

Started == mode' = "up" /\ Answer

(* reconcile_startup: fence the run, then deal with deleted and unbound ones. *)
Orphaned == ~pg.deleted /\ status \in Missing

Recover ==
  /\ At("handler", "recover")
  /\ \/ /\ ~pg.bound
        /\ status' = IF status \in RunStatus \ Terminal THEN "failed" ELSE status
        /\ Started /\ UNCHANGED <<pg, receipts>> /\ Still
     \/ /\ pg.bound /\ pg' = Recovered /\ Still
        /\ \/ /\ pg.deleted /\ status \in Terminal \cup Missing
              /\ status' = "gone" /\ receipts' = {} /\ Started
           \/ /\ Orphaned
              /\ Go("handler", "tombstone") /\ UNCHANGED <<store, mode, handler>>
           \/ /\ ~pg.deleted /\ ~Orphaned
              /\ Go("handler", "flush") /\ UNCHANGED <<store, mode, handler>>
     \/ /\ Lost(IF pg.bound THEN Recovered ELSE pg)
        /\ mode' = "down" /\ Answer /\ UNCHANGED store
  /\ UNCHANGED <<task, claim, delivery, history>>

Tombstone ==
  /\ At("handler", "tombstone")
  /\ \/ /\ pg' = Cancelled(TRUE) /\ Started /\ Still
        /\ UNCHANGED <<store, task, claim, delivery, history>>
     \/ Lost(Cancelled(TRUE)) /\ GiveUp("handler")

(* The projection is derived from the checkpoint.                           *)
Projected ==
  IF status \in Terminal THEN status
  ELSE IF pg.cancelRequested THEN "cancelled"
  ELSE IF pg.stage = "none" THEN "failed"
  ELSE IF pg.stage = "approval" /\ PendingApproval = "none" THEN "waiting_approval"
  ELSE "interrupted"

Settle ==
  /\ At("handler", "settle")
  /\ \/ /\ pg.stage = "final" /\ status \notin Terminal /\ ~pg.cancelRequested
        /\ handler' = [NoHandler EXCEPT !.op = "settled"] /\ Go("handler", "emit")
        /\ UNCHANGED <<pg, store, mode, task, claim, delivery, history>> /\ Still
     \/ /\ pg.stage # "final" \/ status \in Terminal \/ pg.cancelRequested
        /\ status' = Projected /\ Started
        /\ UNCHANGED <<pg, receipts, task, claim, delivery, history>> /\ Still
     \/ Lost(pg) /\ GiveUp("handler")

-----------------------------------------------------------------------------
TaskStep ==
  \/ Begin \/ StartGraph \/ Plan \/ Pause \/ Decide \/ Replan
  \/ Send \/ Blocked \/ Answered \/ Unanswered
  \/ \E outcome \in {"completed", "failed"} : PlanFails(outcome) \/ Finish(outcome)
  \/ Raise \/ Apply \/ Emit("task") \/ Flush("task") \/ Mark("task")
  \/ Complete \/ Interrupt("task") \/ Release

HandlerStep ==
  \/ Bind("handler") \/ ClaimInitial("handler")
  \/ ClaimApproval \/ \E confirm \in BOOLEAN : ClaimResume(confirm)
  \/ Lock \/ Commit \/ Await
  \/ Emit("handler") \/ Flush("handler") \/ Mark("handler") \/ Interrupt("handler")
  \/ Recover \/ Tombstone \/ Settle

CreatorStep == Launch \/ Bind("creator") \/ ClaimInitial("creator")

UserStep ==
  \/ \E reserved \in BOOLEAN : Create(reserved)
  \/ \E decision \in {"approve", "reject"} : Approve(decision)
  \/ Resume \/ Cancel \/ Delete

Next ==
  TaskStep \/ HandlerStep \/ CreatorStep \/ UserStep \/ Close \/ Crash \/ Restart \/ Restore

(* Coroutines that can go on do (requests have timeouts, locks are fair),   *)
(* and the supervisor restarts a dead process.                              *)
Fairness ==
  /\ WF_vars(TaskStep) /\ WF_vars(HandlerStep) /\ WF_vars(CreatorStep) /\ WF_vars(Restart)

Spec == Init /\ [][Next]_vars /\ Fairness

-----------------------------------------------------------------------------
(* Properties.                                                              *)

(* The stores answer: then the run is where the user and startup expect it. *)
StoresWork == faults = 0 /\ storeFaults = 0

Quiet == mode = "up" /\ \A p \in Procs : pc[p] = "idle"

(* Only the outcomes of the finished graph and the user end a run for good: *)
(* a terminal status stays until the run is deleted.                        *)
TerminalStable ==
  [][(status \in Terminal) => status' \in {status, "gone"}]_vars

(* Off the table there is one move only: an event that was committed before *)
(* the interruption, or the failure of SQLite, brings the outcome of the    *)
(* finished graph to SQLite.                                                *)
StatusFollowsTable ==
  [][(status \in RunStatus /\ status' \in RunStatus) =>
       \/ status' = status \/ status' \in Allowed(status)
       \/ /\ status = "interrupted" \/ (status = "failed" /\ storeFaults > 0)
          /\ pg.stage = "final" /\ status' = pg.final]_vars

(* A request is sent again only after the user confirmed the unknown one.   *)
NoSilentResend == sends <= 1 + pg.acks

(* A run that wants approval is at work on a plan, or over with one, only   *)
(* after a decision on that very plan was committed, and at work only if    *)
(* it was approved: a crash or a replan lets no older decision count for a  *)
(* newer plan.  A planner that fails makes none, a revision starts with     *)
(* none.                                                                    *)
ApprovalFirst ==
  ~AutoApprove =>
    /\ pg.stage \in {"working", "final"} => pg.decided = pg.version
    /\ pg.stage = "working" =>
         IF scenario.revision THEN pg.version = 0 ELSE pg.accepted = "approve"

(* A run that is shown as running has somebody working on it, one that      *)
(* waits can be answered and an interrupted one can be resumed: no crash    *)
(* leaves it without an owner to come.                                      *)
NoDeadEnd ==
  StoresWork /\ Quiet /\ ~refused =>
           /\ status # "running"
           /\ status = "waiting_approval" => Claimable /\ pg.stage = "approval"
           /\ status = "interrupted" => Resumable

(* A startup leaves no run in flight and no claim of the dead process, and  *)
(* only a store that fails again stops it, never the run it finds, be it    *)
(* deleted, cancelled, half created or not in SQLite.                       *)
StartupReconciles ==
  [][/\ mode = "starting" /\ mode' = "up" =>
          /\ status' \in Terminal \cup Missing \cup {"waiting_approval", "interrupted"}
          /\ pg'.owner = 0 /\ pg'.call # "dispatched"
     /\ mode = "starting" /\ mode' = "down" =>
          <<crashes, faults, storeFaults>>' # <<crashes, faults, storeFaults>>]_vars

(* A run does not stay pending or running for ever, and a cancellation that *)
(* was committed is seen by the user in the end.                            *)
RunComesToRest ==
  /\ status \in {"pending", "running"} ~> status \notin {"pending", "running"} \/ refused \/ ~StoresWork
  /\ pg.cancelRequested ~> status \in Terminal \cup Missing \/ ~StoresWork

(* The call of the run as one of ExternalCall.                              *)
Call == INSTANCE ExternalCall WITH
  state   <- CASE pg.call \in {"none", "acknowledged"} -> "free"
               [] pg.call = "answered" -> "settled"
               [] OTHER -> pg.call,
  answers <- IF pg.call = "answered" THEN 1 ELSE 0,
  acks    <- pg.acks

(* Through any commands, crashes and transactions reported as unavailable   *)
(* the call is sent, answered, lost and confirmed in the order ExternalCall *)
(* allows: no recovery frees it again and no answer is taken twice.         *)
CallPromised == Call!Spec
=============================================================================
