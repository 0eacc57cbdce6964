---------------------------- MODULE Conversations ----------------------------
(***************************************************************************)
(* One conversation (conversations/service.py, conversations/storage.py)   *)
(* and the runs its turns start: messages are routed by the model, reports *)
(* are explained, research is proposed, confirmed and launched, turns are  *)
(* stopped and the conversation is deleted, while its runs go their own    *)
(* way, are commanded directly and the process dies.                       *)
(*                                                                         *)
(* The lock of the conversation orders its operations; the stores of       *)
(* SQLite never suspend.  What waits is the model, PostgreSQL (to launch   *)
(* or to cancel a run) and a task that is cancelled.  The life of a run is *)
(* RunLifecycle's; what matters here is the status it shows.               *)
(***************************************************************************)
EXTENDS Naturals, FiniteSets

CONSTANTS
  Turns,        \* the request ids of the messages, and the turns and runs they make
  NoTurn,
  MaxCrashes,   \* bound: deaths of the process
  MaxFaults     \* bound: transactions of PostgreSQL that are reported as unavailable

ASSUME ConversationsAssumption ==
  /\ IsFiniteSet(Turns) /\ NoTurn \notin Turns
  /\ {MaxCrashes, MaxFaults} \subseteq Nat

(* completed stands for completed_with_warnings, too.                       *)
Final == {"completed", "failed", "cancelled"}
Unfinished == {"routing", "awaiting_confirmation", "running", "waiting_approval", "interrupted"}
TurnStatus == Final \cup Unfinished \cup {"awaiting_clarification"}
RunStatus == Final \cup {"pending", "running", "waiting_approval", "interrupted"}
Actions == {"clarify", "answer", "research", "revise"}

VARIABLES
  data,      \* the tables: state and active turn of the conversation, its current report; status,
             \* action, base and requested base of each turn, whether a run is linked, and the
             \* number of messages that end it
  run,       \* the status of the run of each turn
  bound, recorded, \* runs bound in PostgreSQL; with the command that the stop of the turn writes
  live,      \* runs with a task
  lock,      \* runs whose lock a direct command holds
  up, route, eligible, \* the process, the routing task of each turn and the reports it read
  holder,    \* the operation that holds the lock of the conversation while it waits
  seen,      \* what a client was shown last: the runs, and whether its version still passes
  crashes, faults

tables  == <<data, run>>
postgres == <<bound, recorded>>
memory  == <<live, lock, up, route, eligible, holder>>
bounds  == <<crashes, faults>>
vars == <<tables, postgres, memory, seen, bounds>>

Turn == [status : TurnStatus \cup {"none"}, action : Actions \cup {"none"},
         base : Turns \cup {NoTurn}, asked : Turns \cup {NoTurn}, linked : BOOLEAN, ends : Nat]
NewTurn == [status |-> "none", action |-> "none", base |-> NoTurn, asked |-> NoTurn,
            linked |-> FALSE, ends |-> 0]
Free == [op |-> "free", turn |-> NoTurn]

TypeOK ==
  /\ data \in [state : {"open", "deleting", "gone"}, active : Turns \cup {NoTurn},
               report : Turns \cup {NoTurn}, turn : [Turns -> Turn]]
  /\ run \in [Turns -> RunStatus \cup {"none", "gone"}]
  /\ {bound, recorded, live, lock} \subseteq SUBSET Turns
  /\ up \in BOOLEAN /\ eligible \in [Turns -> SUBSET Turns]
  /\ route \in [Turns -> {"none", "created", "asking", "answering", "stopped"}]
  /\ holder \in [op : {"free", "launch", "cancel", "halt", "delete"}, turn : Turns \cup {NoTurn}]
  /\ seen \in [fresh : BOOLEAN, runs : SUBSET Turns]
  /\ crashes \in 0..MaxCrashes /\ faults \in 0..MaxFaults

Init ==
  /\ data = [state |-> "open", active |-> NoTurn, report |-> NoTurn,
             turn |-> [t \in Turns |-> NewTurn]]
  /\ run = [t \in Turns |-> "none"]
  /\ bound = {} /\ recorded = {} /\ live = {} /\ lock = {}
  /\ up = TRUE /\ route = [t \in Turns |-> "none"] /\ eligible = [t \in Turns |-> {}]
  /\ holder = Free /\ seen = [fresh |-> FALSE, runs |-> {}]
  /\ crashes = 0 /\ faults = 0

-----------------------------------------------------------------------------
(* The tables.                                                              *)

Linked(d) == {t \in Turns : d.turn[t].linked}

(* finish: a turn ends once, with one message; not in a deletion.           *)
Finished(d, t, s) ==
  IF d.state # "open" \/ d.turn[t].status \in Final THEN d
  ELSE [d EXCEPT !.turn[t].status = s, !.turn[t].ends = @ + 1,
                 !.active = IF @ = t THEN NoTurn ELSE @,
                 !.report = IF s = "completed" /\ d.turn[t].linked THEN t ELSE @]

(* _sync: the active turn follows its run.                                  *)
Synced(d, runs) ==
  LET t == d.active IN
  IF d.state # "open" \/ t = NoTurn \/ t \notin Linked(d) THEN d
  ELSE IF runs[t] \in Final THEN Finished(d, t, runs[t])
  ELSE IF runs[t] = "gone" THEN Finished(d, t, "failed")
  ELSE [d EXCEPT !.turn[t].status = IF runs[t] = "pending" THEN "running" ELSE runs[t]]

(* mutant: a link is saved as a trace is, without a new content_version.    *)
SavedAsTrace(d) ==
  /\ data' = d
  /\ seen' = [seen EXCEPT !.fresh = @ /\ (d = data \/ Linked(d) # Linked(data))]

(* _save_conversation: content_version passes what the client has seen.     *)
Saved(d) == data' = d /\ seen' = [seen EXCEPT !.fresh = @ /\ d = data]

Reports == {t \in Linked(data) : run[t] = "completed"}

-----------------------------------------------------------------------------
(* Messages and their routing.                                              *)

Serving == up /\ holder = Free /\ data.state # "gone"

(* GET and the event stream.                                                *)
Poll ==
  /\ up /\ data.state # "gone"
  /\ data' = Synced(data, run)
  /\ seen' = [fresh |-> TRUE, runs |-> Linked(data')]
  /\ UNCHANGED <<run, postgres, memory, bounds>>

(* reserve_message: a message replaces a proposal, nothing else.            *)
Send(t, base) ==
  /\ Serving /\ data.state = "open" /\ data.turn[t].status = "none"
  /\ seen.fresh /\ Synced(data, run) = data
  /\ data.active # NoTurn => data.turn[data.active].status = "awaiting_confirmation"
  /\ base \in Linked(data) \cup {NoTurn}
  /\ Saved([data EXCEPT
       !.turn = [u \in Turns |->
                   IF u = t THEN [NewTurn EXCEPT !.status = "routing", !.asked = base]
                   ELSE IF u = data.active THEN [data.turn[u] EXCEPT !.status = "cancelled"]
                   ELSE data.turn[u]],
       !.active = t])
  /\ route' = [route EXCEPT ![t] = "created"]
  /\ UNCHANGED <<run, postgres, live, lock, up, eligible, holder, bounds>>

Routed(t, phase) ==
  /\ route' = [route EXCEPT ![t] = phase]
  /\ eligible' = [eligible EXCEPT ![t] = CASE route[t] = "created" /\ phase = "asking" -> Reports
                                           [] phase = "none" -> {} [] OTHER -> @]
Routing == UNCHANGED <<run, postgres, live, lock, up, holder, bounds>>

(* _route reads the conversation and its finished reports, and asks.        *)
Read(t) ==
  /\ route[t] = "created"
  /\ IF data.turn[t].asked \in Reports \cup {NoTurn}
     THEN Routed(t, "asking") /\ UNCHANGED <<data, seen>>
     ELSE Routed(t, "none") /\ Saved(Finished(data, t, "failed"))
  /\ Routing

(* ConversationDecision and _validate_decision.                             *)
Acceptable(t, action, base) ==
  LET asked == data.turn[t].asked IN
  /\ base \in eligible[t] \cup {NoTurn}
  /\ action \in {"answer", "revise"} => base # NoTurn
  /\ asked # NoTurn /\ action # "clarify" => base = asked \/ (action = "research" /\ base = NoTurn)

(* save_decision                                                            *)
Decided(t, action, base) ==
  [data EXCEPT
     !.turn[t].action = action, !.turn[t].base = base,
     !.turn[t].status = CASE action = "clarify" -> "awaiting_clarification"
                          [] action = "answer" -> "routing"
                          [] OTHER -> "awaiting_confirmation",
     !.active = IF action = "clarify" THEN NoTurn ELSE @]

Decide(t) ==
  /\ route[t] = "asking"
  /\ \/ Routed(t, "none") /\ Saved(Finished(data, t, "failed"))
     \/ \E action \in Actions, base \in Turns \cup {NoTurn} :
          /\ Acceptable(t, action, base)
          /\ IF data.state # "open" \/ data.active # t \/ data.turn[t].status # "routing"
             THEN Routed(t, "none") /\ UNCHANGED <<data, seen>>
             ELSE /\ Routed(t, IF action = "answer" THEN "answering" ELSE "none")
                  /\ Saved(Decided(t, action, base))
  /\ Routing

Answer(t) ==
  /\ route[t] = "answering" /\ Routed(t, "none")
  /\ \E s \in {"completed", "failed"} : Saved(Finished(data, t, s))
  /\ Routing

(* A task that was cancelled ends without a word.                           *)
Ended(t) ==
  /\ route[t] = "stopped" /\ Routed(t, "none")
  /\ UNCHANGED <<data, seen>> /\ Routing

-----------------------------------------------------------------------------
(* Confirmation: the run is reserved with its link, then launched.          *)

Confirm(t) ==
  /\ Serving /\ data.state = "open" /\ seen.fresh /\ Synced(data, run) = data
  /\ ~data.turn[t].linked /\ data.active = t /\ data.turn[t].status = "awaiting_confirmation"
  /\ data.turn[t].base \in Reports \cup {NoTurn}
  /\ Saved([data EXCEPT !.turn[t].linked = TRUE, !.turn[t].status = "running"])
  /\ run' = [run EXCEPT ![t] = "pending"]
  /\ holder' = [op |-> "launch", turn |-> t]
  /\ UNCHANGED <<postgres, live, lock, up, route, eligible, bounds>>

Fault == faults < MaxFaults /\ faults' = faults + 1

(* launch_prepared: the run is bound and its task created; what fails ends  *)
(* or interrupts it, bound or not.                                          *)
Launch(t) ==
  /\ holder = [op |-> "launch", turn |-> t] /\ holder' = Free
  /\ \/ live' = live \cup {t} /\ bound' = bound \cup {t} /\ UNCHANGED <<run, faults>>
     \/ \E s \in {"failed", "interrupted"}, b \in {bound, bound \cup {t}} :
          Fault /\ run' = [run EXCEPT ![t] = s] /\ bound' = b /\ UNCHANGED live
  /\ data' = Synced(data, run') /\ seen' = [seen EXCEPT !.fresh = @ /\ data' = data]
  /\ UNCHANGED <<recorded, lock, up, route, eligible, crashes>>

-----------------------------------------------------------------------------
(* Stopping a turn.                                                         *)

Stop(t) ==
  /\ Serving /\ Synced(data, run).active = t
  /\ \/ /\ data.turn[t].linked
        /\ Saved(Synced(data, run)) /\ holder' = [op |-> "cancel", turn |-> t] /\ UNCHANGED route
     \/ /\ ~data.turn[t].linked /\ route[t] # "none"
        /\ holder' = [op |-> "halt", turn |-> t] /\ route' = [route EXCEPT ![t] = "stopped"]
        /\ UNCHANGED <<data, seen>>
     \/ /\ ~data.turn[t].linked /\ route[t] = "none"
        /\ Saved(Finished(data, t, "cancelled")) /\ UNCHANGED <<holder, route>>
  /\ UNCHANGED <<run, postgres, live, lock, up, eligible, bounds>>

Halted(t) ==
  /\ holder = [op |-> "halt", turn |-> t] /\ route[t] = "none"
  /\ Saved(Finished(data, t, "cancelled")) /\ holder' = Free
  /\ UNCHANGED <<run, postgres, live, lock, up, route, eligible, bounds>>

(* mutant: without a binding there is nothing to cancel.                    *)
OnlyBound(t) == t \in bound
(* _cancel_locked: a run that was never bound waits, or was interrupted.    *)
Cancellable(t) == t \in bound \/ run[t] \in {"pending", "interrupted"}

Waiting(t) == run[t] \in RunStatus \ Final

(* runs.cancel with the request id of the turn.  A command that was written *)
(* before is not repeated; one that fails may have been written.            *)
CancelRun(t) ==
  /\ holder = [op |-> "cancel", turn |-> t] /\ t \notin lock /\ holder' = Free
  /\ \/ /\ t \notin recorded /\ Waiting(t) /\ Cancellable(t)
        /\ run' = [run EXCEPT ![t] = "cancelled"] /\ live' = live \ {t}
        /\ recorded' = recorded \cup ({t} \cap bound) /\ UNCHANGED faults
     \/ /\ t \in recorded \/ ~Waiting(t) \/ ~Cancellable(t)
        /\ UNCHANGED <<run, live, recorded, faults>>
     \/ /\ t \in bound /\ Fault /\ recorded' \in {recorded, recorded \cup {t}}
        /\ UNCHANGED <<run, live>>
  /\ data' = Synced(data, run') /\ seen' = [seen EXCEPT !.fresh = @ /\ data' = data]
  /\ UNCHANGED <<bound, lock, up, route, eligible, crashes>>

-----------------------------------------------------------------------------
(* Deletion.                                                                *)

(* begin_delete: of what the client has seen, or the one that is going on.  *)
Deletable == seen.fresh \/ data.state = "deleting"

Delete ==
  /\ Serving /\ Deletable
  /\ Saved([data EXCEPT !.state = "deleting"])
  /\ route' = [t \in Turns |-> IF route[t] = "none" THEN "none" ELSE "stopped"]
  /\ holder' = [op |-> "delete", turn |-> NoTurn]
  /\ UNCHANGED <<run, postgres, live, lock, up, eligible, bounds>>

Emptied ==
  [data EXCEPT !.state = "gone", !.active = NoTurn, !.report = NoTurn,
               !.turn = [t \in Turns |-> NewTurn]]

Held == Linked(data) \cap lock = {}

(* conversation_deletion stops and fences the runs under their locks, then  *)
(* delete removes all rows at once; or it fails after some of the runs.     *)
Purge ==
  /\ holder.op = "delete" /\ holder' = Free /\ Held
  /\ \A t \in Turns : route[t] = "none"
  /\ LET runs == {t \in Linked(data) : run[t] # "gone"} IN
     \/ /\ \A t \in runs : Waiting(t) => Cancellable(t)
        /\ run' = [t \in Turns |-> IF t \in runs THEN "gone" ELSE run[t]]
        /\ live' = live \ runs /\ UNCHANGED faults
        /\ Saved(Emptied)
     \/ /\ Fault
        /\ \E stopped \in SUBSET {t \in runs : Waiting(t) /\ Cancellable(t)} :
             /\ run' = [t \in Turns |-> IF t \in stopped THEN "cancelled" ELSE run[t]]
             /\ live' = live \ stopped
        /\ UNCHANGED <<data, seen>>
  /\ UNCHANGED <<postgres, lock, up, route, eligible, crashes>>

-----------------------------------------------------------------------------
(* The runs, as RunService shows them.                                      *)

Alone == UNCHANGED <<data, bound, recorded, up, route, eligible, holder, seen, bounds>>
Reachable(t) == up /\ t \notin lock /\ holder # [op |-> "launch", turn |-> t]

RunMoves(t) ==
  /\ t \in live
  /\ \/ run[t] = "pending" /\ run' = [run EXCEPT ![t] = "running"] /\ UNCHANGED live
     \/ /\ run[t] = "running" /\ live' = live \ {t}
        /\ \E s \in (RunStatus \ {"pending", "running"}) : run' = [run EXCEPT ![t] = s]
  /\ UNCHANGED lock /\ Alone

(* resolve_approval and resume look at the conversation under the lock.     *)
Command(t) ==
  /\ Reachable(t) /\ data.state = "open" /\ run[t] \in {"waiting_approval", "interrupted"}
  /\ t \in bound \ recorded
  /\ lock' = lock \cup {t} /\ UNCHANGED <<run, live>> /\ Alone

Commanded(t) ==
  /\ t \in lock /\ lock' = lock \ {t}
  /\ \/ run[t] \in {"waiting_approval", "interrupted"}
        /\ run' = [run EXCEPT ![t] = "running"] /\ live' = live \cup {t}
     \/ UNCHANGED <<run, live>>
  /\ Alone

CancelDirectly(t) ==
  /\ Reachable(t) /\ Waiting(t) /\ Cancellable(t)
  /\ run' = [run EXCEPT ![t] = "cancelled"] /\ live' = live \ {t}
  /\ UNCHANGED lock /\ Alone

DeleteRun(t) ==
  /\ Reachable(t) /\ run[t] \in Final
  /\ run' = [run EXCEPT ![t] = "gone"] /\ UNCHANGED <<live, lock>> /\ Alone

-----------------------------------------------------------------------------
(* The process.                                                             *)

Crash ==
  /\ up /\ crashes < MaxCrashes /\ crashes' = crashes + 1
  /\ up' = FALSE /\ live' = {} /\ lock' = {} /\ holder' = Free
  /\ route' = [t \in Turns |-> "none"] /\ eligible' = [t \in Turns |-> {}]
  /\ UNCHANGED <<tables, postgres, seen, faults>>

(* RunService.reconcile_startup: nothing is left in flight.                 *)
Reconciled(s) ==
  [t \in Turns |-> IF ~Waiting(t) THEN run[t]
                   ELSE IF t \notin bound THEN "failed"
                   ELSE IF t \in recorded THEN "cancelled" ELSE s]

(* mutant: only the runs are looked at.                                     *)
RequestsForgotten(runs) == Synced(data, runs)
(* ConversationService.reconcile_startup: a request that was under way is   *)
(* not repeated.                                                            *)
TurnsReconciled(runs) ==
  LET t == data.active IN
  IF t # NoTurn /\ t \notin Linked(data) /\ data.turn[t].status = "routing"
  THEN Finished(data, t, "failed") ELSE Synced(data, runs)

Start ==
  /\ ~up /\ up' = TRUE
  /\ \E s \in {"waiting_approval", "interrupted", "failed", "completed"} : run' = Reconciled(s)
  /\ Saved(TurnsReconciled(run'))
  /\ UNCHANGED <<postgres, live, lock, route, eligible, holder, bounds>>

Task(t) == Read(t) \/ Decide(t) \/ Answer(t) \/ Ended(t)
Operation(t) == Launch(t) \/ Halted(t) \/ CancelRun(t)
Run(t) == RunMoves(t) \/ Command(t) \/ Commanded(t) \/ CancelDirectly(t) \/ DeleteRun(t)

Next ==
  \/ Poll \/ Delete \/ Purge \/ Crash \/ Start
  \/ \E t \in Turns :
       \/ \E base \in Turns \cup {NoTurn} : Send(t, base)
       \/ Confirm(t) \/ Stop(t) \/ Task(t) \/ Operation(t) \/ Run(t)

(* Operations and tasks go on (the model and PostgreSQL answer in time, the *)
(* locks are fair), a dead process is started, the event stream polls, and  *)
(* the user does not give up stopping a turn, or its run.                   *)
Fairness ==
  /\ WF_vars(Purge) /\ WF_vars(Start) /\ WF_vars(Poll)
  /\ \A t \in Turns :
       /\ WF_vars(Task(t)) /\ WF_vars(Operation(t)) /\ WF_vars(Commanded(t))
       /\ SF_vars(Stop(t)) /\ SF_vars(CancelDirectly(t))

Spec == Init /\ [][Next]_vars /\ Fairness

-----------------------------------------------------------------------------
(* Properties.                                                              *)

(* Conversation, turns, runs and tasks agree (conversations/storage.py:388, *)
(* conversations/service.py: _sync): the unfinished turn is the active one; *)
(* a turn has a run exactly if it is linked to one; it is answered once; a  *)
(* request that is shown as under way is under way; a deletion leaves no    *)
(* run and no task behind.                                                  *)
TurnsAgree ==
  /\ \A t \in Turns : data.state = "open" =>
       /\ data.turn[t].status \in Unfinished <=> data.active = t
       /\ data.turn[t].linked <=> run[t] # "none"
       /\ data.turn[t].ends <= 1
       /\ up /\ data.turn[t].status = "routing" =>
            route[t] # "none" \/ holder = [op |-> "halt", turn |-> t]
  /\ data.report # NoTurn => data.turn[data.report].status = "completed"
  /\ data.state = "gone" =>
       live = {} /\ \A t \in Turns : run[t] \in {"none", "gone"} /\ route[t] = "none"

(* A deletion begins only with all the runs it removes shown to who         *)
(* confirmed it (begin_delete: content_version).                            *)
DeletionConfirmed ==
  [][data.state = "open" /\ data'.state = "deleting" => seen.runs = Linked(data)]_vars

(* No turn can block its conversation for ever: whatever crashed or failed  *)
(* (a link without a launch, a launch without a binding), it can be ended.  *)
NoStuckTurn ==
  \A t \in Turns : data.active = t ~> data.active # t \/ data.state = "deleting"
=============================================================================
