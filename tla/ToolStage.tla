------------------------------ MODULE ToolStage ------------------------------
(***************************************************************************)
(* The researchers of one wave at work (agents/workflow.py _researcher):   *)
(* each attempt is a tool stage (agents/tool_runtime.py gather), a loop of *)
(* decisions of the model and the batches of tool calls they ask for, then *)
(* an analysis of what was found, which is calibrated before it counts.    *)
(* The branches share the tool budget and the failure circuits of the run. *)
(***************************************************************************)
EXTENDS Naturals, Sequences, FiniteSets

CONSTANTS
  Branches,         \* the researchers of the wave
  Tools, Targets,   \* the tools of the registry; what a call is about
  Policy,           \* what each tool declares (tools/base.py)
  Options,          \* the tasks of the branches, the earlier calls, the policy of the run
  Confidences       \* bound: the confidences, in percent, that a model reports

Rejected == 3       \* rejected_calls that stop a stage
CriteriaCount == 2  \* bound: success criteria of a task

(* A call of "none" stands for one that is refused before it is executed:   *)
(* an unknown tool, arguments that are no object or break the schema.       *)
Call == [tool : Tools \cup {"none"}, target : Targets]

(* ok: a usable result; some: a failure that left verified legs; transient: *)
(* retryable; terminal: not retryable; raised: the tool raised.             *)
Results == {"ok", "some", "transient", "terminal", "raised"}
Record == [by : Branches \cup {"earlier"}, call : {c \in Call : c.tool # "none"},
           result : Results, reused : BOOLEAN]

(* caps: the capabilities a success proves; evidence: what it leaves to     *)
(* cite; scoped: failure_scope names the target; circuit: its               *)
(* transient_failure_limit; cap: its max_executions_per_stage; 0 is None.   *)
IsPolicy(p) ==
  /\ p.caps \subseteq STRING /\ p.evidence \in {"none", "local", "web"}
  /\ {p.scoped, p.cached, p.transient} \subseteq BOOLEAN
  /\ p.circuit \in Nat /\ p.cap \in Nat

(* The wave is DOMAIN task.  turnLimit, runLimit: max_tool_calls_per_turn   *)
(* and _per_run; attempts: max_research_attempts; durable: the budget is    *)
(* the journal's (Journal), and not the process's; partial: accept_partial- *)
(* _results.  Bounds: calls, what the model asks for, batch, how many at    *)
(* once, results, what comes back, cuts, whether its answers may be cut.    *)
IsOption(o) ==
  /\ DOMAIN o.task \subseteq Branches
  /\ \A b \in DOMAIN o.task : /\ o.task[b].required \subseteq STRING
                              /\ o.task[b].groups \subseteq SUBSET STRING
                              /\ o.task[b].fresh \in BOOLEAN
  /\ {o.turnLimit, o.runLimit, o.attempts} \subseteq Nat \ {0}
  /\ o.calls \subseteq Call /\ o.results \subseteq Results /\ o.batch \in Nat /\ o.cuts \in BOOLEAN
  /\ o.earlier \in Seq(Record) /\ \A i \in DOMAIN o.earlier : o.earlier[i].by = "earlier"
  /\ Len(o.earlier) <= o.runLimit
  /\ {o.durable, o.partial} \subseteq BOOLEAN

ASSUME ToolStageAssumption ==
  /\ IsFiniteSet(Branches) /\ Branches # {} /\ "earlier" \notin Branches /\ "none" \notin Tools
  /\ Confidences \subseteq 0..100
  /\ \A t \in Tools : IsPolicy(Policy[t])
  /\ \A o \in Options : IsOption(o)

VARIABLES
  option,     \* the case that is run
  reserved,   \* the calls the run has reserved
  log,        \* the records of the run, in the order they were completed
  st          \* the researchers

vars == <<option, reserved, log, st>>

Wave == DOMAIN option.task

Fresh == [turns |-> 0, own |-> {}, have |-> {}, dead |-> {}, rejected |-> 0, spent |-> FALSE,
          wide |-> FALSE, thought |-> FALSE, open |-> 0, left |-> 0, call |-> "none",
          stop |-> FALSE, finish |-> FALSE, missing |-> FALSE]
Start == [pc |-> "begin", attempt |-> 1, best |-> "none", outcome |-> "none", since |-> 0,
          stage |-> Fresh]

TypeOK ==
  /\ option \in Options /\ reserved \in Nat /\ log \in Seq(Record)
  /\ \A b \in Wave :
       /\ st[b].pc \in {"begin", "loop", "asked", "batch", "running", "analyze", "done"}
       /\ st[b].attempt \in 1..option.attempts
       /\ st[b].outcome \in {"none", "complete", "accepted", "partial", "failed"}
       /\ st[b].stage.call \in Call \cup {"none"}
       /\ st[b].stage.left \in 0..st[b].stage.open /\ st[b].stage.open \in 0..option.batch
       /\ st[b].stage.own \subseteq DOMAIN log

(* A process that was restarted between two waves has lost its count.       *)
Init ==
  /\ option \in Options
  /\ reserved \in (IF option.durable THEN {Len(option.earlier)} ELSE {0, Len(option.earlier)})
  /\ log = option.earlier
  /\ st = [b \in Wave |-> Start]

-----------------------------------------------------------------------------
(* What a branch knows.                                                     *)

Largest(a, b) == IF a > b THEN a ELSE b
Smallest(a, b) == IF a < b THEN a ELSE b

(* The graph state holds the calls of the waves before; tool_records, the   *)
(* ones of this task.  Those of a sibling arrive when the wave is joined.   *)
Visible(b) == {i \in DOMAIN log : log[i].by \in {"earlier", b}}
Mine(b) == {i \in DOMAIN log : log[i].by = b}
Failed(r) == r.result # "ok"
Retryable(r) == r.result = "transient"
Final(r) == Failed(r) /\ ~r.reused /\ ~Retryable(r)
Caps(r) == IF Failed(r) THEN {} ELSE Policy[r.call.tool].caps
Evidence(r) == CASE r.result = "ok" -> Policy[r.call.tool].evidence
                 [] r.result = "some" -> "web"
                 [] OTHER -> "none"

AnyMatching(b, n) == {i \in Visible(b) : option.task[b].fresh => st[b].attempt > 1 /\ i > n}  \* mutant

(* The acquisitions that a stage may count as its own: this task's, and for *)
(* fresh data those of an attempt before of at most 300 s ago (after        *)
(* position n of the log).                                                  *)
Acquired(b, n) == {i \in Mine(b) : option.task[b].fresh => st[b].attempt > 1 /\ i > n}

NoneDead(b) == {}                                                   \* mutant
DeadTargets(b) ==
  {log[i].call : i \in {j \in Visible(b) : Policy[log[j].call.tool].scoped /\ Final(log[j])}}

Unmet(b, s) ==
  \/ option.task[b].required \ s.have # {}
  \/ \E g \in option.task[b].groups : g \cap s.have = {}

OwnView(b) == Cardinality(Visible(b))
NotShared(b) == OwnView(b)                                          \* mutant

(* ToolBudget.reserve under its lock, or the journal in its transaction.    *)
Used(b) == Largest(reserved, OwnView(b))

(* With a journal nobody reserves from the budget of the process.           *)
Remaining(b) == option.runLimit - Smallest(option.runLimit, IF option.durable THEN OwnView(b) ELSE Used(b))

(* ToolFailureGuard.blocking_record: the last records of the target, of any *)
(* branch, are transient failures.                                          *)
About(c) == {i \in DOMAIN log : log[i].call = c /\ ~log[i].reused}
LastFailures(c) ==
  {i \in About(c) : \A j \in About(c) : j >= i => Retryable(log[j])}
NeverBlocked(c) == FALSE                                            \* mutant
Blocked(c) == Policy[c.tool].circuit > 0 /\ Cardinality(LastFailures(c)) >= Policy[c.tool].circuit

-----------------------------------------------------------------------------
(* The tool stage.                                                          *)

Stage(b, s) == st' = [st EXCEPT ![b].stage = s]
Move(b, pc, s) == st' = [st EXCEPT ![b].pc = pc, ![b].stage = s]

(* gather begins: what the calls before already settled.                    *)
Begin(b) ==
  /\ st[b].pc = "begin"
  /\ \E n \in (IF option.task[b].fresh /\ st[b].attempt > 1 THEN 0..Len(log) ELSE {Len(log)}) :
       st' = [st EXCEPT ![b].pc = "loop", ![b].since = n,
                        ![b].stage = [Fresh EXCEPT !.have = UNION {Caps(log[i]) : i \in Acquired(b, n)},
                                                   !.dead = DeadTargets(b)]]
  /\ UNCHANGED <<option, reserved, log>>

(* An attempt fails: a new one, unless it was the last, the run's budget is *)
(* used up or a call failed for good; else the best partial result.         *)
AttemptFails(b, final) ==
  IF st[b].attempt < option.attempts /\ ~final
  THEN st' = [st EXCEPT ![b].pc = "begin", ![b].attempt = @ + 1, ![b].stage = Fresh]
  ELSE st' = [st EXCEPT ![b].pc = "done", ![b].stage = Fresh,
                        ![b].outcome = IF st[b].best = "none" THEN "failed" ELSE st[b].best]

Analysis(b, s, missing) == Move(b, "analyze", [Fresh EXCEPT !.own = s.own, !.missing = missing])

(* RequiredToolError: what was acquired may still be worth an analysis.     *)
GatherFails(b, s) ==
  IF \E i \in s.own : ~log[i].reused /\ Evidence(log[i]) # "none"
  THEN Analysis(b, s, TRUE)
  ELSE AttemptFails(b, s.spent \/ \E i \in s.own : Final(log[i]))

(* The loop is left: the contract of the task decides.                      *)
Leave(b, s) == IF Unmet(b, s) THEN GatherFails(b, s) ELSE Analysis(b, s, FALSE)

Uncounted(s) == s                                                   \* mutant
Counted(s) == [s EXCEPT !.turns = @ + 1]

(* The head of the loop: no turn is left, nothing is left of the budget, or *)
(* the model is asked.                                                      *)
Ask(b) ==
  LET s == st[b].stage
  IN /\ st[b].pc = "loop"
     /\ IF s.turns = option.turnLimit + 2 THEN Leave(b, s)
        ELSE IF Remaining(b) = 0 THEN Leave(b, [s EXCEPT !.spent = TRUE])
        ELSE Move(b, "asked", Counted(s))
     /\ UNCHANGED <<option, reserved, log>>

(* The request failed, or its answer is no list of calls with distinct ids. *)
BadAnswer(b) ==
  /\ st[b].pc = "asked"
  /\ GatherFails(b, st[b].stage)
  /\ UNCHANGED <<option, reserved, log>>

(* finish_reason = length: one retry for reasoning only, one with more room.*)
CutAnswer(b) ==
  LET s == st[b].stage
  IN /\ st[b].pc = "asked" /\ option.cuts
     /\ \/ IF s.thought THEN GatherFails(b, s) ELSE Move(b, "loop", [s EXCEPT !.thought = TRUE])
        \/ IF s.wide THEN GatherFails(b, s) ELSE Move(b, "loop", [s EXCEPT !.wide = TRUE])
     /\ UNCHANGED <<option, reserved, log>>

(* No calls: the stage ends unless the contract is unmet.                   *)
EmptyAnswer(b) ==
  LET s == st[b].stage
  IN /\ st[b].pc = "asked"
     /\ IF Unmet(b, s) THEN Move(b, "loop", s) ELSE Leave(b, s)
     /\ UNCHANGED <<option, reserved, log>>

CallsAnswer(b) ==
  LET s == st[b].stage
  IN /\ st[b].pc = "asked"
     /\ IF Cardinality(s.own) >= option.turnLimit THEN Leave(b, s)
        ELSE \E n \in 1..option.batch : Move(b, "batch", [s EXCEPT !.left = n, !.open = n])
     /\ UNCHANGED <<option, reserved, log>>

(* A call of the batch is refused: it is answered, and the third stops.     *)
GoesOn(s) ==                                                        \* mutant
  [s EXCEPT !.rejected = @ + 1, !.open = @ - 1,
            !.left = IF s.rejected + 1 >= Rejected THEN 0 ELSE @ - 1]
Refuse(s) ==
  LET last == s.rejected + 1 >= Rejected
  IN [s EXCEPT !.rejected = @ + 1, !.open = @ - 1, !.stop = @ \/ last,
               !.left = IF last THEN 0 ELSE @ - 1]
StopBatch(s) == [s EXCEPT !.left = 0, !.stop = TRUE]

(* The checks of a call and its reservation.  Without a journal no await    *)
(* lies between them; with one the reservation is a transaction of the      *)
(* journal, and a circuit that opens while it is awaited is one that opens  *)
(* before Execute.                                                          *)
Take(b) ==
  LET s == st[b].stage
  IN /\ st[b].pc = "batch" /\ s.left > 0
     /\ \E c \in option.calls :
          IF Cardinality(s.own) >= option.turnLimit THEN Stage(b, StopBatch(s)) /\ UNCHANGED reserved
          ELSE IF c.tool = "none" THEN Stage(b, Refuse(s)) /\ UNCHANGED reserved
          ELSE IF c \in s.dead THEN Stage(b, StopBatch(s)) /\ UNCHANGED reserved
          ELSE IF Blocked(c) THEN Stage(b, Refuse(s)) /\ UNCHANGED reserved
          ELSE IF Used(b) >= option.runLimit
               THEN Stage(b, [StopBatch(s) EXCEPT !.spent = TRUE]) /\ UNCHANGED reserved
          ELSE Move(b, "running", [s EXCEPT !.call = c]) /\ reserved' = Used(b) + 1
     /\ UNCHANGED <<option, log>>

(* The call ends: it is recorded, shown to the guard and answered.  A tool  *)
(* that failed as often as its cap allows stops the stage after the batch.  *)
Ran(s, t) == Cardinality({i \in s.own : /\ log[i].call.tool = t /\ ~log[i].reused
                                        /\ log[i].result # "raised"})
Complete(b, r) ==
  LET s == st[b].stage
      p == Policy[r.call.tool]
      runs == Ran(s, r.call.tool) + (IF r.reused \/ r.result = "raised" THEN 0 ELSE 1)
  IN /\ log' = Append(log, r)
     /\ Move(b, "batch",
             [s EXCEPT !.own = @ \cup {Len(log) + 1}, !.have = @ \cup Caps(r),
                       !.dead = @ \cup (IF p.scoped /\ Final(r) THEN {r.call} ELSE {}),
                       !.finish = @ \/ (~Failed(r) /\ p.transient),
                       !.stop = @ \/ (Failed(r) /\ p.cap > 0 /\ runs >= p.cap),
                       !.call = "none", !.open = @ - 1, !.left = @ - 1])
     /\ UNCHANGED <<option, reserved>>

(* An identical call that succeeded in this stage is answered from it.      *)
Cached(s) ==
  /\ Policy[s.call.tool].cached
  /\ \E i \in s.own : log[i].call = s.call /\ ~Failed(log[i])

Execute(b) ==
  LET s == st[b].stage
      outcome(result, reused) == [by |-> b, call |-> s.call, result |-> result, reused |-> reused]
  IN /\ st[b].pc = "running"
     /\ IF Cached(s) THEN Complete(b, outcome("ok", TRUE))
        ELSE \E result \in option.results : /\ result = "some" => Policy[s.call.tool].transient
                                     /\ Complete(b, outcome(result, FALSE))

(* A batch that was stopped is not sent back.                               *)
BatchDone(b) ==
  LET s == st[b].stage
  IN /\ st[b].pc = "batch" /\ s.left = 0
     /\ IF s.stop \/ (s.finish /\ ~Unmet(b, s)) THEN Leave(b, s)
        ELSE Move(b, "loop", [s EXCEPT !.finish = FALSE])
     /\ UNCHANGED <<option, reserved, log>>

-----------------------------------------------------------------------------
(* The analysis.                                                            *)

(* A claim: for each criterion what the model says of it and whether it     *)
(* cites a tool result; an invented source is dropped.                      *)
Criteria == 1..CriteriaCount
Claims == [Criteria -> [status : {"met", "partial", "unmet"}, cites : BOOLEAN]]

Citable(b) ==
  {i \in Visible(b) : Evidence(log[i]) \in (IF option.task[b].fresh THEN {"web"} ELSE {"local", "web"})}
Bound(b, claim, c) == claim[c].cites /\ Citable(b) # {}
AsClaimed(b, claim, c) == claim[c].status                           \* mutant
Status(b, claim, c) ==
  IF claim[c].status = "met" /\ option.task[b].fresh /\ ~Bound(b, claim, c)
  THEN "partial" ELSE claim[c].status

(* calibrate_task_result: how reliable a result is, apart from how much of  *)
(* the task it covers.                                                      *)
Calibrate(b, claim, reported) ==
  LET status == [c \in Criteria |-> Status(b, claim, c)]
      count(x) == Cardinality({c \in Criteria : status[c] = x})
      coverage == (100 * count("met") + 50 * count("partial")) \div CriteriaCount
      all == count("met") = CriteriaCount /\ ~st[b].stage.missing
      grounded == \E c \in Criteria : status[c] # "unmet" /\ Bound(b, claim, c)
      accepted == option.partial /\ coverage > 0 /\ (~option.task[b].fresh \/ grounded)
      ceiling == IF st[b].stage.missing THEN 49 ELSE IF all THEN 100 ELSE 69
      confidence == IF accepted THEN reported
                    ELSE Smallest(reported, Smallest(coverage, ceiling))
  IN IF all /\ confidence >= 60 THEN "complete" ELSE IF accepted THEN "accepted" ELSE "partial"

Publish(b, outcome) ==
  st' = [st EXCEPT ![b].pc = "done", ![b].outcome = outcome, ![b].stage = Fresh]

(* A partial result that is not accepted is kept and, if there is something *)
(* to gain, repaired by another attempt.                                    *)
Analyze(b) ==
  /\ st[b].pc = "analyze"
  /\ \E outcome \in {Calibrate(b, claim, reported) : claim \in Claims, reported \in Confidences} :
       IF outcome # "partial" THEN Publish(b, outcome)
       ELSE IF st[b].attempt < option.attempts /\ ~st[b].stage.missing /\ Remaining(b) > 0
            THEN st' = [st EXCEPT ![b].pc = "begin", ![b].attempt = @ + 1, ![b].best = "partial",
                                  ![b].stage = Fresh]
            ELSE Publish(b, "partial")
  /\ UNCHANGED <<option, reserved, log>>

(* No valid analysis within the gateway's requests (ModelGateway).          *)
AnalysisFails(b) ==
  /\ st[b].pc = "analyze"
  /\ AttemptFails(b, FALSE)
  /\ UNCHANGED <<option, reserved, log>>

Done == (\A b \in Wave : st[b].pc = "done") /\ UNCHANGED vars

Step(b) ==
  \/ Begin(b) \/ Ask(b) \/ BadAnswer(b) \/ CutAnswer(b) \/ EmptyAnswer(b) \/ CallsAnswer(b)
  \/ Take(b) \/ Execute(b) \/ BatchDone(b) \/ Analyze(b) \/ AnalysisFails(b)
Next == Done \/ \E b \in Wave : Step(b)

(* Requests and tools have timeouts (OpenRouterClient, ToolRegistry), and a *)
(* coroutine that can run is run.                                           *)
Spec == Init /\ [][Next]_vars /\ \A b \in Branches : WF_vars(b \in Wave /\ Step(b))

-----------------------------------------------------------------------------
(* Properties.                                                              *)

(* Branches that reserve side by side, each with its own view of the calls, *)
(* never run more calls than the policy of the run allows.                  *)
BudgetHeld ==
  /\ Len(log) + Cardinality({b \in Wave : st[b].pc = "running"}) <= option.runLimit
  /\ reserved <= option.runLimit

(* Every tool call of an answer has its own answer before the model is      *)
(* asked again: providers refuse a conversation that breaks this.           *)
AnsweredBeforeAsk == \A b \in Wave : st[b].pc \in {"loop", "asked"} => st[b].stage.open = 0

(* The circuit of a target holds across branches: after the failures that   *)
(* open it, earlier ones counted, only the calls of the wave that were      *)
(* under way can still fail.  (A wider wave before may have left more.)     *)
CircuitHolds ==
  \A t \in Tools, x \in Targets :
    LET c == [tool |-> t, target |-> x]
    IN Policy[t].circuit > 0 /\ ~(LastFailures(c) \subseteq DOMAIN option.earlier) =>
         Cardinality(LastFailures(c)) <= Policy[t].circuit + Cardinality(Wave) - 1

(* What failed for good for a task is not tried again by this task, in no   *)
(* stage and no attempt.                                                    *)
FailedForGood(b, c) ==
  \E i \in DOMAIN log : log[i].by = b /\ log[i].call = c /\ Final(log[i])
NotTriedAgain ==
  [][\A b \in Wave :
       (Len(log') > Len(log) /\ log'[Len(log')].by = b /\ ~log'[Len(log')].reused
        /\ Policy[log'[Len(log')].call.tool].scoped)
         => ~FailedForGood(b, log'[Len(log')].call)]_vars

(* A result that counts as complete rests on calls of its own task for all  *)
(* its capabilities, recent ones where the task asks for fresh data, and on *)
(* a source that can be cited.                                              *)
CompleteIsEarned ==
  \A b \in Wave :
    st[b].outcome = "complete" =>
      LET proven == UNION {Caps(log[i]) : i \in {j \in Mine(b) : option.task[b].fresh => j > st[b].since}}
      IN /\ option.task[b].required \subseteq proven
         /\ \A g \in option.task[b].groups : g \cap proven # {}
         /\ option.task[b].fresh => Citable(b) # {}

(* Every researcher comes back, whatever the model and the tools do.        *)
BranchesEnd == <>(\A b \in Wave : st[b].pc = "done")
=============================================================================
