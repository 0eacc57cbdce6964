-------------------------- MODULE EvaluationProofs --------------------------
(***************************************************************************)
(* Theorems about Evaluation, for every set of cells, every budget and any *)
(* number of crashes, cancellations and store failures.                    *)
(***************************************************************************)
EXTENDS Evaluation, SequenceTheorems, TLAPS

-----------------------------------------------------------------------------
(* The budget.                                                              *)

CellState == {"none", "waiting", "executing", "judging", "done"}

Typed ==
  /\ attempts \in Nat /\ ledger \in Nat /\ sent \in Nat
  /\ cell \in [Cells -> CellState]

(* Attempts are forgotten with the process, requests are not: an experiment *)
(* that lost its task never gets another one, and no cell works without.    *)
Counted ==
  /\ status = "none" => task = "none" /\ attempts = 0 /\ sent = 0
  /\ task = "none" => \A c \in Cells : cell[c] \notin {"waiting", "executing", "judging"}
  /\ task # "none" => sent <= attempts

BudgetInv == Typed /\ Counted

LEMMA BudgetInit == Init => BudgetInv
  BY DEF Init, BudgetInv, Typed, Counted, CellState

(* What the end of a cell and the record of its row leave of the invariant. *)
LEMMA RecordTyped ==
  ASSUME Typed, NEW c \in Cells, NEW s, NEW how, Record(c, s, how)
  PROVE  /\ cell' = [cell EXCEPT ![c] = "done"]
         /\ ledger' \in {ledger, attempts}
  BY DEF Record, Ends

(* A step of a cell: it has a task, and only a reservation spends anything. *)
LEMMA CellStep ==
  ASSUME BudgetInv, NEW c \in Cells, Cell(c)
  PROVE  /\ BudgetInv'
         /\ sent' # sent =>
              /\ stop = "none" /\ attempts < MaxHttpAttempts
              /\ sent' = sent + 1 /\ sent <= attempts /\ ledger' = attempts + 1
<1> USE DEF BudgetInv
<1> UNCHANGED <<status, task>>
  BY DEF Cell, Enter, Reserve, Execute, Judge, Stricken, Step
<1> cell[c] \in {"waiting", "executing", "judging"}
  BY DEF Cell, Enter, Reserve, Execute, Judge, Stricken, Working, Live
<1> task # "none" /\ status # "none" /\ sent <= attempts
  BY DEF Counted
<1> SUFFICES /\ Typed' /\ sent' <= attempts'
             /\ sent' # sent =>
                  /\ stop = "none" /\ attempts < MaxHttpAttempts
                  /\ sent' = sent + 1 /\ ledger' = attempts + 1
  BY DEF Counted
<1>1. CASE Enter(c)
  <2> UNCHANGED <<attempts, sent>>  BY <1>1 DEF Enter, budget
  <2> cell' \in [Cells -> CellState] /\ ledger' \in {ledger, attempts}
    BY <1>1, RecordTyped DEF Enter, Scored, Typed, CellState
  <2> QED  BY DEF Typed
<1>2. CASE Reserve(c)
  <2>1. CASE ~Refused /\ Send(c) /\ UNCHANGED <<rows, stop, cell, struck, wake>>
    BY <2>1, EvaluationAssumption DEF Refused, Send, Typed
  <2>2. CASE \E r \in {"attempts", "elapsed"} : GivesUp(c, r) /\ UNCHANGED <<attempts, sent>>
    <3> cell' = [cell EXCEPT ![c] = "done"] /\ ledger' \in {ledger, attempts}
      BY <2>2, RecordTyped DEF GivesUp
    <3> QED  BY <2>2 DEF Typed, CellState
  <2>3. CASE /\ attempts' = attempts + 1 /\ UNCHANGED sent
             /\ cell' = [cell EXCEPT ![c] = "done"] /\ ledger' \in {ledger, attempts'}
    BY <2>3 DEF Typed, CellState
  <2> QED  BY <1>2, <2>1, <2>2, <2>3 DEF Reserve, Ends
<1>3. CASE Execute(c) \/ Judge(c) \/ Stricken(c)
  <2> UNCHANGED <<attempts, sent>>  BY <1>3 DEF Execute, Judge, Stricken, budget
  <2> cell' \in [Cells -> CellState] /\ ledger' \in {ledger, attempts}
    BY <1>3, RecordTyped DEF Execute, Judge, Stricken, Scored, Ends, Typed, CellState
  <2> QED  BY DEF Typed
<1> QED  BY <1>1, <1>2, <1>3 DEF Cell

(* Every other step sends nothing.                                          *)
LEMMA OtherStep ==
  ASSUME BudgetInv, [Next]_vars, ~\E c \in Cells : Cell(c)
  PROVE  BudgetInv' /\ UNCHANGED sent
<1> USE DEF BudgetInv
<1>1. CASE UNCHANGED vars
  BY <1>1 DEF vars, stored, process, driver, budget, history, Typed, Counted
<1>2. CASE Create
  BY <1>2 DEF Create, budget, history, Typed, Counted
<1>3. CASE Begin
  BY <1>3 DEF Begin, NoFault, Fault, budget, Typed, Counted, CellState
<1>4. CASE NeverBegun
  BY <1>4 DEF NeverBegun, stored, budget, history, Typed, Counted
<1>5. CASE Unwind
  BY <1>5 DEF Unwind, stored, Typed, Counted, history
<1>6. CASE Finish
  <2> sent' = sent /\ attempts' = attempts /\ cell' = cell /\ ledger' \in {ledger, attempts}
    BY <1>6 DEF Finish, budget
  <2> task # "none" /\ task' # "none" /\ status # "none" /\ status' # "none"
    BY <1>6 DEF Finish, Counted, Verdict
  <2> QED  BY DEF Typed, Counted
<1>7. CASE Sync
  BY <1>7 DEF Sync, stored, budget, history, Typed, Counted
<1>8. CASE Elapse \/ Cancel \/ Close
  BY <1>8 DEF Elapse, Cancel, Close, Active, stored, budget, history, Typed, Counted
<1>9. CASE Cancelled
  BY <1>9 DEF Cancelled, Active, driver, budget, history, Typed, Counted
<1>10. CASE Delete
  BY <1>10 DEF Delete, driver, budget, history, Typed, Counted
<1>11. CASE Closed \/ Crash
  BY <1>11 DEF Closed, Crash, Down, stored, history, Typed, Counted, CellState
<1>12. CASE Start
  BY <1>12 DEF Start, Recover, Active, driver, budget, history, Typed, Counted
<1> QED
  BY <1>1, <1>2, <1>3, <1>4, <1>5, <1>6, <1>7, <1>8, <1>9, <1>10, <1>11, <1>12 DEF Next, Driver

LEMMA BudgetStep == BudgetInv /\ [Next]_vars => BudgetInv'
  BY CellStep, OtherStep

(* What is sent was counted before, in the process and in what is stored.   *)
THEOREM RequestsAreCounted == Spec => []BudgetInv
  BY BudgetInit, BudgetStep, PTL DEF Spec

(* BudgetKept, for every budget, number of cells and places: no request is  *)
(* sent beyond the budget, after it was stopped, or before it is counted in *)
(* what is stored, whichever tasks race for the last unit and whatever      *)
(* fails (budget.py: reserve).                                              *)
THEOREM BudgetIsKept == Spec => BudgetKept
<1>1. BudgetInv /\ [Next]_vars =>
        [sent' # sent => stop = "none" /\ sent' <= MaxHttpAttempts /\ sent' <= ledger']_vars
  <2> SUFFICES ASSUME BudgetInv, [Next]_vars, sent' # sent
               PROVE  stop = "none" /\ sent' <= MaxHttpAttempts /\ sent' <= ledger'
    OBVIOUS
  <2>1. PICK c \in Cells : Cell(c)  BY OtherStep
  <2> QED  BY <2>1, CellStep, EvaluationAssumption DEF BudgetInv, Typed
<1> QED  BY <1>1, RequestsAreCounted, PTL DEF Spec, BudgetKept

-----------------------------------------------------------------------------
(* The account of the cells.                                                *)

Driving == {"created", "running", "stopping"}

RowsTyped ==
  /\ rows \in [Cells -> Seq(RowStatus)]
  /\ faults \in Nat /\ requested \in Nat /\ cancels \in Nat

(* A task at work has an experiment that has not ended.  Somebody who       *)
(* cancels it leaves a cancellation to be thrown, or a reason to stop.      *)
Lifecycle ==
  /\ deleted => status \in Final
  /\ ~up => task = "none"
  /\ task \in Driving => status \in Active
  /\ status = "none" \/ task = "created" => Live = {} /\ \A c \in Cells : rows[c] = << >>
  /\ status = "none" => ~asked
  /\ status = "none" \/ task \in {"created", "stopping"} => wake = "none"
  /\ asked /\ task = "created" => thrown
  /\ asked /\ task \in {"running", "stopping"} => stop # "none"

(* Only users cancel.                                                       *)
Reasons == stop = "cancelled" \/ cancels > 0 \/ status = "cancelled" => requested > 0

Accounted ==
  /\ option.v2 \/ status # "cancelled" => \A c \in Cells : rows[c] # << >>
  /\ status = "completed" => \A c \in Cells : rows[c] = <<"completed">>
  /\ status = "failed" => Has(rows, "failed") \/ Has(rows, "timed_out")

(* While the store works a cell at work has no row yet and somebody who     *)
(* waits for it, so that nothing is recorded behind the end.                *)
Undisturbed ==
  faults = 0 =>
    /\ \A c \in Live : rows[c] = << >> /\ task \in {"running", "stopping"}
    /\ \A c \in Cells : Len(rows[c]) <= 1
    /\ task = "running" => wake # "broken" /\ (wake = "done" => Live = {})
    /\ task \in Driving /\ Has(rows, "budget_stopped") => stop # "none"
    /\ status \in Final => Accounted

AccountInv == BudgetInv /\ RowsTyped /\ Lifecycle /\ Reasons /\ Undisturbed

LEMMA AccountInit == Init => AccountInv
<1> SUFFICES ASSUME Init PROVE AccountInv  OBVIOUS
<1>1. RowsTyped  BY DEF Init, RowsTyped
<1>2. Lifecycle /\ Reasons  BY DEF Init, Lifecycle, Reasons, Driving, Final, Live
<1>3. Undisturbed  BY DEF Init, Undisturbed, Live, Driving, Final, Has
<1> QED  BY <1>1, <1>2, <1>3, BudgetInit DEF AccountInv

(* What a cell that works in an undisturbed experiment can do: go on, or    *)
(* end with a row, or without one because it was cancelled.                 *)
GoesOn(c) ==
  /\ \E s \in {"executing", "judging"} : cell' = [cell EXCEPT ![c] = s]
  /\ UNCHANGED <<rows, wake>>
EndsWith(c) ==
  /\ cell' = [cell EXCEPT ![c] = "done"]
  /\ \/ rows' = rows
     \/ \E s \in RowStatus : /\ rows' = [rows EXCEPT ![c] = Append(@, s)]
                             /\ s = "budget_stopped" => stop' # "none"
  /\ wake' \in {wake, "done", "cancelled"}
  /\ wake' # wake => task = "running" /\ wake = "none"
  /\ wake' = "done" => wake = "done" \/ Live = {c}

LEMMA RecordShape ==
  ASSUME RowsTyped, NEW c \in Cells, NEW s \in RowStatus, NEW how \in {"done", "cancelled"},
         Record(c, s, how), s = "budget_stopped" => stop' # "none", faults' = 0, ~deleted
  PROVE  faults = 0 /\ EndsWith(c)
<1>1. /\ faults = 0 /\ Ends(c, how)
      /\ rows' = [rows EXCEPT ![c] = Append(@, s)]
  BY DEF Record, Fault, NoFault, Writable, RowsTyped
<1>2. CASE task # "running" \/ wake # "none"
  BY <1>1, <1>2 DEF Ends, EndsWith
<1>3. CASE task = "running" /\ wake = "none"
  <2>1. wake' = IF how # "done" \/ Live = {c} THEN how ELSE "none"
    BY <1>1, <1>3 DEF Ends
  <2> QED  BY <1>1, <1>3, <2>1 DEF Ends, EndsWith
<1> QED  BY <1>2, <1>3

LEMMA AppendToNothing ==
  ASSUME NEW s  PROVE Append(<< >>, s) = <<s>> /\ Len(<<s>>) = 1 /\ Len(<< >>) = 0
  OBVIOUS

LEMMA CellShape ==
  ASSUME AccountInv, NEW c \in Cells, Cell(c), faults' = 0
  PROVE  /\ faults = 0 /\ c \in Live /\ (GoesOn(c) \/ EndsWith(c))
         /\ stop' # stop => stop = "none" /\ stop' # "cancelled"
<1> USE DEF AccountInv
<1>1. c \in Live
  BY DEF Cell, Enter, Reserve, Execute, Judge, Stricken, Working, Live
<1>2. faults = 0
  BY DEF Cell, Enter, Reserve, Execute, Judge, Stricken, Scored, GivesUp, Send, Record,
         Fault, NoFault, RowsTyped
<1>3. ~deleted
  BY <1>1, <1>2 DEF Undisturbed, Lifecycle, Driving, Active, Final
<1>4. CASE Enter(c)
  <2>1. stop' = stop  BY <1>4 DEF Enter, budget
  <2>2. CASE stop # "none" /\ Record(c, "budget_stopped", "done")
    BY <1>1, <1>2, <1>3, <2>1, <2>2, RecordShape DEF RowStatus
  <2>3. CASE cell' = [cell EXCEPT ![c] = "executing"] /\ UNCHANGED <<rows, wake>>
    BY <1>1, <1>2, <2>1, <2>3 DEF GoesOn
  <2>4. CASE cell' = [cell EXCEPT ![c] = "judging"] /\ UNCHANGED <<rows, wake>>
    BY <1>1, <1>2, <2>1, <2>4 DEF GoesOn
  <2>5. CASE \E s \in {"completed", "failed"} : Record(c, s, "done")
    BY <1>1, <1>2, <1>3, <2>1, <2>5, RecordShape DEF RowStatus
  <2> QED  BY <1>4, <2>2, <2>3, <2>4, <2>5 DEF Enter, Scored
<1>5. CASE Reserve(c)
  <2>1. CASE Send(c) /\ UNCHANGED <<rows, stop, cell, struck, wake>> /\ c \in Working
    <3> cell' = [cell EXCEPT ![c] = cell[c]] /\ cell[c] \in {"executing", "judging"}
      BY <2>1 DEF BudgetInv, Typed, Working
    <3> QED  BY <1>1, <1>2, <2>1 DEF GoesOn
  <2>2. CASE \E r \in {"attempts", "elapsed"} : GivesUp(c, r)
    <3>1. stop' # "none" /\ (stop' # stop => stop = "none" /\ stop' # "cancelled")
      BY <2>2 DEF GivesUp, Stopped
    <3>2. \E s \in {"completed", "budget_stopped"} : Record(c, s, "done")
      BY <2>2 DEF GivesUp
    <3> QED  BY <1>1, <1>2, <1>3, <3>1, <3>2, RecordShape DEF RowStatus
  <2> QED  BY <1>3, <1>5, <2>1, <2>2, <1>2 DEF Reserve, Fault, Writable, RowsTyped
<1>6. CASE Execute(c)
  <2>1. stop' = stop  BY <1>6 DEF Execute, budget
  <2>2. CASE cell' = [cell EXCEPT ![c] = "judging"] /\ UNCHANGED <<rows, wake>>
    BY <1>1, <1>2, <2>1, <2>2 DEF GoesOn
  <2>3. CASE \E s \in {"completed", "failed", "timed_out"} : Record(c, s, "done")
    BY <1>1, <1>2, <1>3, <2>1, <2>3, RecordShape DEF RowStatus
  <2> QED  BY <1>6, <2>2, <2>3 DEF Execute, Scored
<1>7. CASE Judge(c)
  BY <1>1, <1>2, <1>3, <1>7, RecordShape DEF Judge, budget, RowStatus
<1>8. CASE Stricken(c)
  <2>1. stop' = stop  BY <1>8 DEF Stricken, budget
  <2>2. CASE Record(c, "not_run", "cancelled")
    BY <1>1, <1>2, <1>3, <2>1, <2>2, RecordShape DEF RowStatus
  <2>3. CASE Ends(c, "cancelled") /\ UNCHANGED rows
    BY <1>1, <1>2, <2>1, <2>3 DEF Ends, EndsWith
  <2> QED  BY <1>8, <2>2, <2>3 DEF Stricken
<1> QED  BY <1>4, <1>5, <1>6, <1>7, <1>8 DEF Cell

(* The steps of cells keep the account.                                     *)
LEMMA CellAccount ==
  ASSUME AccountInv, NEW c \in Cells, Cell(c)
  PROVE  AccountInv'
<1> USE DEF AccountInv
<1> UNCHANGED <<option, status, deleted, up, task, thrown, asked, cancels, requested>>
  BY DEF Cell, Enter, Reserve, Execute, Judge, Stricken, Step, process
<1>1. BudgetInv'  BY CellStep
<1>2. RowsTyped'
  <2>1. faults' \in Nat
    BY DEF Cell, Enter, Reserve, Execute, Judge, Stricken, Scored, GivesUp, Send, Record,
           Fault, NoFault, RowsTyped
  <2>2. rows' = rows \/ \E s \in RowStatus : rows' = [rows EXCEPT ![c] = Append(@, s)]
    BY DEF Cell, Enter, Reserve, Execute, Judge, Stricken, Scored, GivesUp, Send, Record, RowStatus
  <2>3. ASSUME NEW s \in RowStatus, rows' = [rows EXCEPT ![c] = Append(@, s)]
        PROVE  rows' \in [Cells -> Seq(RowStatus)]
    <3>1. rows[c] \in Seq(RowStatus)  BY DEF RowsTyped
    <3>2. Append(rows[c], s) \in Seq(RowStatus)  BY <3>1
    <3> QED  BY <2>3, <3>2 DEF RowsTyped
  <2> QED  BY <2>1, <2>2, <2>3 DEF RowsTyped
<1>3. stop' # stop => stop = "none" /\ stop' # "cancelled"
  BY DEF Cell, Enter, Reserve, Execute, Judge, Stricken, GivesUp, Stopped, Refused, budget
<1>4. /\ status # "none" /\ task # "created" /\ (task = "stopping" => wake' = wake)
      /\ status' # "none" /\ task' # "created"
  <2>1. c \in Live /\ (task = "stopping" => wake' = wake)
    BY DEF Cell, Enter, Reserve, Execute, Judge, Stricken, Scored, GivesUp, Send, Record, Ends,
           Working, Live
  <2> QED  BY <2>1 DEF Lifecycle
<1>5. Lifecycle' /\ Reasons'
  BY <1>3, <1>4 DEF Lifecycle, Reasons, Driving
<1>6. Undisturbed'
  <2> SUFFICES ASSUME faults' = 0 PROVE Undisturbed'  BY DEF Undisturbed
  <2>1. /\ faults = 0 /\ c \in Live /\ (GoesOn(c) \/ EndsWith(c))  BY CellShape
  <2>2. rows[c] = << >> /\ task \in {"running", "stopping"} /\ status \notin Final
    BY <2>1 DEF Undisturbed, Lifecycle, Driving, Active, Final
  <2>3. \A d \in Cells : /\ d # c => rows'[d] = rows[d] /\ cell'[d] = cell[d]
                         /\ d \in Live' => d \in Live /\ rows'[d] = rows[d]
    <3> cell \in [Cells -> CellState] /\ rows \in [Cells -> Seq(RowStatus)]
      BY DEF BudgetInv, Typed, RowsTyped
    <3>1. CASE GoesOn(c)  BY <2>1, <3>1 DEF GoesOn, Live
    <3>2. CASE EndsWith(c)  BY <2>1, <3>2 DEF EndsWith, Live
    <3> QED  BY <2>1, <3>1, <3>2
  <2>4. \A d \in Live' : rows'[d] = << >> /\ task' \in {"running", "stopping"}
    <3> \A d \in Live' : d \in Cells  BY DEF Live
    <3> QED  BY <2>1, <2>2, <2>3 DEF Undisturbed
  <2>5. Len(rows'[c]) <= 1 /\ (rows'[c] = << >> \/ \E s \in RowStatus : rows'[c] = <<s>>)
    <3>1. CASE rows' = rows  BY <2>2, <3>1
    <3>2. ASSUME NEW s \in RowStatus, rows' = [rows EXCEPT ![c] = Append(@, s)]
          PROVE  rows'[c] = <<s>>
      BY <2>2, <3>2, AppendToNothing DEF RowsTyped
    <3>3. rows' = rows \/ \E s \in RowStatus : rows' = [rows EXCEPT ![c] = Append(@, s)]
      BY <2>1 DEF GoesOn, EndsWith
    <3>4. rows'[c] = << >> \/ \E s \in RowStatus : rows'[c] = <<s>>  BY <3>1, <3>2, <3>3
    <3>5. CASE rows'[c] = << >>  BY <3>5, AppendToNothing
    <3>6. ASSUME NEW s \in RowStatus, rows'[c] = <<s>>  PROVE Len(rows'[c]) <= 1
      BY <3>6, AppendToNothing
    <3> QED  BY <3>4, <3>5, <3>6
  <2>6. \A d \in Cells : Len(rows'[d]) <= 1
    BY <2>1, <2>3, <2>5 DEF Undisturbed
  <2>7. task' = "running" => wake' # "broken" /\ (wake' = "done" => Live' = {})
    <3> SUFFICES ASSUME task = "running"
                 PROVE wake' # "broken" /\ (wake' = "done" => Live' = {})
      OBVIOUS
    <3>1. CASE GoesOn(c)
      BY <3>1, <2>1, <2>3 DEF GoesOn, Undisturbed
    <3>2. CASE EndsWith(c)
      <4>1. wake' # "broken"  BY <3>2, <2>1 DEF EndsWith, Undisturbed
      <4>2. c \notin Live'  BY <3>2 DEF EndsWith, Live, BudgetInv, Typed
      <4>3. Live = {c} => Live' = {}
        <5> SUFFICES ASSUME Live = {c}, NEW d \in Live'  PROVE FALSE  OBVIOUS
        <5> d \in Live  BY <2>3 DEF Live
        <5> QED  BY <4>2
      <4>4. wake = "done" => Live' = {}
        BY <2>1, <2>3 DEF Undisturbed
      <4> QED  BY <3>2, <4>1, <4>3, <4>4 DEF EndsWith
    <3> QED  BY <2>1, <3>1, <3>2
  <2>8. Has(rows', "budget_stopped") => stop' # "none"
    <3> SUFFICES ASSUME NEW d \in Cells, NEW i \in DOMAIN rows'[d], rows'[d][i] = "budget_stopped"
                 PROVE  stop' # "none"
      BY DEF Has
    <3>1. CASE rows'[d] = rows[d]
      <4> Has(rows, "budget_stopped")  BY <3>1 DEF Has
      <4> QED  BY <2>1, <2>2, <1>3 DEF Undisturbed, Driving
    <3>2. CASE rows'[d] # rows[d]
      <4>1. d = c /\ EndsWith(c)  BY <2>1, <2>3, <3>2 DEF GoesOn
      <4>2. PICK s \in RowStatus : /\ rows' = [rows EXCEPT ![c] = Append(@, s)]
                                   /\ s = "budget_stopped" => stop' # "none"
        BY <3>2, <4>1 DEF EndsWith
      <4>3. rows'[c] = <<s>>  BY <2>2, <4>2, AppendToNothing DEF RowsTyped
      <4> QED  BY <4>1, <4>2, <4>3
    <3> QED  BY <3>1, <3>2
  <2> HIDE DEF AccountInv
  <2> QED  BY <2>2, <2>4, <2>6, <2>7, <2>8 DEF Undisturbed
<1> QED  BY <1>1, <1>2, <1>5, <1>6

-----------------------------------------------------------------------------
(* The steps of the task, of users and of the process.                      *)

LEMMA FilledRows ==
  ASSUME RowsTyped, NEW s \in RowStatus
  PROVE  /\ Filled(s) \in [Cells -> Seq(RowStatus)]
         /\ \A c \in Cells : /\ Filled(s)[c] # << >>
                             /\ Len(rows[c]) <= 1 => Len(Filled(s)[c]) <= 1
<1>1. << >> # <<s>> /\ Len(<<s>>) = 1 /\ <<s>> \in Seq(RowStatus)
  OBVIOUS
<1>2. \A c \in Cells : rows[c] \in Seq(RowStatus)  BY DEF RowsTyped
<1> QED  BY <1>1, <1>2 DEF Filled

LEMMA OneRow ==
  ASSUME NEW S, NEW q \in Seq(S), q # << >>, Len(q) <= 1
  PROVE  Len(q) = 1
<1> Len(q) \in Nat /\ Len(q) # 0  BY EmptySeq
<1> QED  OBVIOUS

(* The verdict of Finish bears out what the rows say.                       *)
LEMMA FinishAccount ==
  ASSUME AccountInv, Finish, faults' = 0
  PROVE  faults = 0 /\ Live = {} /\ status' \in Final /\ Accounted'
         /\ \A c \in Cells : Len(rows'[c]) <= 1
<1> USE DEF AccountInv
<1>1. /\ faults = 0 /\ option' = option
      /\ rows' = Filled(Missing) /\ status' = Verdict(rows')
  BY DEF Finish, Fault, NoFault, RowsTyped
<1>2. Missing \in RowStatus  BY DEF Missing, RowStatus
<1>3. Live = {}
  BY <1>1 DEF Finish, Undisturbed, Lifecycle
<1>4. task \in {"running", "stopping"}  BY DEF Finish
<1>5. \A c \in Cells : Len(rows'[c]) <= 1 /\ rows'[c] # << >>
  BY <1>1, <1>2, FilledRows DEF Undisturbed
<1>6. status' \in Final  BY <1>1 DEF Verdict, Final
<1>7. status' = "failed" => Has(rows', "failed") \/ Has(rows', "timed_out")
  BY <1>1 DEF Verdict
<1>8. ASSUME status' = "completed", NEW c \in Cells
      PROVE  rows'[c] = <<"completed">>
  <2>1. /\ stop = "none" /\ rows' = rows
        /\ ~Has(rows, "failed") /\ ~Has(rows, "timed_out") /\ ~Has(rows, "not_run")
    BY <1>1, <1>8 DEF Verdict
  <2>2. ~Has(rows, "budget_stopped")
    BY <1>1, <1>4, <2>1 DEF Undisturbed, Driving
  <2>3. rows[c] \in Seq(RowStatus) /\ Len(rows[c]) = 1
    <3>1. rows[c] \in Seq(RowStatus) /\ Len(rows[c]) <= 1 /\ rows[c] # << >>
      BY <1>5, <2>1 DEF RowsTyped
    <3>2. Len(rows[c]) = 1  BY <3>1, OneRow
    <3> QED  BY <3>1, <3>2
  <2>4. rows[c][1] \in RowStatus /\ rows[c] = <<rows[c][1]>> /\ 1 \in DOMAIN rows[c]
    BY <2>3
  <2>5. rows[c][1] \notin {"failed", "timed_out", "not_run", "budget_stopped"}
    BY <2>1, <2>2, <2>4 DEF Has
  <2> QED  BY <2>1, <2>4, <2>5 DEF RowStatus
<1> QED  BY <1>1, <1>3, <1>5, <1>6, <1>7, <1>8 DEF Accounted

LEMMA OtherAccount ==
  ASSUME AccountInv, [Next]_vars, ~\E c \in Cells : Cell(c)
  PROVE  AccountInv'
<1> USE DEF AccountInv
<1>1. BudgetInv'  BY BudgetStep
<1> SUFFICES RowsTyped' /\ Lifecycle' /\ Reasons' /\ Undisturbed'
  BY <1>1
<1>2. CASE UNCHANGED vars
  <2> UNCHANGED <<option, status, rows, deleted, up, task, wake, thrown, asked, cell, stop, cancels,
                  requested, faults>>
    BY <1>2 DEF vars, stored, process, driver, budget, history
  <2> QED  BY DEF RowsTyped, Lifecycle, Reasons, Undisturbed, Accounted, Has, Live
<1>3. CASE Create
  <2> /\ status' = "planned" /\ task' = "created" /\ status = "none" /\ task = "none" /\ up
      /\ UNCHANGED <<option, rows, deleted, up, wake, thrown, asked, cell, stop, cancels, requested,
                     faults>>
    BY <1>3 DEF Create, process, budget, history, BudgetInv, Counted
  <2>1. Live' = {}  BY DEF Live, Lifecycle
  <2>2. Lifecycle' /\ RowsTyped' /\ Reasons'
    BY <2>1 DEF RowsTyped, Lifecycle, Reasons, Driving, Active, Final
  <2>3. Undisturbed'
    BY <2>1 DEF Lifecycle, Undisturbed, Has, Final
  <2> QED  BY <2>2, <2>3
<1>4. CASE Begin
  <2> /\ status = "planned" \/ status = "running"
      /\ task = "created" /\ ~thrown /\ ~asked
    BY <1>4 DEF Begin, Lifecycle, Driving, Active
  <2> UNCHANGED <<option, rows, deleted, up, wake, thrown, asked, stop, cancels, requested>>
    BY <1>4 DEF Begin, process, budget
  <2>1. CASE NoFault /\ status' = "running" /\ task' = "running" /\ cell' = [c \in Cells |-> "waiting"]
    <3>1. RowsTyped' /\ Lifecycle' /\ Reasons'
      BY <2>1 DEF RowsTyped, Lifecycle, Reasons, Driving, Active, Final, NoFault
    <3>2. \A c \in Cells : rows[c] = << >> /\ Len(rows[c]) <= 1
      BY AppendToNothing DEF Lifecycle
    <3>3. wake' = "none" /\ status' \notin Final
      BY <2>1 DEF Lifecycle, Final
    <3>4. ~Has(rows', "budget_stopped")  BY <3>2 DEF Has
    <3> QED  BY <2>1, <3>1, <3>2, <3>3, <3>4 DEF Undisturbed, Live
  <2>2. CASE Fault /\ task' = "done" /\ UNCHANGED <<status, cell>>
    <3> faults' # 0 /\ faults' \in Nat  BY <2>2 DEF Fault, RowsTyped
    <3> QED  BY <2>2 DEF RowsTyped, Lifecycle, Reasons, Undisturbed, Driving
  <2> QED  BY <1>4, <2>1, <2>2 DEF Begin
<1>5. CASE NeverBegun \/ Sync
  <2> /\ task \in {"created", "syncing"} /\ task' = "done" /\ thrown' = FALSE
      /\ UNCHANGED <<option, status, rows, deleted, up, wake, asked, cell, stop, cancels, requested,
                     faults>>
    BY <1>5 DEF NeverBegun, Sync, stored, process, budget, history
  <2>1. Live' = Live /\ (faults = 0 => Live = {})
    BY DEF Live, Undisturbed
  <2>2. RowsTyped' /\ Lifecycle' /\ Reasons'
    BY <2>1 DEF RowsTyped, Lifecycle, Reasons, Driving
  <2> QED  BY <2>1, <2>2 DEF Undisturbed, Driving, Accounted, Has
<1>6. CASE Unwind
  <2> /\ task = "running" /\ task' = "stopping" /\ wake' = "none" /\ thrown' = FALSE
      /\ stop' # "none" /\ (stop' = "cancelled" => stop = "cancelled" \/ asked)
      /\ (stop # "none" => stop' = stop)
      /\ UNCHANGED <<option, status, rows, deleted, up, asked, cell, cancels, requested, faults>>
    BY <1>6 DEF Unwind, Stopped, stored, process, history
  <2>1. Live' = Live  BY DEF Live
  <2>2. RowsTyped' /\ Lifecycle' /\ Reasons'
    BY <2>1 DEF RowsTyped, Lifecycle, Reasons, Driving
  <2> QED  BY <2>1, <2>2 DEF Undisturbed, Driving, Accounted, Has, Lifecycle, Active, Final
<1>7. CASE Finish
  <2> /\ task \in {"running", "stopping"} /\ task' \in {"syncing", "done"} /\ status # "none"
      /\ UNCHANGED <<option, deleted, up, wake, asked, cell, stop, cancels, requested>>
    BY <1>7 DEF Finish, process, budget, Lifecycle, Driving, Active
  <2>1. RowsTyped'
    <3> Missing \in RowStatus  BY DEF Missing, RowStatus
    <3> QED  BY <1>7, FilledRows DEF Finish, RowsTyped, Fault, NoFault
  <2>2. Lifecycle' /\ Reasons'
    <3> /\ status' # "none" /\ (deleted => status' = status)
        /\ (status' = "cancelled" => status = "cancelled" \/ stop = "cancelled")
      BY <1>7 DEF Finish, Verdict, Writable
    <3> QED  BY DEF Lifecycle, Reasons, Driving
  <2>3. Undisturbed'
    <3> SUFFICES ASSUME faults' = 0 PROVE Undisturbed'  BY DEF Undisturbed
    <3>1. /\ faults = 0 /\ Live = {} /\ Accounted' /\ \A c \in Cells : Len(rows'[c]) <= 1
      BY <1>7, FinishAccount
    <3>2. Live' = {}  BY <3>1 DEF Live
    <3> QED  BY <3>1, <3>2 DEF Undisturbed, Driving
  <2> QED  BY <2>1, <2>2, <2>3
<1>8. CASE Elapse \/ Cancel \/ Close
  <2> UNCHANGED <<option, status, rows, deleted, up, task, wake, cell, faults>>
    BY <1>8 DEF Elapse, Cancel, Close, stored, process, driver, history
  <2>1. /\ requested' \in Nat /\ cancels' \in Nat /\ requested' >= requested
        /\ stop # "none" => stop' = stop
        /\ stop' = "cancelled" \/ cancels' > 0 =>
             stop = "cancelled" \/ cancels > 0 \/ requested' > 0
    BY <1>8 DEF Elapse, Cancel, Close, Stopped, RowsTyped, budget, history
  <2>2. status = "none" => ~asked'
    BY <1>8 DEF Elapse, Cancel, Close, Lifecycle, Active, BudgetInv, Counted
  <2>3. task = "created" /\ asked' => thrown'
    <3>1. ASSUME CancelTask, task = "created"  PROVE thrown'
      <4>1. thrown' = (task \in {"created", "running", "stopping", "syncing"})
        BY <3>1 DEF CancelTask
      <4>2. task \in {"created", "running", "stopping", "syncing"}  BY <3>1
      <4> QED  BY <4>1, <4>2, Zenon
    <3>2. CancelTask  BY <1>8 DEF Elapse, Cancel, Close
    <3> QED  BY <3>1, <3>2
  <2>4. task \in {"running", "stopping"} /\ asked' => stop' # "none"
    BY <1>8 DEF Elapse, Cancel, Close, Stopped, Lifecycle, budget
  <2>5. Live' = Live  BY DEF Live
  <2>6. RowsTyped' /\ Reasons'
    BY <2>1 DEF RowsTyped, Reasons
  <2>7. Lifecycle'
    BY <2>1, <2>2, <2>3, <2>4, <2>5 DEF Lifecycle, Driving
  <2> QED  BY <2>1, <2>5, <2>6, <2>7 DEF Undisturbed, Driving, Accounted, Has
<1>9. CASE Cancelled
  <2> /\ task \in {"none", "done"} /\ cancels > 0 /\ requested > 0
      /\ UNCHANGED <<option, deleted, up, task, wake, thrown, asked, cell, stop, requested, faults>>
    BY <1>9 DEF Cancelled, process, driver, budget, history, Reasons
  <2>1. cancels' \in Nat  BY <1>9 DEF Cancelled, RowsTyped
  <2>2. Live' = Live /\ (faults = 0 => Live = {})
    BY DEF Live, Undisturbed
  <2>3. CASE status \in Active
    <3>1. status' = "cancelled" /\ rows' = IF option.v2 THEN Filled("not_run") ELSE rows
      BY <1>9, <2>3 DEF Cancelled
    <3>2. "not_run" \in RowStatus  BY DEF RowStatus
    <3>3. RowsTyped' /\ Lifecycle' /\ Reasons'
      BY <2>1, <3>1, <3>2, FilledRows DEF RowsTyped, Lifecycle, Reasons, Driving, Final
    <3>4. Accounted'
      BY <3>1, <3>2, FilledRows DEF Accounted
    <3>5. faults = 0 => \A c \in Cells : Len(rows'[c]) <= 1
      BY <3>1, <3>2, FilledRows DEF Undisturbed
    <3> QED  BY <2>2, <3>3, <3>4, <3>5 DEF Undisturbed, Driving
  <2>4. CASE status \notin Active
    <3>1. UNCHANGED <<status, rows>>  BY <1>9, <2>4 DEF Cancelled
    <3> QED  BY <2>1, <2>2, <3>1 DEF RowsTyped, Lifecycle, Reasons, Undisturbed, Driving,
                                     Accounted, Has
  <2> QED  BY <2>3, <2>4
<1>10. CASE Delete
  <2> /\ status \in Final /\ task \in {"none", "done"}
      /\ UNCHANGED <<option, status, rows, up, task, wake, thrown, asked, cell, stop, cancels,
                     requested, faults>>
    BY <1>10 DEF Delete, process, driver, budget, history
  <2>1. Live' = Live  BY DEF Live
  <2> QED  BY <2>1 DEF RowsTyped, Lifecycle, Reasons, Undisturbed, Driving, Accounted, Has
<1>11. CASE Closed \/ Crash
  <2> /\ task' = "none" /\ wake' = "none" /\ thrown' = FALSE /\ asked' = FALSE /\ stop' = "none"
      /\ cancels' = 0 /\ cell' = [c \in Cells |-> "none"]
      /\ UNCHANGED <<option, status, rows, deleted, requested, faults>>
    BY <1>11 DEF Closed, Crash, Down, stored, history
  <2>1. Live' = {}  BY DEF Live
  <2> QED  BY <2>1 DEF RowsTyped, Lifecycle, Reasons, Undisturbed, Driving, Accounted, Has
<1>12. CASE Start
  <2> /\ up' = TRUE
      /\ UNCHANGED <<option, deleted, task, wake, thrown, asked, cell, stop, cancels, requested,
                     faults>>
    BY <1>12 DEF Start, driver, budget, history
  <2>1. Live' = Live  BY DEF Live
  <2>2. CASE UNCHANGED <<status, rows>>
    BY <2>1, <2>2 DEF RowsTyped, Lifecycle, Reasons, Undisturbed, Driving, Accounted, Has
  <2>3. CASE option.v2 /\ status \in Active /\ status' = "partial" /\ rows' = Filled("not_run")
    <3>1. "not_run" \in RowStatus /\ task = "none" /\ Live' = {}
      BY <1>12, <2>1 DEF RowStatus, Start, Lifecycle, BudgetInv, Counted, Live
    <3>2. RowsTyped' /\ Lifecycle' /\ Reasons' /\ Accounted'
      BY <2>3, <3>1, FilledRows, <1>12 DEF RowsTyped, Lifecycle, Reasons, Driving, Final, Accounted,
                                           Start
    <3>3. faults = 0 => \A c \in Cells : Len(rows'[c]) <= 1
      BY <2>3, <3>1, FilledRows DEF Undisturbed
    <3> QED  BY <3>1, <3>2, <3>3 DEF Undisturbed, Driving
  <2> QED  BY <1>12, <2>2, <2>3 DEF Start, Recover
<1> QED
  BY <1>2, <1>3, <1>4, <1>5, <1>6, <1>7, <1>8, <1>9, <1>10, <1>11, <1>12 DEF Next, Driver

LEMMA AccountStep == AccountInv /\ [Next]_vars => AccountInv'
  BY CellAccount, OtherAccount

(* Behind the end nobody is at work, or the experiment is not found.        *)
LEMMA Frozen ==
  ASSUME AccountInv, [Next]_vars, faults = 0 \/ deleted, status \in Final
  PROVE  outcome' = outcome
<1> USE DEF AccountInv
<1> task \notin Driving /\ status \notin Active /\ status # "none"
  BY DEF Lifecycle, Active, Final
<1>1. ASSUME NEW c \in Cells, Cell(c)  PROVE outcome' = outcome
  <2>1. c \in Live
    BY <1>1 DEF Cell, Enter, Reserve, Execute, Judge, Stricken, Working, Live
  <2>2. deleted  BY <2>1 DEF Undisturbed, Driving
  <2>3. UNCHANGED status
    BY <1>1 DEF Cell, Enter, Reserve, Execute, Judge, Stricken, Step
  <2>4. UNCHANGED <<rows, ledger>>
    BY <1>1, <2>2 DEF Cell, Enter, Reserve, Execute, Judge, Stricken, Scored, GivesUp, Record,
                      Writable
  <2> QED  BY <2>3, <2>4 DEF outcome
<1>2. CASE UNCHANGED vars \/ NeverBegun \/ Unwind \/ Sync \/ Elapse \/ Cancel \/ Delete \/ Close
             \/ Closed \/ Crash
  BY <1>2 DEF vars, stored, outcome, NeverBegun, Unwind, Sync, Elapse, Cancel, Delete, Close,
              Closed, Crash
<1>3. ~Create /\ ~Begin /\ ~Finish
  BY DEF Create, Begin, Finish, Driving
<1>4. CASE Cancelled \/ Start
  BY <1>4 DEF Cancelled, Start, Recover, outcome
<1> QED
  BY <1>1, <1>2, <1>3, <1>4 DEF Next, Driver

(* The rows, the task and its cells, what stopped them and who asked for it *)
(* agree in every state an experiment can reach.                            *)
THEOREM CellsAreAccounted == Spec => []AccountInv
  BY AccountInit, AccountStep, PTL DEF Spec

(* EndAccounts, for every number of cells and places, every budget and any  *)
(* number of crashes, cancellations and faults: an experiment that ended    *)
(* accounts for each cell once, its status says how they fared, and what    *)
(* ended stays as it is (common/service.py: _execute, _finish, cancel,      *)
(* recover; common/store.py: save).                                         *)
THEOREM EndsAreAccounted == Spec => EndAccounts
<1> DEFINE Account ==
      status \in Final /\ faults = 0 =>
          /\ \A c \in Cells : Len(rows[c]) <= 1
          /\ option.v2 \/ status # "cancelled" => \A c \in Cells : rows[c] # << >>
          /\ status = "completed" => \A c \in Cells : rows[c] = <<"completed">>
          /\ status = "failed" => Has(rows, "failed") \/ Has(rows, "timed_out")
          /\ status = "cancelled" => requested > 0
<1>1. AccountInv => Account
  BY DEF AccountInv, Undisturbed, Accounted, Reasons
<1>2. AccountInv /\ [Next]_vars =>
        [(faults = 0 \/ deleted) /\ status \in Final => outcome' = outcome]_vars
  BY Frozen
<1> QED  BY <1>1, <1>2, CellsAreAccounted, PTL DEF Spec, EndAccounts
=============================================================================
