--------------------------- MODULE LifecycleProofs ---------------------------
(***************************************************************************)
(* Theorems about RunLifecycle, for every scenario: any number of commands *)
(* of the user, crashes, shutdowns, transactions that are reported as      *)
(* unavailable and failures of SQLite.                                     *)
(*   Inv      no request is sent again without a confirmation;             *)
(*   Story    where the coroutines are, what status, graph and outbox are  *)
(*            meanwhile: the status moves along its table, and a startup   *)
(*            reconciles what it finds;                                    *)
(*   Informed what the decision on a plan is and who brings it: no plan is *)
(*            worked on without a decision of its own;                     *)
(*   Cared    with Fenced, whose the run is: while the stores answer, no   *)
(*            run is stranded;                                             *)
(*   OnTheWire  who waits for the answer of the call: the run implements   *)
(*            ExternalCall.                                                *)
(***************************************************************************)
EXTENDS RunLifecycle, TLAPS, SequenceTheorems, WellFoundedInduction

Event == [patch : Terminal \cup {"running"}, state : {"pending", "delivered", "discarded"}]
Calls == {"none", "dispatched", "answered", "unknown", "acknowledged"}
Row == [bound : BOOLEAN, owner : Nat, epoch : Nat, cancelRequested : BOOLEAN, deleted : BOOLEAN,
        initial : BOOLEAN, outbox : Seq(Event), version : Nat, accepted : Decisions,
        decided : Nat, call : Calls, stage : Stages, final : Terminal, acks : Nat]
Labels == {"idle", "reserved", "bind", "initial", "begin", "run", "call", "apply", "emit", "flush",
           "mark", "complete", "interrupt", "release", "claim", "lock", "commit", "await",
           "recover", "tombstone", "settle"}
Job == [kind : {"start", "approve", "continue"}, claim : Nat, command : Decisions]
Holding == [op : {"none", "launch", "approve", "cancel", "delete", "resume", "startup",
                  "settled", "close"},
            claim : Nat, command : Decisions]

Typed ==
  /\ pg \in Row /\ pc \in [Procs -> Labels] /\ claim \in Nat /\ sends \in Nat
  /\ task \in Job /\ handler \in Holding

(* A call that may be sent is one that was never sent, or was confirmed.   *)
Sendable ==
  /\ sends <= 1 + pg.acks
  /\ pg.call \in {"none", "acknowledged"} => sends <= pg.acks

(* An approval that is asked for brings its decision.                      *)
Decided == handler.op = "approve" => pc["handler"] = "claim" /\ handler.command # "none"

Inv == Typed /\ Sendable /\ Decided

(* Most steps neither move the graph nor decide or send anything: a call   *)
(* in flight is lost, or its task takes the answer.  A task that gets to   *)
(* work brings the decision of the operation that started it, if any.      *)
Waits == pc["task"] = "call" /\ Valid(claim)
Follows(q) ==
  /\ q \in Row
  /\ q.stage = pg.stage /\ q.acks = pg.acks
  /\ q.version = pg.version /\ q.accepted = pg.accepted /\ q.decided = pg.decided
  /\ \/ q.call = pg.call
     \/ pg.call = "dispatched" /\ q.call = "unknown"
     \/ Waits /\ q.call \in {"answered", "unknown"}

Holds ==
  \/ handler' = handler /\ pc'["handler"] = pc["handler"]
  \/ handler' = handler /\ handler.op # "approve"
  \/ handler'.op # "approve" /\ handler'.command = "none"

Working == {"begin", "run", "call"}
Works ==
  pc'["task"] \in Working =>
    \/ task'.command = "none"
    \/ pc["task"] \in Working /\ task'.command = task.command
    \/ handler.op # "approve" /\ task'.command = handler.command

Plain ==
  /\ Follows(pg') /\ pc' \in [Procs -> Labels] /\ claim' \in Nat /\ task' \in Job /\ handler' \in Holding
  /\ sends' = sends /\ scenario' = scenario
  /\ Holds /\ Works

LEMMA PlainKeeps == Inv /\ Plain => Inv'
<1> SUFFICES ASSUME Inv, Plain PROVE Inv'  OBVIOUS
<1>1. Typed'  BY DEF Inv, Plain, Typed, Follows
<1>2. Sendable'  BY DEF Inv, Typed, Sendable, Plain, Follows, Row
<1>3. Decided'  BY DEF Inv, Typed, Decided, Plain, Holds
<1> QED  BY <1>1, <1>2, <1>3 DEF Inv

LEMMA InitInv == Init => Inv
<1> SUFFICES ASSUME Init PROVE Inv  OBVIOUS
<1>1. Typed
  <2>1. pg \in Row  BY DEF Init, Row, Decisions, Calls, Stages, Terminal
  <2>2. pc \in [Procs -> Labels] /\ claim \in Nat /\ sends \in Nat  BY DEF Init, Labels
  <2>3. task \in Job  BY DEF Init, Job, NoTask, Decisions
  <2>4. handler \in Holding  BY DEF Init, Holding, NoHandler, Decisions
  <2> QED  BY <2>1, <2>2, <2>3, <2>4 DEF Typed
<1>2. Sendable /\ Decided
  BY DEF Init, Sendable, Decided, NoHandler
<1> QED  BY <1>1, <1>2 DEF Inv

-----------------------------------------------------------------------------
(* What the transactions leave of the row.                                 *)

LEMMA ClaimedFollows ==
  ASSUME Typed
  PROVE  Follows(Claimed) /\ Follows([Claimed EXCEPT !.initial = TRUE]) /\ Claimed.epoch \in Nat
<1> DEFINE n == pg.epoch + 1
<1>1. n \in Nat  BY DEF Typed, Row
<1>2. Claimed = [pg EXCEPT !.owner = n, !.epoch = n]  BY DEF Claimed
<1> HIDE DEF n
<1>3. Follows(Claimed) /\ Claimed.epoch \in Nat  BY <1>1, <1>2 DEF Typed, Follows, Row
<1>4. Follows([Claimed EXCEPT !.initial = TRUE])  BY <1>3 DEF Follows, Row
<1> QED  BY <1>3, <1>4

LEMMA RecoveredFollows == ASSUME Typed PROVE Follows(Recovered)
<1> DEFINE n == pg.epoch + 1  c == IF pg.call = "dispatched" THEN "unknown" ELSE pg.call
<1>1. n \in Nat /\ c \in Calls /\ (c = pg.call \/ (pg.call = "dispatched" /\ c = "unknown"))  BY DEF Typed, Row, Calls
<1>2. Recovered = [pg EXCEPT !.owner = 0, !.epoch = n, !.call = c]  BY DEF Recovered
<1> HIDE DEF n, c
<1> QED  BY <1>1, <1>2 DEF Typed, Follows, Row

LEMMA RowsFollow ==
  ASSUME Typed
  PROVE  /\ Follows(pg) /\ Follows([pg EXCEPT !.bound = TRUE])
         /\ \A c : Follows(Released(c))
         /\ Waits => /\ Follows([pg EXCEPT !.call = "answered"])
                     /\ Follows([pg EXCEPT !.call = "unknown"])
<1>1. Follows(pg)  BY DEF Typed, Follows, Row
<1>2. Follows([pg EXCEPT !.bound = TRUE])  BY DEF Typed, Follows, Row
<1>3. \A c : Follows(Released(c))  BY DEF Typed, Follows, Row, Released
<1>4. Waits => Follows([pg EXCEPT !.call = "answered"])  BY DEF Typed, Follows, Row, Calls
<1>5. Waits => Follows([pg EXCEPT !.call = "unknown"])  BY DEF Typed, Follows, Row, Calls
<1> QED  BY <1>1, <1>2, <1>3, <1>4, <1>5

LEMMA CancelFollows ==
  ASSUME Typed, NEW d \in BOOLEAN
  PROVE  Follows(Cancelled(d))
<1> DEFINE n == pg.epoch + 1
           b == pg.deleted \/ d
           box == [i \in DOMAIN pg.outbox |-> Discard(pg.outbox[i])]
<1>1. pg.outbox \in Seq(Event) /\ n \in Nat /\ b \in BOOLEAN  BY DEF Typed, Row
<1>2. ASSUME NEW i \in DOMAIN pg.outbox PROVE Discard(pg.outbox[i]) \in Event
  <2>1. pg.outbox[i] \in Event  BY <1>1
  <2> QED  BY <2>1 DEF Discard, Event
<1>3. box \in Seq(Event)
  <2>1. DOMAIN pg.outbox = 1..Len(pg.outbox) /\ Len(pg.outbox) \in Nat  BY <1>1
  <2>2. box \in [1..Len(pg.outbox) -> Event]  BY <1>2, <2>1
  <2> HIDE DEF box
  <2> QED  BY <2>1, <2>2, SeqDef
<1> DEFINE q == [pg EXCEPT !.cancelRequested = TRUE, !.deleted = b]
           r == [q EXCEPT !.owner = 0, !.epoch = n]
<1>4. Cancelled(d) = [r EXCEPT !.outbox = box]
  BY DEF Cancelled, Typed, Row
<1> HIDE DEF n, b, box
<1>5. Follows(q)  BY <1>1 DEF Typed, Follows, Row
<1> HIDE DEF q
<1>6. Follows(r)  BY <1>1, <1>5 DEF Follows, Row
<1> HIDE DEF r
<1> QED  BY <1>3, <1>4, <1>6 DEF Follows, Row

LEMMA EmitFollows ==
  ASSUME Typed
  PROVE  Follows(Emitted("running")) /\ Follows(EmittedFinal)
<1>1. ASSUME NEW patch \in Terminal \cup {"running"} PROVE Follows(Emitted(patch))
  <2>1. [patch |-> patch, state |-> "pending"] \in Event  BY DEF Event
  <2>2. Append(pg.outbox, [patch |-> patch, state |-> "pending"]) \in Seq(Event)
    BY <2>1, AppendProperties DEF Typed, Row
  <2> QED  BY <2>2 DEF Emitted, Typed, Follows, Row
<1>2. pg.final \in Terminal  BY DEF Typed, Row
<1> QED  BY <1>1, <1>2, RowsFollow DEF EmittedFinal

(* The oldest event that is not delivered is one.                          *)
LEMMA FirstIsUndelivered ==
  ASSUME Typed, Undelivered # {}
  PROVE  /\ First \in Undelivered /\ First \in DOMAIN pg.outbox /\ pg.outbox[First] \in Event
         /\ \A i \in Undelivered : First <= i
<1>1. Undelivered \subseteq Nat  BY DEF Undelivered, Typed, Row
<1>2. \E i \in Undelivered : \A j \in Undelivered : i <= j
  <2> DEFINE R == OpToRel(<, Nat)
  <2>1. \A i, j \in Nat : j < i => <<j, i>> \in R  BY DEF OpToRel
  <2>2. IsWellFoundedOn(R, Nat)  BY NatLessThanWellFounded
  <2> HIDE DEF R
  <2>3. PICK i \in Undelivered : \A j \in Undelivered : ~(<<j, i>> \in R)
    BY <1>1, <2>2, WFMin
  <2>4. \A j \in Undelivered : ~(j < i)  BY <1>1, <2>1, <2>3
  <2> QED  BY <1>1, <2>4
<1>3. First \in Undelivered /\ \A i \in Undelivered : First <= i  BY <1>2 DEF First
<1> QED  BY <1>3 DEF Undelivered, Typed, Row

-----------------------------------------------------------------------------
(* What the coroutines have in common.                                     *)

LEMMA LostFollows ==
  ASSUME Typed, NEW new, Follows(new), Lost(new)
  PROVE  Follows(pg') /\ scenario' = scenario
BY RowsFollow DEF Lost

LEMMA MoveOn ==
  ASSUME Inv, NEW p \in Procs, NEW l \in Labels, Go(p, l), Follows(pg'),
         UNCHANGED <<task, claim, sends, scenario>>, handler' \in {handler, NoHandler},
         p = "handler" /\ handler' = handler => handler.op # "approve",
         p = "task" => l \notin Working \/ pc["task"] \in Working
  PROVE  Plain
<1>1. NoHandler \in Holding /\ NoHandler.op # "approve" /\ NoHandler.command = "none"
  BY DEF NoHandler, Holding, Decisions
<1>2. /\ pc' \in [Procs -> Labels] /\ (p # "handler" => pc'["handler"] = pc["handler"])
      /\ pc'["task"] \in Working => pc["task"] \in Working
  BY DEF Inv, Typed, Go, Procs
<1>3. Holds /\ Works  BY <1>1, <1>2 DEF Holds, Works
<1> QED  BY <1>1, <1>2, <1>3 DEF Inv, Typed, Plain

LEMMA GiveUpPlain ==
  ASSUME Inv, NEW p \in Procs, GiveUp(p), Follows(pg'), scenario' = scenario
  PROVE  Plain
<1> DEFINE l == IF Interrupts(p) THEN "interrupt" ELSE "idle"
<1>1. l \in Labels /\ l \notin Working /\ Go(p, l)  BY DEF Labels, Working, GiveUp
<1>2. /\ UNCHANGED <<task, claim, sends>> /\ handler' \in {handler, NoHandler}
      /\ p = "handler" /\ handler' = handler => handler.op # "approve"
  BY DEF GiveUp, history, Interrupts, NoHandler
<1> HIDE DEF l
<1> QED  BY <1>1, <1>2, MoveOn

LEMMA FinallyShape ==
  ASSUME Typed, NEW m \in Nat, NEW others \in [Procs -> Labels], Finally(m, others)
  PROVE  /\ pc' \in [Procs -> Labels] /\ pc'["handler"] = others["handler"]
         /\ task' \in Job /\ pc'["task"] \notin Working
<1> DEFINE c == IF task.kind = "continue" THEN task.claim ELSE m
           l == IF c = 0 THEN "idle" ELSE "release"
<1>1. c \in Nat /\ l \in Labels /\ l \notin Working  BY DEF Typed, Job, Labels, Working
<1>2. task' = [task EXCEPT !.claim = c] /\ pc' = [others EXCEPT !["task"] = l]
  BY DEF Finally
<1> HIDE DEF c, l
<1> QED  BY <1>1, <1>2 DEF Typed, Job, Procs

LEMMA KillShape ==
  ASSUME Typed, NEW m \in Nat, NEW others \in [Procs -> Labels], Kill(m, others)
  PROVE  /\ pc' \in [Procs -> Labels] /\ pc'["handler"] = others["handler"]
         /\ task' \in Job /\ pc'["task"] \notin Working
<1>1. CASE pc' = [others EXCEPT !["task"] = "idle"] /\ UNCHANGED task
  BY <1>1 DEF Typed, Procs, Labels, Working
<1>2. CASE Finally(m, others)  BY <1>2, FinallyShape
<1> QED  BY <1>1, <1>2 DEF Kill

LEMMA FailPlain ==
  ASSUME Inv, Fail, scenario' = scenario
  PROVE  Plain
<1>1. /\ pc' \in [Procs -> Labels] /\ pc'["handler"] = pc["handler"]
      /\ task' \in Job /\ pc'["task"] \notin Working
  BY FinallyShape DEF Fail, Inv, Typed
<1>2. Follows(pg')  BY RowsFollow DEF Fail, Inv
<1>3. UNCHANGED <<handler, claim, sends>>  BY DEF Fail, history
<1> QED  BY <1>1, <1>2, <1>3 DEF Plain, Holds, Works, Inv, Typed

(* A journalled step of the graph that moves no stage and sends nothing.   *)
LEMMA GraphPlain ==
  ASSUME Inv, NEW label, NEW new, NEW next \in Labels, Graph(label, new, next),
         pc["task"] = label /\ Valid(claim) => Follows(new),
         label \in Working, UNCHANGED <<task, sends>>
  PROVE  Plain
<1>0. Valid(claim) => Follows(new)  BY DEF Graph, At
<1>1. CASE Valid(claim) /\ pg' = new /\ Go("task", next) /\ UNCHANGED <<store, handler, claim>> /\ Still
  BY <1>0, <1>1, MoveOn DEF Graph, At, store, Still, bounds, Procs
<1>2. CASE UNCHANGED pg /\ GiveUp("task") /\ Still
  BY <1>2, GiveUpPlain, RowsFollow DEF Inv, Still, bounds, Procs
<1>3. CASE Lost(IF Valid(claim) THEN new ELSE pg) /\ GiveUp("task")
  <2> Follows(IF Valid(claim) THEN new ELSE pg)  BY <1>0, RowsFollow DEF Inv
  <2> QED  BY <1>3, GiveUpPlain, LostFollows DEF Inv, Procs
<1> QED  BY <1>1, <1>2, <1>3 DEF Graph

-----------------------------------------------------------------------------
(* Creation.                                                               *)

LEMMA BindPlain == ASSUME Inv, NEW p \in {"creator", "handler"}, Bind(p) PROVE Plain
<1> DEFINE new == [pg EXCEPT !.bound = TRUE]
<1> At(p, "bind") /\ p \in Procs  BY DEF Bind, Procs
<1> p = "handler" => handler.op # "approve"  BY DEF At, Inv, Decided
<1>1. Follows(new) /\ Follows(pg)  BY RowsFollow DEF Inv
<1>2. CASE pg' = new /\ Go(p, "initial") /\ UNCHANGED <<store, task, handler, claim, history>> /\ Still
  BY <1>1, <1>2, MoveOn DEF store, history, Still, bounds, Labels, Working
<1>3. CASE /\ p = "handler" /\ Lost(pg) /\ pg' = pg
           /\ status' = (IF status \in Terminal THEN status ELSE "failed") /\ Answer
           /\ UNCHANGED <<task, claim, history>>
  BY <1>1, <1>3, MoveOn DEF history, Lost, Answer, Labels, Working, Terminal
<1>4. CASE Lost(new) /\ GiveUp(p)
  <2> HIDE DEF new
  <2> QED  BY <1>1, <1>4, LostFollows, GiveUpPlain DEF Inv
<1> QED  BY <1>2, <1>3, <1>4 DEF Bind

LEMMA ClaimInitialPlain == ASSUME Inv, NEW p \in {"creator", "handler"}, ClaimInitial(p) PROVE Plain
<1> DEFINE new == [Claimed EXCEPT !.initial = TRUE]
<1> At(p, "initial") /\ p \in Procs  BY DEF ClaimInitial, Procs
<1> p = "handler" => handler.op # "approve"  BY DEF At, Inv, Decided
<1>1. Follows(new) /\ Follows(pg) /\ new.epoch \in Nat
  BY ClaimedFollows, RowsFollow DEF Inv, Follows, Row
<1>2. CASE /\ IF pg.initial THEN UNCHANGED <<pg, claim>> ELSE pg' = new /\ claim' = new.epoch
           /\ pc' = [pc EXCEPT ![p] = "idle", !["task"] = "begin"]
           /\ task' = NoTask
           /\ handler' = IF p = "handler" THEN NoHandler ELSE handler
           /\ UNCHANGED <<store, history>> /\ Still
  <2> HIDE DEF new
  <2>1. Follows(pg') /\ claim' \in Nat  BY <1>1, <1>2 DEF Inv, Typed
  <2>2. pc' \in [Procs -> Labels] /\ (p # "handler" => pc'["handler"] = pc["handler"])
    BY <1>2 DEF Inv, Typed, Procs, Labels
  <2>3. task' \in Job /\ Works  BY <1>2 DEF NoTask, Job, Decisions, Works
  <2>4. handler' \in Holding /\ Holds
    BY <1>2, <2>2 DEF NoHandler, Holding, Decisions, Holds, Inv, Typed
  <2> QED  BY <1>2, <2>1, <2>2, <2>3, <2>4 DEF Plain, store, history, Still, bounds
<1>3. CASE UNCHANGED pg /\ GiveUp(p) /\ Still
  BY <1>1, <1>3, GiveUpPlain DEF Still, bounds
<1>4. CASE Lost(IF Claimable THEN new ELSE pg) /\ GiveUp(p)
  <2> HIDE DEF new
  <2> Follows(IF Claimable THEN new ELSE pg)  BY <1>1
  <2> QED  BY <1>4, LostFollows, GiveUpPlain DEF Inv
<1> QED  BY <1>2, <1>3, <1>4 DEF ClaimInitial

LEMMA CreatePlain == ASSUME Inv, \E reserved \in BOOLEAN : Create(reserved) PROVE Plain
<1> PICK reserved \in BOOLEAN : Create(reserved)  OBVIOUS
<1> DEFINE l == IF reserved THEN "reserved" ELSE "bind"
<1>1. l \in Labels /\ Go("creator", l)  BY DEF Create, Labels
<1>2. UNCHANGED <<pg, task, handler, claim, sends, scenario>>
  BY DEF Create, history, Still, bounds
<1> HIDE DEF l
<1> QED  BY <1>1, <1>2, MoveOn, RowsFollow DEF Inv, Procs

LEMMA LaunchPlain == ASSUME Inv, Launch PROVE Plain
<1>1. UNCHANGED <<pg, task, claim, sends, scenario>>
  BY DEF Launch, history, Still, bounds
<1>2. CASE Go("creator", "idle") /\ UNCHANGED handler
  BY <1>1, <1>2, MoveOn, RowsFollow DEF Inv, Procs, Labels, Working
<1>3. CASE /\ handler' = [NoHandler EXCEPT !.op = "launch"]
           /\ pc' = [pc EXCEPT !["creator"] = "idle", !["handler"] = "bind"]
  <2>1. pc' \in [Procs -> Labels] /\ pc'["task"] = pc["task"]
    BY <1>3 DEF Inv, Typed, Procs, Labels
  <2>2. handler' \in Holding /\ Holds  BY <1>3 DEF NoHandler, Holding, Holds, Decisions
  <2> QED  BY <1>1, <2>1, <2>2, RowsFollow DEF Plain, Works, Inv, Typed
<1> QED  BY <1>2, <1>3 DEF Launch

-----------------------------------------------------------------------------
(* The outbox.                                                             *)

LEMMA MarkPlain == ASSUME Inv, NEW p \in {"task", "handler"}, Mark(p) PROVE Plain
<1> DEFINE new == [pg EXCEPT !.outbox[First].state = "delivered"]
<1> At(p, "mark") /\ p \in Procs  BY DEF Mark, Procs
<1> p = "handler" => handler.op # "approve"  BY DEF At, Inv, Decided
<1>1. Follows(new)
  <2> DEFINE box == [pg.outbox EXCEPT ![First].state = "delivered"]
  <2>1. pg.outbox \in Seq(Event) /\ new = [pg EXCEPT !.outbox = box]  BY DEF Inv, Typed, Row
  <2>2. box \in Seq(Event)
    <3>1. DOMAIN pg.outbox = 1..Len(pg.outbox) /\ Len(pg.outbox) \in Nat
          /\ pg.outbox \in [1..Len(pg.outbox) -> Event]
      BY <2>1
    <3>2. box \in [1..Len(pg.outbox) -> Event]  BY <3>1 DEF Event
    <3> HIDE DEF box
    <3> QED  BY <3>1, <3>2, SeqDef
  <2> HIDE DEF box, new
  <2> QED  BY <2>1, <2>2 DEF Follows, Inv, Typed, Row
<1> HIDE DEF new
<1>2. CASE pg' = new /\ Go(p, "flush") /\ UNCHANGED <<store, task, handler, claim, history>> /\ Still
  BY <1>1, <1>2, MoveOn DEF store, history, Still, bounds, Labels, Working
<1>3. CASE Lost(new) /\ GiveUp(p)
  BY <1>1, <1>3, LostFollows, GiveUpPlain DEF Inv
<1> QED  BY <1>2, <1>3 DEF Mark, new

LEMMA EmitPlain == ASSUME Inv, NEW p \in {"task", "handler"}, Emit(p) PROVE Plain
<1> DEFINE new == IF p = "handler" /\ handler.op = "resume" THEN Emitted("running") ELSE EmittedFinal
<1> At(p, "emit") /\ p \in Procs  BY DEF Emit, Procs
<1> p = "handler" => handler.op # "approve"  BY DEF At, Inv, Decided
<1>1. Follows(new)  BY EmitFollows DEF Inv
<1> HIDE DEF new
<1>2. CASE pg' = new /\ Go(p, "flush") /\ UNCHANGED <<store, task, handler, claim, history>> /\ Still
  BY <1>1, <1>2, MoveOn DEF store, history, Still, bounds, Labels, Working
<1>3. CASE Lost(new) /\ GiveUp(p)
  BY <1>1, <1>3, LostFollows, GiveUpPlain DEF Inv
<1> QED  BY <1>2, <1>3 DEF Emit, new

LEMMA FlushedPlain ==
  ASSUME Inv, NEW p \in {"task", "handler"}, At(p, "flush"), Flushed(p),
         UNCHANGED <<pg, claim, sends, scenario>>
  PROVE  Plain
<1> p \in Procs  BY DEF Procs
<1> p = "handler" => handler.op # "approve"  BY DEF At, Inv, Decided
<1> Follows(pg')  BY RowsFollow DEF Inv
<1>1. CASE p = "task" /\ Go("task", "complete") /\ UNCHANGED <<task, handler>>
  BY <1>1, MoveOn DEF Labels, Working
<1>2. CASE p = "handler" /\ Go("handler", "settle") /\ UNCHANGED <<task, handler>>
  BY <1>2, MoveOn DEF Labels, Working
<1>3. CASE p = "handler" /\ Answer /\ UNCHANGED task
  BY <1>3, MoveOn DEF Labels, Working, Answer
<1>4. CASE p = "handler" /\ handler' = NoHandler /\ Go("handler", "idle") /\ UNCHANGED task
  BY <1>4, MoveOn DEF Labels, Working
<1>5. CASE /\ p = "handler" /\ handler' = NoHandler
           /\ task' = [kind |-> "continue", claim |-> handler.claim, command |-> handler.command]
           /\ pc' = [pc EXCEPT !["handler"] = "idle", !["task"] = "run"]
  <2>1. pc' \in [Procs -> Labels]  BY <1>5 DEF Inv, Typed, Procs, Labels
  <2>2. task' \in Job /\ Works  BY <1>5 DEF Inv, Typed, Holding, Job, Works
  <2>3. handler' \in Holding /\ Holds  BY <1>5 DEF NoHandler, Holding, Holds, Decisions
  <2> QED  BY <2>1, <2>2, <2>3 DEF Plain, Inv, Typed
<1> QED  BY <1>1, <1>2, <1>3, <1>4, <1>5 DEF Flushed

LEMMA FlushPlain == ASSUME Inv, NEW p \in {"task", "handler"}, Flush(p) PROVE Plain
<1> At(p, "flush") /\ p \in Procs  BY DEF Flush, Procs
<1> p = "handler" => handler.op # "approve"  BY DEF At, Inv, Decided
<1>1. CASE Flushed(p) /\ UNCHANGED <<pg, store, claim, sends>> /\ Still
  BY <1>1, FlushedPlain DEF store, Still, bounds
<1>2. CASE /\ Undelivered # {} /\ Deliver(First) /\ Go(p, "mark")
           /\ UNCHANGED <<pg, task, handler, claim, history>> /\ Still
  BY <1>2, MoveOn, RowsFollow DEF Inv, history, Still, bounds, Labels, Working
<1>3. CASE p = "task" /\ Fail /\ scenario' = scenario
  BY <1>3, FailPlain
<1>4. CASE UNCHANGED pg /\ GiveUp(p) /\ scenario' = scenario
  BY <1>4, GiveUpPlain, RowsFollow DEF Inv
<1>5. CASE Lost(pg) /\ GiveUp(p)
  BY <1>5, LostFollows, GiveUpPlain, RowsFollow DEF Inv
<1> QED  BY <1>1, <1>2, <1>3, <1>4, <1>5 DEF Flush, Still, bounds

-----------------------------------------------------------------------------
(* The task: the steps that leave the stage of the graph alone, then those *)
(* that move it or send a request.                                         *)

LEMMA TaskPlain ==
  ASSUME Inv, Begin \/ Pause \/ Blocked \/ Answered \/ Unanswered \/ Raise \/ Apply \/ Complete \/ Release
  PROVE  Plain
<1> USE DEF Still, bounds, history, store
<1>0. /\ Follows(pg) /\ (\A c : Follows(Released(c)))
      /\ Waits => Follows([pg EXCEPT !.call = "answered"]) /\ Follows([pg EXCEPT !.call = "unknown"])
  BY RowsFollow DEF Inv
<1>1. CASE Begin \/ Pause
  BY <1>0, <1>1, MoveOn DEF Begin, Pause, At, Procs, Labels, Working
<1>2. CASE Blocked
  BY <1>0, <1>2, GiveUpPlain DEF Blocked, Procs
<1>3. CASE Answered \/ Unanswered
  BY <1>0, <1>3, GraphPlain DEF Answered, Unanswered, Labels, Working, Waits
<1>4. CASE Raise
  BY <1>4, FailPlain DEF Raise
<1>5. CASE Apply
  <2>1. CASE Fail /\ Still  BY <2>1, FailPlain
  <2>2. CASE Lost(pg) /\ GiveUp("task")
    BY <1>0, <2>2, LostFollows, GiveUpPlain DEF Inv, Procs
  <2>3. CASE /\ pg.stage = "approval" /\ Go("task", "complete")
             /\ UNCHANGED <<pg, task, handler, claim, history>> /\ Still
    BY <1>0, <2>3, MoveOn DEF Procs, Labels, Working
  <2>4. CASE Go("task", "emit") /\ UNCHANGED <<pg, store, task, handler, claim, history>> /\ Still
    BY <1>0, <2>4, MoveOn DEF Procs, Labels, Working
  <2> QED  BY <1>5, <2>1, <2>2, <2>3, <2>4 DEF Apply
<1>6. CASE Complete
  <2>1. CASE Finally(claim, pc) /\ UNCHANGED <<pg, store, handler, claim, history>> /\ Still
    BY <1>0, <2>1, FinallyShape DEF Plain, Holds, Works, Inv, Typed
  <2>2. CASE UNCHANGED pg /\ GiveUp("task") /\ Still  BY <1>0, <2>2, GiveUpPlain DEF Procs
  <2>3. CASE Lost(pg) /\ GiveUp("task")
    BY <1>0, <2>3, LostFollows, GiveUpPlain DEF Inv, Procs
  <2> QED  BY <1>6, <2>1, <2>2, <2>3 DEF Complete
<1>7. CASE Release
  <2>1. Follows(pg') /\ scenario' = scenario
    BY <1>0, <1>7, LostFollows DEF Release, Inv
  <2>2. claim' \in Nat  BY <1>7 DEF Release, Inv, Typed
  <2>3. pc' \in [Procs -> Labels] /\ pc'["handler"] = pc["handler"] /\ pc'["task"] \notin Working
    BY <1>7 DEF Release, Go, Inv, Typed, Procs, Labels, Working
  <2> QED  BY <1>7, <2>1, <2>2, <2>3 DEF Release, Plain, Holds, Works, Inv, Typed
<1> QED  BY <1>1, <1>2, <1>3, <1>4, <1>5, <1>6, <1>7

LEMMA InterruptPlain == ASSUME Inv, NEW p \in {"task", "handler"}, Interrupt(p) PROVE Plain
<1> At(p, "interrupt") /\ p \in Procs  BY DEF Interrupt, Procs
<1> p = "handler" => handler.op # "approve"  BY DEF At, Inv, Decided
<1>1. Follows(pg') /\ scenario' = scenario /\ claim' \in Nat
  <2> Follows(pg) /\ Follows(Recovered)  BY RowsFollow, RecoveredFollows DEF Inv
  <2>1. CASE (Over \/ ~pg.bound) /\ UNCHANGED <<pg, status, claim>> /\ Still
    BY <2>1 DEF Inv, Typed, Still, bounds
  <2>2. CASE pg' = Recovered /\ claim' = 0 /\ status' = "interrupted" /\ Still
    BY <2>2 DEF Still, bounds
  <2>3. CASE /\ Lost(IF pg.bound THEN Recovered ELSE pg)
             /\ status' = "interrupted" /\ UNCHANGED claim
    <3> Follows(IF pg.bound THEN Recovered ELSE pg)  OBVIOUS
    <3> QED  BY <2>3, LostFollows DEF Inv, Typed
  <2> QED  BY <2>1, <2>2, <2>3 DEF Interrupt
<1>2. CASE p = "task"
  BY <1>1, <1>2, FinallyShape DEF Interrupt, Plain, Holds, Works, Inv, Typed, history
<1>3. CASE p = "handler"
  <2>1. /\ handler' = NoHandler /\ UNCHANGED <<task, sends>> /\ pc' \in [Procs -> Labels]
        /\ pc'["task"] = pc["task"]
    BY <1>3 DEF Interrupt, Answer, Go, Inv, Typed, Procs, Labels, history
  <2> QED  BY <1>1, <2>1 DEF Plain, Holds, Works, Inv, Typed, NoHandler, Holding, Decisions
<1> QED  BY <1>2, <1>3

(* The steps that move the graph from stage to stage.                      *)
StageStep ==
  \/ StartGraph \/ Plan \/ Replan \/ Decide
  \/ \E outcome \in {"completed", "failed"} : PlanFails(outcome) \/ Finish(outcome)

(* The stages they lead to, and what they do to the plan.                  *)
Route(new) ==
  /\ new.stage # "none"
  /\ \/ /\ pg.stage = "planning" /\ new.version = pg.version + 1
        /\ new.stage = IF AutoApprove THEN "working" ELSE "approval"
     \/ /\ new.version = pg.version
        /\ \/ /\ pg.stage = "none"
              /\ new.stage = IF scenario.revision THEN "working" ELSE "planning"
           \/ /\ pg.stage = "approval" /\ task.command # "none"
              /\ new.stage = IF task.command = "approve" THEN "working" ELSE "final"
           \/ pg.stage = "working" /\ ~scenario.revision /\ new.stage = "planning"
           \/ pg.stage \in {"planning", "working"} /\ new.stage = "final"

Moved(new, next) ==
  /\ new \in Row /\ Route(new)
  /\ new.bound = pg.bound /\ new.owner = pg.owner /\ new.epoch = pg.epoch
  /\ new.cancelRequested = pg.cancelRequested /\ new.deleted = pg.deleted
  /\ new.initial = pg.initial /\ new.outbox = pg.outbox
  /\ new.accepted = pg.accepted /\ new.decided = pg.decided
  /\ new.call = pg.call /\ new.acks = pg.acks
  /\ next = IF new.stage = "final" THEN "apply" ELSE "run"

(* A decision is taken once: the task goes on without it.                  *)
Taken ==
  /\ task' \in Job /\ task'.claim = task.claim /\ task'.kind = task.kind
  /\ \/ pc'["task"] = "interrupt" \/ task'.command = "none"
     \/ pg.stage # "approval" /\ task'.command = task.command

LEMMA StageShape ==
  ASSUME Inv, StageStep
  PROVE  \E new, next : Moved(new, next) /\ Graph("run", new, next) /\ Taken /\ UNCHANGED history
<1>0. pg \in Row /\ task \in Job /\ pg.version + 1 \in Nat  BY DEF Inv, Typed, Row
<1> DEFINE Found == \E new, next : Moved(new, next) /\ Graph("run", new, next) /\ Taken /\ UNCHANGED history
<1>1. CASE StartGraph \/ Replan
  <2> DEFINE x == IF pg.stage = "none" /\ scenario.revision THEN "working" ELSE "planning"
             new == [pg EXCEPT !.stage = x]
  <2>1. /\ Graph("run", new, "run") /\ UNCHANGED <<task, history>>
        /\ pg.stage = "none" \/ (pg.stage = "working" /\ ~scenario.revision)
    BY <1>1 DEF StartGraph, Replan
  <2>2. x \in {"working", "planning"} /\ x \in Stages  BY DEF Stages
  <2>3. x = IF pg.stage = "none" /\ scenario.revision THEN "working" ELSE "planning"  OBVIOUS
  <2> HIDE DEF x
  <2>4. Moved(new, "run")  BY <1>0, <2>1, <2>2, <2>3 DEF Moved, Route, Row
  <2>5. Taken  BY <1>0, <2>1 DEF Taken
  <2> QED  BY <2>1, <2>4, <2>5
<1>2. CASE Plan
  <2> DEFINE x == IF AutoApprove THEN "working" ELSE "approval"
             n == pg.version + 1
             new == [pg EXCEPT !.version = n, !.stage = x]
  <2>1. Graph("run", new, "run") /\ UNCHANGED <<task, history>> /\ pg.stage = "planning"
    BY <1>2 DEF Plan
  <2>2. /\ x \in {"working", "approval"} /\ x \in Stages /\ n \in Nat /\ n = pg.version + 1
        /\ x = IF AutoApprove THEN "working" ELSE "approval"
    BY <1>0 DEF Stages
  <2> HIDE DEF x, n
  <2>3. Moved(new, "run")  BY <1>0, <2>1, <2>2 DEF Moved, Route, Row
  <2>4. Taken  BY <1>0, <2>1 DEF Taken
  <2> QED  BY <2>1, <2>3, <2>4
<1>3. CASE Decide /\ task.command = "approve"
  <2> DEFINE new == [pg EXCEPT !.stage = "working"]
  <2>1. Graph("run", new, "run") /\ UNCHANGED history /\ pg.stage = "approval" /\ task.command # "none"
    BY <1>3 DEF Decide
  <2>2. Moved(new, "run")  BY <1>0, <1>3, <2>1 DEF Moved, Route, Row, Stages
  <2>3. Taken  BY <1>0, <1>3 DEF Decide, Taken, Job, Decisions
  <2> QED  BY <2>1, <2>2, <2>3
<1>4. CASE Decide /\ task.command # "approve"
  <2> DEFINE new == [pg EXCEPT !.stage = "final", !.final = "cancelled"]
  <2>1. Graph("run", new, "apply") /\ UNCHANGED history /\ pg.stage = "approval" /\ task.command # "none"
    BY <1>4 DEF Decide
  <2>2. Moved(new, "apply")  BY <1>0, <1>4, <2>1 DEF Moved, Route, Row, Stages, Terminal
  <2>3. Taken  BY <1>0, <1>4 DEF Decide, Taken, Job, Decisions
  <2> QED  BY <2>1, <2>2, <2>3
<1>5. ASSUME NEW outcome \in {"completed", "failed"}, PlanFails(outcome) \/ Finish(outcome) PROVE Found
  <2> DEFINE new == [pg EXCEPT !.stage = "final", !.final = outcome]
  <2>1. Graph("run", new, "apply") /\ UNCHANGED <<task, history>> /\ pg.stage \in {"planning", "working"}
    BY <1>5 DEF PlanFails, Finish
  <2>2. Moved(new, "apply")  BY <1>0, <1>5, <2>1 DEF Moved, Route, Row, Stages, Terminal
  <2>3. Taken  BY <1>0, <2>1 DEF Taken
  <2> QED  BY <2>1, <2>2, <2>3
<1> QED  BY <1>1, <1>2, <1>3, <1>4, <1>5 DEF StageStep

LEMMA StageInv == ASSUME Inv, StageStep PROVE Inv'
<1>1. PICK new, next : Moved(new, next) /\ Graph("run", new, next) /\ Taken /\ UNCHANGED history
  BY StageShape
<1>2. next \in Labels  BY <1>1 DEF Moved, Labels
<1>3. /\ pc' \in [Procs -> Labels] /\ pc'["handler"] = pc["handler"]
      /\ UNCHANGED <<claim, handler, sends>> /\ pg' \in {pg, new}
  BY <1>1, <1>2 DEF Graph, Go, GiveUp, Interrupts, Lost, Inv, Typed, Procs, Labels, history
<1>4. Typed' /\ Sendable' /\ Decided'
  BY <1>1, <1>3 DEF Inv, Typed, Sendable, Decided, Moved, Taken
<1> QED  BY <1>4 DEF Inv

LEMMA SendInv == ASSUME Inv, Send PROVE Inv'
<1> DEFINE new == [pg EXCEPT !.call = "dispatched"]
<1>0. /\ pg \in Row /\ pg.stage = "working" /\ pg.call \in {"none", "acknowledged"}
      /\ Graph("run", new, "call") /\ UNCHANGED <<task, refused>>
      /\ sends' = IF pc'["task"] = "call" THEN sends + 1 ELSE sends
  BY DEF Send, Inv, Typed
<1>1. new \in Row /\ new.acks = pg.acks /\ new.call = "dispatched"
  BY <1>0 DEF Row, Calls
<1> HIDE DEF new
<1>2. /\ pc' \in [Procs -> Labels] /\ pc'["handler"] = pc["handler"]
      /\ UNCHANGED <<claim, handler>>
      /\ pg' = new \/ (pg' = pg /\ pc'["task"] = "interrupt")
  BY <1>0 DEF Graph, Go, GiveUp, Interrupts, Lost, Inv, Typed, Procs, Labels
<1>3. sends \in Nat /\ sends <= pg.acks /\ pg.acks \in Nat
  BY <1>0 DEF Inv, Typed, Sendable, Row
<1>4. sends' \in Nat /\ sends' <= 1 + pg.acks /\ (pc'["task"] = "interrupt" => sends' = sends)
  BY <1>0, <1>3
<1>5. Typed'  BY <1>0, <1>1, <1>2, <1>4 DEF Inv, Typed
<1>6. Sendable'  BY <1>0, <1>1, <1>2, <1>3, <1>4 DEF Sendable
<1>7. Decided'  BY <1>2 DEF Inv, Decided
<1> QED  BY <1>5, <1>6, <1>7 DEF Inv

LEMMA TaskInv == Inv /\ TaskStep => Inv'
BY TaskPlain, EmitPlain, FlushPlain, MarkPlain, InterruptPlain, PlainKeeps, StageInv, SendInv
   DEF TaskStep, StageStep

-----------------------------------------------------------------------------
(* The operations of the user, and what they claim.                        *)

LEMMA CommandInv ==
  ASSUME Inv, NEW op \in {"approve", "resume", "cancel", "delete"}, NEW decision \in Decisions,
         NEW l \in Labels, Command(op, decision, l),
         op = "approve" => decision # "none" /\ l = "claim"
  PROVE  Inv'
<1>1. handler' = [op |-> op, claim |-> 0, command |-> decision] /\ handler' \in Holding
  BY DEF Command, Holding
<1>2. pc' \in [Procs -> Labels] /\ pc'["handler"] = l
  BY DEF Command, Go, Inv, Typed, Procs
<1>3. UNCHANGED <<pg, task, claim, sends>>  BY DEF Command, history
<1>4. Typed' /\ Sendable'  BY <1>1, <1>2, <1>3 DEF Inv, Typed, Sendable
<1>5. Decided'
  BY <1>1, <1>2, <1>3 DEF Inv, Decided
<1> QED  BY <1>4, <1>5 DEF Inv

LEMMA UserInv == Inv /\ UserStep => Inv'
<1> SUFFICES ASSUME Inv, UserStep PROVE Inv'  OBVIOUS
<1>1. CASE \E reserved \in BOOLEAN : Create(reserved)
  BY <1>1, CreatePlain, PlainKeeps
<1>2. ASSUME NEW decision \in {"approve", "reject"}, Approve(decision) PROVE Inv'
  BY <1>2, CommandInv DEF Approve, Decisions, Labels
<1>3. CASE Resume \/ Cancel \/ Delete
  BY <1>3, CommandInv DEF Resume, Cancel, Delete, Decisions, Labels
<1> QED  BY <1>1, <1>2, <1>3 DEF UserStep

(* The decision of a plan that waits for one is stored with the claim.     *)
LEMMA AcceptedRow ==
  ASSUME Inv, NEW c \in Decisions
  PROVE  /\ Accepted(c) \in Row /\ Accepted(c).epoch = pg.epoch + 1
         /\ Accepted(c).acks = pg.acks /\ Accepted(c).call = pg.call /\ Accepted(c).stage = pg.stage
         /\ Accepted(c).version = pg.version
         /\ IF pg.stage = "approval"
            THEN Accepted(c).accepted = c /\ Accepted(c).decided = pg.version
            ELSE Accepted(c).accepted = pg.accepted /\ Accepted(c).decided = pg.decided
<1> DEFINE n == pg.epoch + 1
<1>1. n \in Nat /\ pg \in Row  BY DEF Inv, Typed, Row
<1>2. Claimed = [pg EXCEPT !.owner = n, !.epoch = n]  BY DEF Claimed
<1> HIDE DEF n
<1>3. /\ Claimed \in Row /\ Claimed.epoch = n /\ Claimed.acks = pg.acks /\ Claimed.call = pg.call
      /\ Claimed.stage = pg.stage /\ Claimed.version = pg.version
      /\ Claimed.accepted = pg.accepted /\ Claimed.decided = pg.decided
  BY <1>1, <1>2 DEF Row
<1> QED  BY <1>1, <1>3 DEF Accepted, Row, n

LEMMA ClaimApprovalInv == ASSUME Inv, ClaimApproval PROVE Inv'
<1> DEFINE new == Accepted(handler.command)
<1>0. handler.op = "approve" /\ handler.command \in Decisions
  BY DEF ClaimApproval, Inv, Typed, Holding
<1>1. new \in Row /\ new.acks = pg.acks /\ new.call = pg.call /\ new.epoch \in Nat
  BY <1>0, AcceptedRow DEF Inv, Typed, Row
<1>2. /\ pg' \in {pg, new} /\ handler' = NoHandler /\ sends' = sends
      /\ claim' \in {claim, new.epoch}
      /\ task' \in {task, [kind |-> "approve", claim |-> new.epoch, command |-> handler.command]}
  BY <1>0 DEF ClaimApproval, GiveUp, Interrupts, Lost, history
<1>3. pc' \in [Procs -> Labels]
  BY <1>0 DEF ClaimApproval, GiveUp, Interrupts, Go, Inv, Typed, Procs, Labels
<1> HIDE DEF new
<1>4. Typed'  BY <1>0, <1>1, <1>2, <1>3 DEF Inv, Typed, NoHandler, Holding, Decisions, Job
<1>5. Sendable' /\ Decided'  BY <1>1, <1>2 DEF Inv, Sendable, Decided, NoHandler
<1> QED  BY <1>4, <1>5 DEF Inv

LEMMA ClaimResumeInv == ASSUME Inv, NEW confirm \in BOOLEAN, ClaimResume(confirm) PROVE Inv'
<1> DEFINE c == IF pg.call = "unknown" THEN "acknowledged" ELSE pg.call
           n == IF pg.call = "unknown" THEN pg.acks + 1 ELSE pg.acks
           new == [Claimed EXCEPT !.call = c, !.acks = n]
           granted == Resumable /\ (pg.call = "unknown" => confirm)
<1>0. At("handler", "claim") /\ handler.op = "resume"  BY DEF ClaimResume
<1>1. /\ Claimed \in Row /\ Claimed.call = pg.call /\ Claimed.acks = pg.acks
      /\ Claimed.epoch \in Nat
  BY ClaimedFollows DEF Follows, Inv, Claimed, Typed, Row
<1>2. /\ c \in Calls /\ n \in Nat /\ pg.acks \in Nat
      /\ \/ c = pg.call /\ n = pg.acks
         \/ c = "acknowledged" /\ n = pg.acks + 1
  BY DEF Inv, Typed, Row, Calls
<1>3. [Claimed EXCEPT !.call = IF @ = "unknown" THEN "acknowledged" ELSE @,
                      !.acks = IF pg.call = "unknown" THEN @ + 1 ELSE @] = new
  BY <1>1
<1> HIDE DEF c, n
<1>4. new \in Row /\ new.acks = n /\ new.call = c /\ new.epoch \in Nat
  BY <1>1, <1>2 DEF Row
<1> HIDE DEF new
<1>5. Sendable /\ sends \in Nat  BY DEF Inv, Typed
<1>6. ASSUME pg' = new, pc' \in [Procs -> Labels], claim' \in Nat, handler' \in Holding,
             handler'.op # "approve", UNCHANGED <<task, sends>>
      PROVE  Inv'
  <2>1. Typed'  BY <1>4, <1>6 DEF Inv, Typed
  <2>2. Sendable'  BY <1>2, <1>4, <1>5, <1>6 DEF Sendable
  <2>3. Decided'  BY <1>6 DEF Decided
  <2> QED  BY <2>1, <2>2, <2>3 DEF Inv
<1>7. CASE UNCHANGED pg /\ GiveUp("handler") /\ scenario' = scenario
  BY <1>7, GiveUpPlain, PlainKeeps, RowsFollow DEF Inv, Procs
<1>8. CASE pg' = new /\ GiveUp("handler") /\ scenario' = scenario
  <2> handler' = NoHandler /\ UNCHANGED <<task, claim, sends>>
    BY <1>0, <1>8 DEF GiveUp, Interrupts, history
  <2> pc' \in [Procs -> Labels]  BY <1>8 DEF GiveUp, Go, Inv, Typed, Procs, Labels
  <2> QED  BY <1>6, <1>8 DEF Inv, Typed, NoHandler, Holding, Decisions
<1>9. CASE /\ pg' = new /\ claim' = new.epoch
           /\ handler' = [handler EXCEPT !.claim = new.epoch, !.command = PendingApproval]
           /\ Go("handler", "emit") /\ UNCHANGED <<task, sends>>
  <2>1. PendingApproval \in Decisions
    BY DEF PendingApproval, Inv, Typed, Row, Decisions
  <2>2. handler' \in Holding /\ handler'.op = "resume" /\ handler'.command = PendingApproval
    BY <1>0, <1>4, <1>9, <2>1 DEF Inv, Typed, Holding
  <2>3. pc' \in [Procs -> Labels]  BY <1>9 DEF Go, Inv, Typed, Procs, Labels
  <2> QED  BY <1>4, <1>6, <1>9, <2>1, <2>2, <2>3
<1> QED  BY <1>3, <1>7, <1>8, <1>9 DEF ClaimResume, Lost, Still, bounds, store, history

-----------------------------------------------------------------------------
(* The other operations, shutdown and startup.                             *)

LEMMA HandlerMovesOn ==
  ASSUME Inv, NEW l \in Labels, pc["handler"] # "claim", Go("handler", l), Follows(pg'),
         UNCHANGED <<task, claim, sends, scenario>>, handler' \in {handler, NoHandler}
  PROVE  Plain
BY MoveOn DEF Inv, Decided, Procs

LEMMA LockPlain == ASSUME Inv, Lock PROVE Plain
BY HandlerMovesOn, RowsFollow DEF Lock, At, Answer, Inv, Labels, store, history, Still, bounds

LEMMA CommitPlain == ASSUME Inv, Commit PROVE Plain
<1>0. pc["handler"] # "claim" /\ handler.op # "approve"  BY DEF Commit, At, Inv, Decided
<1>1. Follows(pg) /\ Follows(Cancelled(FALSE)) /\ Follows(Cancelled(TRUE))
  BY RowsFollow, CancelFollows DEF Inv
<1>2. CASE /\ pg' = IF pg.bound THEN Cancelled(FALSE) ELSE pg
           /\ claim' = IF pg.bound THEN 0 ELSE claim
           /\ Kill(claim', [pc EXCEPT !["handler"] = "await"])
           /\ UNCHANGED <<status, handler, history>> /\ Still
  <2>1. claim' \in Nat  BY <1>2 DEF Inv, Typed
  <2>2. [pc EXCEPT !["handler"] = "await"] \in [Procs -> Labels]
    BY DEF Inv, Typed, Procs, Labels
  <2>3. pc' \in [Procs -> Labels] /\ task' \in Job /\ pc'["task"] \notin Working
    BY <1>2, <2>1, <2>2, KillShape DEF Inv
  <2>4. Follows(pg')  BY <1>1, <1>2
  <2> QED
    BY <1>0, <1>2, <2>1, <2>3, <2>4
       DEF Plain, Holds, Works, Inv, Typed, store, history, Still, bounds
<1>3. CASE UNCHANGED pg /\ GiveUp("handler") /\ Still
  BY <1>1, <1>3, GiveUpPlain DEF Procs, Still, bounds
<1>4. CASE /\ pg' = IF pg.bound THEN Cancelled(TRUE) ELSE pg
           /\ claim' = IF pg.bound THEN 0 ELSE claim
           /\ status' = "gone" /\ Answer /\ UNCHANGED <<task, history>> /\ Still
  <2>1. claim' \in Nat /\ Follows(pg')  BY <1>1, <1>4 DEF Inv, Typed
  <2>2. pc' \in [Procs -> Labels] /\ handler' = NoHandler /\ pc'["task"] = pc["task"]
    BY <1>4 DEF Answer, Go, Inv, Typed, Procs, Labels
  <2> QED
    BY <1>4, <2>1, <2>2
       DEF Plain, Holds, Works, Inv, Typed, NoHandler, Holding, Decisions, history, Still, bounds
<1>5. CASE Lost(IF pg.bound THEN Cancelled(handler.op = "delete") ELSE pg) /\ GiveUp("handler")
  <2>1. Follows(IF pg.bound THEN Cancelled(handler.op = "delete") ELSE pg)
    BY <1>1, CancelFollows DEF Inv
  <2> QED  BY <1>5, <2>1, LostFollows, GiveUpPlain DEF Inv, Procs
<1>6. CASE /\ pg' = IF pg.bound THEN Cancelled(FALSE) ELSE pg
           /\ claim' = IF pg.bound THEN 0 ELSE claim
           /\ Answer /\ status' = EndedByUser /\ UNCHANGED <<task, history>> /\ Still
  <2>1. claim' \in Nat /\ Follows(pg')  BY <1>1, <1>6 DEF Inv, Typed
  <2>2. pc' \in [Procs -> Labels] /\ handler' = NoHandler /\ pc'["task"] = pc["task"]
    BY <1>6 DEF Answer, Go, Inv, Typed, Procs, Labels
  <2> QED
    BY <1>6, <2>1, <2>2
       DEF EndedByUser, Plain, Holds, Works, Inv, Typed, NoHandler, Holding, Decisions, history, Still, bounds
<1> QED  BY <1>2, <1>3, <1>4, <1>5, <1>6 DEF Commit

LEMMA AwaitPlain == ASSUME Inv, Await PROVE Plain
<1>1. /\ pc["handler"] # "claim" /\ Follows(pg')
      /\ UNCHANGED <<task, claim, sends, scenario>>
      /\ handler' \in {handler, NoHandler}
      /\ Go("handler", "idle") \/ Go("handler", "interrupt")
  BY RowsFollow DEF Await, At, Answer, Inv, history, Still, bounds
<1> QED  BY <1>1, HandlerMovesOn DEF Labels

LEMMA RecoverPlain == ASSUME Inv, Recover PROVE Plain
<1>1. Follows(pg) /\ Follows(Recovered)  BY RowsFollow, RecoveredFollows DEF Inv
<1>2. Follows(pg') /\ scenario' = scenario
  <2> Follows(IF pg.bound THEN Recovered ELSE pg)  BY <1>1
  <2> QED  BY <1>1, LostFollows DEF Recover, Inv, Still, bounds
<1>3. /\ pc["handler"] # "claim" /\ UNCHANGED <<task, claim, sends>>
      /\ handler' \in {handler, NoHandler}
      /\ Go("handler", "idle") \/ Go("handler", "tombstone") \/ Go("handler", "flush")
  BY DEF Recover, At, Started, Answer, store, history
<1> QED  BY <1>2, <1>3, HandlerMovesOn DEF Labels

LEMMA TombstonePlain == ASSUME Inv, Tombstone PROVE Plain
<1>1. Follows(Cancelled(TRUE))  BY CancelFollows DEF Inv
<1>2. pc["handler"] # "claim"  BY DEF Tombstone, At
<1>3. CASE pg' = Cancelled(TRUE) /\ Started /\ Still /\ UNCHANGED <<store, task, claim, history>>
  BY <1>1, <1>2, <1>3, HandlerMovesOn DEF Started, Answer, Labels, Still, bounds, store, history
<1>4. CASE Lost(Cancelled(TRUE)) /\ GiveUp("handler")
  BY <1>1, <1>4, LostFollows, GiveUpPlain DEF Inv, Procs
<1> QED  BY <1>3, <1>4 DEF Tombstone

LEMMA SettlePlain == ASSUME Inv, Settle PROVE Plain
<1>0. pc["handler"] # "claim" /\ handler.op # "approve"  BY DEF Settle, At, Inv, Decided
<1>1. Follows(pg)  BY RowsFollow DEF Inv
<1>2. CASE /\ handler' = [NoHandler EXCEPT !.op = "settled"] /\ Go("handler", "emit")
           /\ UNCHANGED <<pg, store, task, claim, history>> /\ Still
  <2>1. handler' \in Holding /\ handler'.op = "settled" /\ handler'.command = "none"
    BY <1>2 DEF NoHandler, Holding, Decisions
  <2>2. pc' \in [Procs -> Labels] /\ pc'["task"] = pc["task"]  BY <1>2 DEF Go, Inv, Typed, Procs, Labels
  <2> QED
    BY <1>0, <1>1, <1>2, <2>1, <2>2
       DEF Plain, Holds, Works, Inv, Typed, store, history, Still, bounds
<1>3. CASE status' = Projected /\ Started /\ UNCHANGED <<pg, task, claim, history>> /\ Still
  BY <1>0, <1>1, <1>3, HandlerMovesOn DEF Started, Answer, Labels, history, Still, bounds
<1>4. CASE Lost(pg) /\ GiveUp("handler")
  BY <1>1, <1>4, LostFollows, GiveUpPlain DEF Inv, Procs
<1> QED  BY <1>2, <1>3, <1>4 DEF Settle

LEMMA ClosePlain == ASSUME Inv, Close PROVE Plain
<1>1. [pc EXCEPT !["handler"] = "await"] \in [Procs -> Labels]
  BY DEF Inv, Typed, Procs, Labels
<1>2. pc' \in [Procs -> Labels] /\ task' \in Job /\ pc'["task"] \notin Working
  BY <1>1, KillShape DEF Close, Inv, Typed
<1>3. handler' \in Holding /\ handler'.op # "approve" /\ handler'.command = "none"
  BY DEF Close, NoHandler, Holding, Decisions
<1> QED
  BY <1>2, <1>3, RowsFollow DEF Close, Plain, Holds, Works, Inv, Typed, store, history

LEMMA ProcessPlain == ASSUME Inv, Crash \/ Restart \/ Restore PROVE Plain
<1>1. Follows(pg') /\ UNCHANGED <<sends, scenario>>
  BY RowsFollow DEF Crash, Restart, Restore, Inv, history, Still, bounds
<1>2. task' = task /\ claim' \in Nat
  BY DEF Crash, Restart, Restore, Inv, Typed, memory
<1>3. pc' \in [Procs -> Labels] /\ pc'["task"] \in {"idle", pc["task"]}
  BY DEF Crash, Restart, Restore, Inv, Typed, memory, Labels, Procs
<1>4. handler' \in Holding /\ Holds
  <2>1. CASE Crash
    BY <2>1 DEF Crash, NoHandler, Holding, Decisions, Holds
  <2>2. CASE Restart
    BY <2>2 DEF Restart, NoHandler, Holding, Decisions, Holds
  <2>3. CASE Restore
    BY <2>3 DEF Restore, memory, Holds, Inv, Typed
  <2> QED  BY <2>1, <2>2, <2>3
<1> QED  BY <1>1, <1>2, <1>3, <1>4 DEF Plain, Works, Working, Inv, Typed

-----------------------------------------------------------------------------
(* The invariant is inductive.                                             *)

LEMMA HandlerInv == Inv /\ HandlerStep => Inv'
BY BindPlain, ClaimInitialPlain, LockPlain, CommitPlain, AwaitPlain, EmitPlain, FlushPlain, MarkPlain,
   InterruptPlain, RecoverPlain, TombstonePlain, SettlePlain, PlainKeeps,
   ClaimApprovalInv, ClaimResumeInv
   DEF HandlerStep

LEMMA CreatorInv == Inv /\ CreatorStep => Inv'
BY LaunchPlain, BindPlain, ClaimInitialPlain, PlainKeeps DEF CreatorStep

LEMMA StutterInv == Inv /\ UNCHANGED vars => Inv'
<1> SUFFICES ASSUME Inv, UNCHANGED vars PROVE Inv'  OBVIOUS
<1>1. UNCHANGED <<pg, pc, task, handler, claim, status, sends, scenario>>
  BY DEF vars, store, memory, history, bounds
<1>2. Plain  BY <1>1, RowsFollow DEF Plain, Holds, Works, Inv, Typed
<1> QED  BY <1>2, PlainKeeps

LEMMA StepInv == Inv /\ [Next]_vars => Inv'
BY TaskInv, HandlerInv, CreatorInv, UserInv, ClosePlain, ProcessPlain, PlainKeeps, StutterInv
   DEF Next

LEMMA Invariance == Spec => []Inv
BY InitInv, StepInv, PTL DEF Spec

(* In every scenario, a request whose outcome is not known is never sent   *)
(* again unless the user confirmed it: there is at most one request more   *)
(* than there are confirmations, however often the run is interrupted,     *)
(* fenced, resumed or restored (RunService.resume and the journal).        *)
THEOREM RequestsAreConfirmed == Spec => []NoSilentResend
<1>1. Inv => NoSilentResend  BY DEF Inv, Sendable, NoSilentResend
<1> QED  BY <1>1, Invariance, PTL

-----------------------------------------------------------------------------
(* Where the three coroutines are, and who they are.                       *)

CreatorAt == pc["creator"]
TaskAt == pc["task"]
HandlerAt == pc["handler"]

Kinds ==
  /\ status \in RunStatus \cup Missing /\ mode \in {"up", "down", "starting"}
  /\ delivery \in Procs \cup {"free"} /\ receipts \subseteq DOMAIN pg.outbox
  /\ crashes \in Nat /\ faults \in Nat /\ storeFaults \in Nat

(* An operation is at one of its own places, and only one thing at a time  *)
(* is made of the run: what creates it, its task, or a startup.            *)
Operating ==
  /\ handler.op = "none" => HandlerAt = "idle"
  /\ handler.op = "launch" => HandlerAt \in {"bind", "initial", "interrupt"}
  /\ handler.op = "approve" => HandlerAt = "claim"
  /\ handler.op = "resume" => HandlerAt \in {"claim", "emit", "flush", "mark"}
  /\ handler.op = "cancel" => HandlerAt \in {"lock", "commit", "await"}
  /\ handler.op = "delete" => HandlerAt \in {"lock", "commit"}
  /\ handler.op = "close" => HandlerAt \in {"await", "interrupt"}
  /\ handler.op = "startup" => HandlerAt \in {"recover", "tombstone", "flush", "mark", "settle"}
  /\ handler.op = "settled" => HandlerAt \in {"emit", "flush", "mark"}

Placed ==
  /\ CreatorAt \in {"idle", "reserved", "bind", "initial"}
  /\ TaskAt \in {"idle", "begin", "run", "call", "apply", "emit", "flush", "mark", "complete",
                 "interrupt", "release"}
  /\ mode = "starting" <=> handler.op \in {"startup", "settled"}
  /\ mode # "up" => CreatorAt = "idle" /\ TaskAt = "idle"
  /\ mode = "down" => HandlerAt = "idle"
  /\ CreatorAt # "idle" =>
       /\ TaskAt = "idle" /\ status \in {"pending", "gone"} \cup Terminal
       /\ handler.op \in {"none", "cancel", "delete"}
  /\ HandlerAt = "await" => CreatorAt = "idle" /\ TaskAt \in {"idle", "release"}
  /\ HandlerAt = "interrupt" => CreatorAt = "idle" /\ TaskAt = "idle"
  /\ handler.op = "launch" => CreatorAt = "idle" /\ TaskAt = "idle" /\ status = "pending"
  /\ TaskAt = "mark" \/ (TaskAt = "flush" /\ status # "running") => delivery = "task"
  /\ HandlerAt \in {"mark", "commit"} => delivery = "handler"

(* Nothing was done for a run that is not bound, and nothing was emitted   *)
(* for one whose graph has not started.                                    *)
Young ==
  /\ ~pg.bound => pg.stage = "none" /\ pg.owner = 0
  /\ TaskAt # "idle" \/ CreatorAt = "initial" \/ HandlerAt = "initial" => pg.bound
  /\ pg.stage = "none" => pg.outbox = << >> /\ pg.call = "none"
  /\ CreatorAt # "idle" => pg.stage = "none"
  /\ status = "none" => ~pg.bound /\ TaskAt = "idle" /\ handler.op \in {"none", "startup"}
  /\ status \in {"none", "pending"} =>
       /\ pg.stage = "none" /\ TaskAt \in {"idle", "begin"}
       /\ handler.op \in {"none", "launch", "cancel", "close", "startup"}

(* What the status and the graph are while somebody works on the run.      *)
Following ==
  /\ TaskAt \in {"run", "call", "apply", "emit"} => status = "running"
  /\ TaskAt \in {"flush", "mark"} => status \in {"running"} \cup Terminal
  /\ TaskAt \in {"complete", "interrupt"} => status \notin {"none", "pending", "interrupted"}
  /\ TaskAt = "begin" => status \in {"pending", "gone"} \cup Terminal
  /\ TaskAt = "run" => pg.stage # "final"
  /\ TaskAt = "call" => pg.stage = "working"
  /\ TaskAt = "apply" => pg.stage \in {"approval", "final"}
  /\ TaskAt \in {"emit", "flush", "mark"} => pg.stage = "final"
  /\ status = "waiting_approval" => pg.stage = "approval"
  /\ handler.op = "approve" => status \in {"waiting_approval", "interrupted"} /\ pg.stage = "approval"
  /\ handler.op = "resume" =>
       /\ TaskAt \in {"idle", "release"}
       /\ status = "interrupted" \/ (status = "running" /\ HandlerAt \in {"flush", "mark"})
       /\ HandlerAt # "claim" => pg.stage \notin {"none", "final"} /\ ~pg.cancelRequested /\ ~pg.deleted
  /\ handler.op = "settled" => pg.stage = "final" /\ ~pg.cancelRequested
  /\ handler.op = "delete" => status \in Terminal
  /\ handler.op = "cancel" /\ HandlerAt = "await" => pg.cancelRequested

(* What a startup has established at each of its places.                   *)
Booting ==
  mode = "starting" =>
    /\ HandlerAt # "recover" => pg.bound /\ pg.owner = 0 /\ pg.call # "dispatched"
    /\ HandlerAt \in {"flush", "mark", "settle", "emit"} => status \in RunStatus /\ ~pg.deleted
    /\ HandlerAt = "tombstone" => status \in Missing
    /\ HandlerAt = "emit" => status \notin Terminal

(* Events that would still change the status, and among them those of a    *)
(* resume.                                                                 *)
Unseen == Undelivered \ receipts
Fresh == {i \in Unseen : pg.outbox[i].patch = "running"}
Ends(i) == pg.outbox[i].patch \in Terminal

(* The outcome of the graph is the last event, and a status that ended     *)
(* without it ended by a failure of SQLite.                                *)
Events ==
  /\ \A i \in DOMAIN pg.outbox :
       /\ pg.outbox[i].state = "discarded" => pg.cancelRequested
       /\ Ends(i) =>
            /\ pg.stage = "final" /\ pg.outbox[i].patch = pg.final /\ i = Len(pg.outbox)
            /\ i \in receipts \/ pg.outbox[i].state = "delivered" => status \in Terminal \cup {"gone"}
            /\ i \in Unseen /\ status \in Terminal =>
                 status = pg.outbox[i].patch \/ (status = "failed" /\ storeFaults > 0)
  /\ TaskAt = "mark" \/ HandlerAt = "mark" => Undelivered # {} /\ First \in receipts
  /\ Fresh # {} => status \notin Terminal \cup {"waiting_approval"} /\ TaskAt \in {"idle", "release"} /\ handler.op # "approve"
  /\ handler.op = "resume" /\ HandlerAt \in {"flush", "mark"} => status = "running" \/ Fresh # {}
  /\ handler.op = "settled" /\ HandlerAt # "emit" => \E i \in DOMAIN pg.outbox : Ends(i)
  /\ HandlerAt = "settle" => Undelivered = {}

Flat == Operating /\ Placed /\ Young /\ Following /\ Booting
Story == Kinds /\ Flat /\ Events

-----------------------------------------------------------------------------
(* What the transactions do to the fields of the row.                      *)

Same(q) ==
  /\ q.bound = pg.bound /\ q.stage = pg.stage /\ q.final = pg.final
  /\ q.version = pg.version /\ q.accepted = pg.accepted /\ q.decided = pg.decided
  /\ q.initial = pg.initial

LEMMA RecoveredRow ==
  ASSUME Typed
  PROVE  /\ Same(Recovered) /\ Recovered.owner = 0 /\ Recovered.call # "dispatched"
         /\ Recovered.cancelRequested = pg.cancelRequested /\ Recovered.deleted = pg.deleted
         /\ Recovered.outbox = pg.outbox /\ Recovered.epoch = pg.epoch + 1
         /\ pg.call = "none" => Recovered.call = "none"
<1> DEFINE n == pg.epoch + 1  c == IF pg.call = "dispatched" THEN "unknown" ELSE pg.call
<1>1. Recovered = [pg EXCEPT !.owner = 0, !.epoch = n, !.call = c]  BY DEF Recovered
<1>2. c # "dispatched" /\ (pg.call = "none" => c = "none") /\ n = pg.epoch + 1  OBVIOUS
<1> HIDE DEF n, c
<1> QED  BY <1>1, <1>2 DEF Typed, Row, Same

LEMMA CancelledRow ==
  ASSUME Typed, NEW d \in BOOLEAN
  PROVE  /\ Same(Cancelled(d)) /\ Cancelled(d).owner = 0 /\ Cancelled(d).call = pg.call
         /\ Cancelled(d).cancelRequested /\ Cancelled(d).deleted = (pg.deleted \/ d)
         /\ Cancelled(d).epoch = pg.epoch + 1
         /\ Cancelled(d).outbox = [i \in DOMAIN pg.outbox |-> Discard(pg.outbox[i])]
         /\ pg.outbox = << >> => Cancelled(d).outbox = << >>
<1> DEFINE n == pg.epoch + 1  b == pg.deleted \/ d
           box == [i \in DOMAIN pg.outbox |-> Discard(pg.outbox[i])]
<1>1. Cancelled(d) = [pg EXCEPT !.cancelRequested = TRUE, !.deleted = b, !.owner = 0, !.epoch = n,
                                !.outbox = box]
  BY DEF Cancelled, Typed, Row
<1>2. pg.outbox = << >> => box = << >>  OBVIOUS
<1>3. n = pg.epoch + 1 /\ b = (pg.deleted \/ d)  OBVIOUS
<1> HIDE DEF n, b, box
<1>4. /\ Same(Cancelled(d)) /\ Cancelled(d).owner = 0 /\ Cancelled(d).call = pg.call
      /\ Cancelled(d).cancelRequested /\ Cancelled(d).deleted = b
      /\ Cancelled(d).epoch = n /\ Cancelled(d).outbox = box
  BY <1>1 DEF Typed, Row, Same
<1> QED  BY <1>2, <1>3, <1>4 DEF box

LEMMA ClaimedRow ==
  ASSUME Typed
  PROVE  /\ Same(Claimed) /\ Claimed \in Row
         /\ Claimed.cancelRequested = pg.cancelRequested /\ Claimed.deleted = pg.deleted
         /\ Claimed.outbox = pg.outbox /\ Claimed.call = pg.call /\ Claimed.acks = pg.acks
         /\ Claimed.epoch = pg.epoch + 1 /\ Claimed.owner = pg.epoch + 1
<1> DEFINE n == pg.epoch + 1
<1>1. n \in Nat /\ n = pg.epoch + 1  BY DEF Typed, Row
<1>2. Claimed = [pg EXCEPT !.owner = n, !.epoch = n]  BY DEF Claimed
<1> HIDE DEF n
<1> QED  BY <1>1, <1>2 DEF Typed, Row, Same

-----------------------------------------------------------------------------
(* The outbox.                                                             *)

LEMMA Outbox ==
  ASSUME Typed
  PROVE  /\ pg.outbox \in Seq(Event) /\ Len(pg.outbox) \in Nat /\ DOMAIN pg.outbox = 1..Len(pg.outbox)
         /\ \A i \in DOMAIN pg.outbox : pg.outbox[i] \in Event
<1>1. pg.outbox \in Seq(Event)  BY DEF Typed, Row
<1> QED  BY <1>1

(* After a cancellation only a cancellation is delivered, and without      *)
(* events nothing.                                                         *)
LEMMA NothingFresh ==
  /\ pg.cancelRequested => Fresh = {} /\ \A i \in Unseen : pg.outbox[i].patch = "cancelled"
  /\ pg.outbox = << >> => Undelivered = {} /\ Fresh = {} /\ Unseen = {}
BY DEF Fresh, Unseen, Undelivered

(* A step that leaves the events and their receipts alone.                 *)
Idle ==
  /\ pg'.outbox = pg.outbox /\ pg'.cancelRequested = pg.cancelRequested /\ receipts' = receipts
  /\ storeFaults' \in Nat /\ storeFaults' >= storeFaults
  /\ (\E i \in DOMAIN pg.outbox : Ends(i)) => pg'.stage = pg.stage /\ pg'.final = pg.final

(* The status that it may show then.                                       *)
Shows ==
  /\ status \in Terminal \cup {"gone"} => status' \in Terminal \cup {"gone"}
  /\ status' \in Terminal /\ status' # status =>
       /\ Fresh = {}
       /\ \A i \in Unseen : Ends(i) =>
            status' = pg.outbox[i].patch \/ (status' = "failed" /\ storeFaults' > 0)
  /\ status' = "waiting_approval" => status = "waiting_approval" \/ Fresh = {}
  /\ TaskAt' \notin {"idle", "release"} => TaskAt \notin {"idle", "release"} \/ Fresh = {}
  /\ handler'.op = "approve" => handler.op = "approve" \/ Fresh = {}
  /\ TaskAt' = "mark" => TaskAt = "mark"
  /\ HandlerAt' = "mark" => HandlerAt = "mark"
  /\ HandlerAt' = "settle" => HandlerAt = "settle" \/ Undelivered = {}
  /\ handler'.op = "resume" /\ HandlerAt' \in {"flush", "mark"} =>
       handler.op = "resume" /\ HandlerAt \in {"flush", "mark"} /\ status' = status
  /\ handler'.op = "settled" /\ HandlerAt' # "emit" =>
       (handler.op = "settled" /\ HandlerAt # "emit") \/ \E i \in DOMAIN pg.outbox : Ends(i)

LEMMA EventsStay ==
  ASSUME Inv, Kinds, Events, Idle, Shows
  PROVE  Events'
<1>1. Undelivered' = Undelivered  BY DEF Idle, Undelivered
<1>2. Unseen' = Unseen  BY <1>1 DEF Idle, Unseen
<1>3. Fresh' = Fresh  BY <1>2 DEF Idle, Fresh
<1>4. First' = First  BY <1>1 DEF First
<1>5. \A i : Ends(i)' = Ends(i)  BY DEF Idle, Ends
<1>6. ASSUME NEW i \in DOMAIN pg.outbox
      PROVE  /\ pg.outbox[i].state = "discarded" => pg'.cancelRequested
             /\ Ends(i) =>
                  /\ pg'.stage = "final" /\ pg.outbox[i].patch = pg'.final /\ i = Len(pg.outbox)
                  /\ i \in receipts \/ pg.outbox[i].state = "delivered" => status' \in Terminal \cup {"gone"}
                  /\ i \in Unseen /\ status' \in Terminal =>
                       status' = pg.outbox[i].patch \/ (status' = "failed" /\ storeFaults' > 0)
  <2>1. /\ pg.outbox[i].state = "discarded" => pg.cancelRequested
        /\ Ends(i) =>
             /\ pg.stage = "final" /\ pg.outbox[i].patch = pg.final /\ i = Len(pg.outbox)
             /\ i \in receipts \/ pg.outbox[i].state = "delivered" => status \in Terminal \cup {"gone"}
             /\ i \in Unseen /\ status \in Terminal =>
                  status = pg.outbox[i].patch \/ (status = "failed" /\ storeFaults > 0)
    BY DEF Events
  <2>2. /\ pg'.cancelRequested = pg.cancelRequested
        /\ Ends(i) => pg'.stage = pg.stage /\ pg'.final = pg.final
        /\ storeFaults > 0 => storeFaults' > 0
    BY DEF Idle, Kinds
  <2>3. /\ status \in Terminal \cup {"gone"} => status' \in Terminal \cup {"gone"}
        /\ status' \in Terminal /\ status' # status /\ i \in Unseen /\ Ends(i) =>
             status' = pg.outbox[i].patch \/ (status' = "failed" /\ storeFaults' > 0)
    BY DEF Shows
  <2> QED  BY <2>1, <2>2, <2>3
<1>7. \A i \in DOMAIN pg'.outbox :
        /\ pg'.outbox[i].state = "discarded" => pg'.cancelRequested
        /\ Ends(i)' =>
             /\ pg'.stage = "final" /\ pg'.outbox[i].patch = pg'.final /\ i = Len(pg'.outbox)
             /\ i \in receipts' \/ pg'.outbox[i].state = "delivered" => status' \in Terminal \cup {"gone"}
             /\ i \in Unseen' /\ status' \in Terminal =>
                  status' = pg'.outbox[i].patch \/ (status' = "failed" /\ storeFaults' > 0)
  BY <1>2, <1>5, <1>6 DEF Idle
<1>8. /\ TaskAt' = "mark" \/ HandlerAt' = "mark" => Undelivered' # {} /\ First' \in receipts'
      /\ Fresh' # {} => /\ status' \notin Terminal \cup {"waiting_approval"} /\ handler'.op # "approve"
                        /\ TaskAt' \in {"idle", "release"}
      /\ handler'.op = "resume" /\ HandlerAt' \in {"flush", "mark"} => status' = "running" \/ Fresh' # {}
      /\ HandlerAt' = "settle" => Undelivered' = {}
  BY <1>1, <1>3, <1>4 DEF Events, Idle, Shows
<1>9. handler'.op = "settled" /\ HandlerAt' # "emit" => \E i \in DOMAIN pg'.outbox : Ends(i)'
  BY <1>5 DEF Events, Idle, Shows
<1> QED  BY <1>7, <1>8, <1>9 DEF Events

LEMMA EventFacts ==
  ASSUME Events
  PROVE  /\ (\E i \in DOMAIN pg.outbox : Ends(i)) => pg.stage = "final"
         /\ (\E i \in Unseen : Ends(i)) => pg.stage = "final"
         /\ Fresh # {} => status \notin Terminal \cup {"waiting_approval"} /\ TaskAt \in {"idle", "release"} /\ handler.op # "approve"
         /\ status \in Terminal =>
              \A i \in Unseen : Ends(i) => status = pg.outbox[i].patch \/ (status = "failed" /\ storeFaults > 0)
<1>1. Unseen \subseteq DOMAIN pg.outbox  BY DEF Unseen, Undelivered
<1> QED  BY <1>1 DEF Events

-----------------------------------------------------------------------------
(* Each step keeps the places, and what status and graph are meanwhile.    *)

LEMMA GraphFlat ==
  ASSUME Inv, Kinds, Flat, NEW new, NEW next, Graph("run", new, next), Moved(new, next)
  PROVE  Flat'
<1> USE DEF Inv, Typed, Kinds, Flat, CreatorAt, TaskAt, HandlerAt, Row, Labels, Procs, Terminal, Missing, RunStatus,
            Go, At, Lost, GiveUp, Interrupts, Unlock, Still, bounds, store, history
<1>1. /\ TaskAt = "run" /\ CreatorAt' = CreatorAt /\ HandlerAt' = HandlerAt
      /\ TaskAt' \in {"interrupt", next} /\ UNCHANGED <<status, handler, mode>>
      /\ delivery' \in {delivery, "free"} /\ (delivery = "handler" => delivery' = delivery)
  BY DEF Graph
<1>2. \/ UNCHANGED pg /\ TaskAt' = "interrupt"
      \/ pg' = new /\ pg.bound
  BY DEF Graph, Valid, Young
<1>3. CASE pg' = pg /\ TaskAt' = "interrupt"
  BY <1>1, <1>3 DEF Operating, Placed, Young, Following, Booting
<1>4. CASE pg' = new /\ pg.bound
  <2>0. /\ new.bound = pg.bound /\ new.owner = pg.owner /\ new.outbox = pg.outbox
        /\ new.cancelRequested = pg.cancelRequested /\ new.deleted = pg.deleted
        /\ new.stage # "none" /\ next = IF new.stage = "final" THEN "apply" ELSE "run"
    BY DEF Moved, Route
  <2>1. Operating' /\ Placed'  BY <1>1, <1>4, <2>0 DEF Operating, Placed
  <2>2. Young'  BY <1>1, <1>4, <2>0 DEF Placed, Young, Following
  <2>3. Following'  BY <1>1, <1>4, <2>0 DEF Placed, Following
  <2>4. Booting'  BY <1>1, <1>4 DEF Placed, Booting
  <2> QED  BY <2>1, <2>2, <2>3, <2>4
<1> QED  BY <1>2, <1>3, <1>4

LEMMA GraphEvents ==
  ASSUME Inv, Kinds, Flat, Events, NEW new, NEW next, Graph("run", new, next), Moved(new, next)
  PROVE  Kinds' /\ Events'
<1>1. (\E i \in DOMAIN pg.outbox : Ends(i)) => pg.stage = "final"  BY EventFacts
<1>2. /\ TaskAt = "run" /\ HandlerAt' = HandlerAt /\ TaskAt' \in {"interrupt", next}
      /\ UNCHANGED <<status, receipts, handler, mode, crashes, storeFaults>>
      /\ delivery' \in {delivery, "free"} /\ faults' \in {faults, faults + 1} /\ pg' \in {pg, new}
  BY DEF Graph, Go, At, TaskAt, HandlerAt, Lost, GiveUp, Interrupts, Unlock, Still, bounds, store,
         Inv, Typed, Procs, Labels
<1>3. Idle  BY <1>1, <1>2 DEF Idle, Moved, Kinds, Flat, Following
<1>4. Shows  BY <1>2 DEF Shows, Moved
<1>5. Kinds'  BY <1>2, <1>3 DEF Kinds, Idle
<1> QED  BY <1>3, <1>4, <1>5, EventsStay

LEMMA StageStory == ASSUME Inv, Story, StageStep PROVE Story'
<1>1. PICK new, next : Moved(new, next) /\ Graph("run", new, next)  BY StageShape
<1> QED  BY <1>1, GraphFlat, GraphEvents DEF Story

LEMMA TaskFlat ==
  ASSUME Inv, Kinds, Flat,
         \/ Begin \/ Pause \/ Send \/ Blocked \/ Answered \/ Unanswered \/ Raise \/ Apply \/ Complete
         \/ Interrupt("task") \/ Release
  PROVE  Flat'
<1> USE DEF Inv, Typed, Kinds, Flat, Operating, Placed, Young, Following, Booting, CreatorAt, TaskAt,
            HandlerAt, Row, Labels, Procs, Terminal, Missing, RunStatus, Go, At, Lost, GiveUp,
            Interrupts, Unlock, Still, bounds, store, history
<1>1. CASE Begin  BY SMTT(30), <1>1 DEF Begin, MayMove, Allowed
<1>2. CASE Pause  BY SMTT(30), <1>2 DEF Pause
<1>3. CASE Send  BY SMTT(30), <1>3 DEF Send, Graph
<1>4. CASE Blocked  BY SMTT(30), <1>4 DEF Blocked
<1>5. CASE Answered  BY SMTT(30), <1>5 DEF Answered, Graph
<1>6. CASE Unanswered  BY SMTT(30), <1>6 DEF Unanswered, Graph
<1>7. CASE Raise  BY SMTT(30), <1>7 DEF Raise, Fail, Finally
<1>8. CASE Apply  BY SMTT(30), <1>8 DEF Apply, Fail, Finally, MayMove, Allowed
<1>9. CASE Complete  BY SMTT(30), <1>9 DEF Complete, Finally
<1>10. CASE Interrupt("task")
  BY SMTT(30), <1>10, RecoveredRow DEF Interrupt, Over, Finally, Same
<1>11. CASE Release  BY SMTT(30), <1>11 DEF Release, Released
<1> QED  BY <1>1, <1>2, <1>3, <1>4, <1>5, <1>6, <1>7, <1>8, <1>9, <1>10, <1>11

LEMMA CreatorFlat ==
  ASSUME Inv, Kinds, Flat,
         \/ \E reserved \in BOOLEAN : Create(reserved)
         \/ Launch
         \/ \E p \in {"creator", "handler"} : Bind(p) \/ ClaimInitial(p)
  PROVE  Flat'
<1> USE DEF Inv, Typed, Kinds, Flat, Operating, Placed, Young, Following, Booting, CreatorAt, TaskAt,
            HandlerAt, Row, Labels, Procs, Terminal, Missing, RunStatus, Go, At, Lost, GiveUp,
            Interrupts, Unlock, Still, bounds, store, history, Answer, NoHandler, Holding
<1>1. CASE \E reserved \in BOOLEAN : Create(reserved)  BY SMTT(30), <1>1 DEF Create
<1>2. CASE Launch  BY SMTT(30), <1>2 DEF Launch
<1>3. ASSUME NEW p \in {"creator", "handler"}, Bind(p) PROVE Flat'  BY SMTT(30), <1>3 DEF Bind
<1>4. ASSUME NEW p \in {"creator", "handler"}, ClaimInitial(p) PROVE Flat'
  <2> DEFINE new == [Claimed EXCEPT !.initial = TRUE]
  <2>1. /\ new.bound = pg.bound /\ new.stage = pg.stage /\ new.outbox = pg.outbox /\ new.call = pg.call
        /\ new.cancelRequested = pg.cancelRequested /\ new.deleted = pg.deleted
    BY ClaimedRow DEF Same
  <2>2. /\ pc[p] = "initial" /\ TaskAt = "idle" /\ mode = "up" /\ UNCHANGED <<status, mode>>
        /\ delivery' \in {delivery, "free"} /\ (delivery # p => delivery' = delivery)
        /\ pg' = pg \/ (pg' = new /\ pg.bound)
    BY <1>4 DEF ClaimInitial
  <2>3. p = "creator" => HandlerAt' = HandlerAt /\ handler' = handler
    BY <1>4 DEF ClaimInitial
  <2>4. p = "handler" => /\ handler.op = "launch" /\ CreatorAt' = CreatorAt
                         /\ \/ handler' = NoHandler /\ HandlerAt' = "idle"
                            \/ handler' = handler /\ HandlerAt' = "interrupt" /\ TaskAt' = "idle"
    BY <1>4 DEF ClaimInitial
  <2>5. /\ p = "creator" => CreatorAt' = "idle"
        /\ TaskAt' \in {"idle", "begin"}
    BY <1>4 DEF ClaimInitial
  <2> HIDE DEF new
  <2>6. Operating' /\ Booting'  BY <2>1, <2>2, <2>3, <2>4, <2>5
  <2>7. Placed'  BY <2>1, <2>2, <2>3, <2>4, <2>5
  <2>8. Young'  BY <2>1, <2>2, <2>3, <2>4, <2>5
  <2>9. Following'  BY <2>1, <2>2, <2>3, <2>4, <2>5
  <2> QED  BY <2>6, <2>7, <2>8, <2>9
<1> QED  BY <1>1, <1>2, <1>3, <1>4

LEMMA CommandFlat ==
  ASSUME Inv, Kinds, Flat,
         \/ \E decision \in {"approve", "reject"} : Approve(decision)
         \/ Resume \/ Cancel \/ Delete \/ Lock \/ Await
  PROVE  Flat'
<1> USE DEF Inv, Typed, Kinds, Flat, Operating, Placed, Young, Following, Booting, CreatorAt, TaskAt,
            HandlerAt, Row, Labels, Procs, Terminal, Missing, RunStatus, Go, At, Still, bounds, store, history,
            Answer, NoHandler, Holding
<1>1. CASE \E decision \in {"approve", "reject"} : Approve(decision)
  BY SMTT(30), <1>1 DEF Approve, Command
<1>2. CASE Resume \/ Cancel \/ Delete  BY SMTT(30), <1>2 DEF Resume, Cancel, Delete, Command
<1>3. CASE Lock  BY SMTT(30), <1>3 DEF Lock
<1>4. CASE Await  BY SMTT(30), <1>4 DEF Await, EndedByUser
<1> QED  BY <1>1, <1>2, <1>3, <1>4

LEMMA TaskEvents ==
  ASSUME Inv, Kinds, Flat, Events,
         \/ Begin \/ Pause \/ Send \/ Blocked \/ Answered \/ Unanswered \/ Raise \/ Apply \/ Complete
         \/ Interrupt("task") \/ Release
  PROVE  Kinds' /\ Events'
<1>0. /\ Fresh # {} => status \notin Terminal \cup {"waiting_approval"} /\ TaskAt \in {"idle", "release"}
      /\ status \in {"none", "pending"} => Fresh = {} /\ Unseen = {}
      /\ (\E i \in DOMAIN pg.outbox : Ends(i)) => pg.stage = "final"
      /\ (\E i \in Unseen : Ends(i)) => pg.stage = "final"
  BY EventFacts, NothingFresh DEF Flat, Young
<1> SUFFICES Idle /\ Shows /\ Kinds'  BY EventsStay
<1> USE <1>0 DEF Inv, Typed, Kinds, Flat, Placed, Following, TaskAt, HandlerAt, Row, Labels, Procs,
        Terminal, Missing, RunStatus, Go, At, Lost, GiveUp, Interrupts, Unlock, Still, bounds, store,
        history, Idle, Shows
<1>1. CASE Begin  BY SMTT(30), <1>1 DEF Begin, MayMove, Allowed
<1>2. CASE Pause  BY SMTT(30), <1>2 DEF Pause
<1>3. CASE Send  BY SMTT(30), <1>3 DEF Send, Graph
<1>4. CASE Blocked  BY SMTT(30), <1>4 DEF Blocked
<1>5. CASE Answered  BY SMTT(30), <1>5 DEF Answered, Graph
<1>6. CASE Unanswered  BY SMTT(30), <1>6 DEF Unanswered, Graph
<1>7. CASE Raise  BY SMTT(30), <1>7 DEF Raise, Fail, Finally
<1>8. CASE Apply  BY SMTT(30), <1>8 DEF Apply, Fail, Finally, MayMove, Allowed
<1>9. CASE Complete  BY SMTT(30), <1>9 DEF Complete, Finally
<1>10. CASE Interrupt("task")
  BY SMTT(30), <1>10, RecoveredRow DEF Interrupt, Over, Finally, Same
<1>11. CASE Release  BY SMTT(30), <1>11 DEF Release, Released
<1> QED  BY <1>1, <1>2, <1>3, <1>4, <1>5, <1>6, <1>7, <1>8, <1>9, <1>10, <1>11

LEMMA OperationEvents ==
  ASSUME Inv, Kinds, Flat, Events,
         \/ \E reserved \in BOOLEAN : Create(reserved)
         \/ Launch
         \/ \E p \in {"creator", "handler"} : Bind(p) \/ ClaimInitial(p)
         \/ \E decision \in {"approve", "reject"} : Approve(decision)
         \/ Resume \/ Cancel \/ Delete \/ Lock \/ Await
         \/ ClaimApproval \/ (\E confirm \in BOOLEAN : ClaimResume(confirm))
         \/ Settle \/ Close \/ Crash \/ Restart \/ Interrupt("handler") \/ UNCHANGED vars
  PROVE  Kinds' /\ Events'
<1>0. /\ Fresh # {} => status \notin Terminal \cup {"waiting_approval"} /\ TaskAt \in {"idle", "release"}
      /\ status \in {"none", "pending"} \/ CreatorAt # "idle" => Fresh = {} /\ Unseen = {}
      /\ (\E i \in DOMAIN pg.outbox : Ends(i)) => pg.stage = "final"
      /\ (\E i \in Unseen : Ends(i)) => pg.stage = "final"
      /\ pg.cancelRequested => Fresh = {} /\ \A i \in Unseen : pg.outbox[i].patch = "cancelled"
      /\ handler.op = "approve" => Fresh = {}
      /\ HandlerAt = "settle" => Undelivered = {}
      /\ Undelivered = {} => Fresh = {} /\ Unseen = {}
  BY EventFacts, NothingFresh DEF Flat, Young, Events, Unseen, Fresh
<1>resumed. ASSUME NEW confirm \in BOOLEAN, ClaimResume(confirm) PROVE handler'.op \in {"none", "resume"}
  <2>1. handler \in Holding /\ handler.op = "resume"  BY <1>resumed DEF Inv, Typed, ClaimResume
  <2>2. handler' \in {handler, NoHandler}
        \/ \E c, d : handler' = [handler EXCEPT !.claim = c, !.command = d]
    BY <1>resumed DEF ClaimResume, GiveUp
  <2>3. ASSUME NEW c, NEW d, handler' = [handler EXCEPT !.claim = c, !.command = d]
        PROVE  handler'.op = "resume"
    <3> DEFINE h == [handler EXCEPT !.claim = c]
    <3>1. h.op = "resume" /\ DOMAIN h = DOMAIN handler  BY <2>1 DEF Holding
    <3>2. handler' = [h EXCEPT !.command = d]  BY <2>3
    <3> HIDE DEF h
    <3> QED  BY <2>1, <3>1, <3>2 DEF Holding
  <2>4. NoHandler.op = "none"  BY DEF NoHandler
  <2> QED  BY <2>1, <2>2, <2>3, <2>4
<1> SUFFICES Idle /\ Shows /\ Kinds'  BY EventsStay
<1> USE <1>0 DEF Inv, Typed, Kinds, Flat, Operating, Placed, Following, TaskAt, HandlerAt, Row, Labels, Procs,
        Terminal, Missing, RunStatus, Go, At, Lost, GiveUp, Interrupts, Unlock, Still, bounds, store,
        history, Idle, Shows, Answer, NoHandler, Holding
<1>1. CASE \E reserved \in BOOLEAN : Create(reserved)  BY SMTT(30), <1>1 DEF Create
<1>2. CASE Launch  BY SMTT(30), <1>2 DEF Launch
<1>3. ASSUME NEW p \in {"creator", "handler"}, Bind(p) PROVE Idle /\ Shows /\ Kinds'
  <2> DEFINE new == [pg EXCEPT !.bound = TRUE]
  <2>1. /\ new.outbox = pg.outbox /\ new.cancelRequested = pg.cancelRequested
        /\ new.stage = pg.stage /\ new.final = pg.final
    OBVIOUS
  <2>2. pc[p] = "bind" /\ pg' \in {pg, new} /\ UNCHANGED <<receipts, mode, crashes, storeFaults>>
        /\ faults' \in {faults, faults + 1} /\ delivery' \in {delivery, "free"}
    BY <1>3 DEF Bind
  <2>3. /\ HandlerAt' \in {HandlerAt, "initial", "interrupt", "idle"} /\ TaskAt' = TaskAt
        /\ handler' \in {handler, NoHandler}
        /\ p = "creator" => handler' = handler /\ HandlerAt' = HandlerAt /\ status' = status
        /\ p = "handler" => handler.op = "launch" /\ status' \in {status, "failed"}
    BY <1>3 DEF Bind
  <2> HIDE DEF new
  <2>4. Idle  BY <2>1, <2>2
  <2>5. Shows  BY <2>1, <2>2, <2>3
  <2>6. Kinds'  BY <2>1, <2>2, <2>3
  <2> QED  BY <2>4, <2>5, <2>6
<1>4. ASSUME NEW p \in {"creator", "handler"}, ClaimInitial(p) PROVE Idle /\ Shows /\ Kinds'
  <2> DEFINE new == [Claimed EXCEPT !.initial = TRUE]
  <2>1. /\ new.outbox = pg.outbox /\ new.cancelRequested = pg.cancelRequested
        /\ new.stage = pg.stage /\ new.final = pg.final
    BY ClaimedRow DEF Same
  <2>2. /\ pc[p] = "initial" /\ pg' \in {pg, new}
        /\ UNCHANGED <<status, receipts, mode, crashes, storeFaults>>
        /\ faults' \in {faults, faults + 1} /\ delivery' \in {delivery, "free"}
    BY <1>4 DEF ClaimInitial
  <2>3. /\ HandlerAt' \in {HandlerAt, "interrupt", "idle"} /\ TaskAt' \in {TaskAt, "begin"}
        /\ handler' \in {handler, NoHandler}
        /\ p = "creator" => handler' = handler /\ HandlerAt' = HandlerAt
        /\ p = "handler" => handler.op = "launch"
    BY <1>4 DEF ClaimInitial
  <2>4. Fresh = {}  BY <2>2 DEF CreatorAt
  <2> HIDE DEF new
  <2>5. Idle  BY <2>1, <2>2
  <2>6. Shows  BY <2>1, <2>2, <2>3, <2>4
  <2>7. Kinds'  BY <2>1, <2>2, <2>3
  <2> QED  BY <2>5, <2>6, <2>7
<1>5. CASE \E decision \in {"approve", "reject"} : Approve(decision)
  BY SMTT(30), <1>5 DEF Approve, Command
<1>6. CASE Resume \/ Cancel \/ Delete  BY SMTT(30), <1>6 DEF Resume, Cancel, Delete, Command
<1>7. CASE Lock  BY SMTT(30), <1>7 DEF Lock
<1>8. CASE Await  BY SMTT(30), <1>8 DEF Await, EndedByUser
<1>9. CASE ClaimApproval
  <2> DEFINE new == Accepted(handler.command)
  <2>1. /\ new.outbox = pg.outbox /\ new.cancelRequested = pg.cancelRequested
        /\ new.stage = pg.stage /\ new.final = pg.final
    BY ClaimedRow DEF Accepted, Same
  <2>2. /\ handler.op = "approve" /\ HandlerAt = "claim" /\ HandlerAt' = "idle" /\ handler' = NoHandler
        /\ pg' \in {pg, new} /\ UNCHANGED <<receipts, mode, crashes, storeFaults>>
        /\ faults' \in {faults, faults + 1} /\ delivery' \in {delivery, "free"}
        /\ status' \in {status, "running"} /\ TaskAt' \in {TaskAt, "run"}
    BY <1>9 DEF ClaimApproval
  <2>3. status \in {"waiting_approval", "interrupted"} /\ pg.stage = "approval"  BY <2>2
  <2>4. Fresh = {}  BY <2>2
  <2> HIDE DEF new
  <2>5. Idle  BY <2>1, <2>2
  <2>6. Shows  BY <2>1, <2>2, <2>3, <2>4
  <2>7. Kinds'  BY <2>1, <2>2
  <2> QED  BY <2>5, <2>6, <2>7
<1>10. ASSUME NEW confirm \in BOOLEAN, ClaimResume(confirm) PROVE Idle /\ Shows /\ Kinds'
  <2> DEFINE new == [Claimed EXCEPT !.call = IF @ = "unknown" THEN "acknowledged" ELSE @,
                                    !.acks = IF pg.call = "unknown" THEN @ + 1 ELSE @]
  <2>1. /\ new.outbox = pg.outbox /\ new.cancelRequested = pg.cancelRequested
        /\ new.stage = pg.stage /\ new.final = pg.final
    BY ClaimedRow DEF Same
  <2>2. handler.op = "resume" /\ HandlerAt' \in {"idle", "emit"} /\ TaskAt' = TaskAt
    BY <1>10 DEF ClaimResume
  <2>3. handler'.op \in {"none", "resume"}  BY <1>10, <1>resumed
  <2>4. pg' \in {pg, new}  BY <1>10 DEF ClaimResume
  <2>5. /\ UNCHANGED <<status, receipts, mode, crashes, storeFaults>>
        /\ faults' \in {faults, faults + 1} /\ delivery' \in {delivery, "free"}
    BY <1>10 DEF ClaimResume
  <2> HIDE DEF new
  <2>6. Idle  BY <2>1, <2>4, <2>5
  <2>7. Shows  BY <2>2, <2>3, <2>5
  <2>8. Kinds'  BY <2>1, <2>4, <2>5
  <2> QED  BY <2>6, <2>7, <2>8
<1>11. CASE Settle
  <2>1. Idle  BY <1>11 DEF Settle
  <2>2. Fresh = {} /\ Unseen = {} /\ mode = "starting" /\ handler.op = "startup"
    BY <1>11 DEF Settle
  <2>3. status \notin Missing /\ TaskAt = "idle"  BY <1>11, <2>2 DEF Settle, Booting
  <2>4. status \in Terminal => status' = status
    <3>1. status \in Terminal => Projected = status  BY DEF Projected
    <3>2. status' = Projected \/ UNCHANGED status  BY <1>11 DEF Settle
    <3> QED  BY <3>1, <3>2
  <2>5. TaskAt' = TaskAt /\ HandlerAt' \in {"idle", "emit"}
    <3>1. CASE Go("handler", "emit")  BY <3>1
    <3>2. CASE Started  BY <3>2 DEF Started
    <3>3. CASE GiveUp("handler")  BY <2>2, <3>3
    <3> QED  BY <1>11, <3>1, <3>2, <3>3 DEF Settle
  <2>6. handler' \in {NoHandler, [NoHandler EXCEPT !.op = "settled"]}
    BY <1>11, <2>2 DEF Settle, Started
  <2>7. handler'.op \in {"none", "settled"}  BY <2>6
  <2>8. Shows
    <3>1. handler'.op = "settled" => HandlerAt' = "emit"
      BY <1>11, <2>2 DEF Settle, Started
    <3> QED  BY <2>2, <2>3, <2>4, <2>5, <2>7, <3>1
  <2>9. Kinds'  BY <1>11 DEF Settle, Projected, Started
  <2> QED  BY <2>1, <2>8, <2>9
<1>12. CASE Close  BY SMTT(30), <1>12 DEF Close, Kill, Finally
<1>13. CASE Crash  BY SMTT(30), <1>13 DEF Crash
<1>14. CASE Restart  BY SMTT(30), <1>14 DEF Restart
<1>15. CASE Interrupt("handler")
  BY SMTT(30), <1>15, RecoveredRow DEF Interrupt, Over, Same
<1>16. CASE UNCHANGED vars  BY SMTT(30), <1>16 DEF vars, memory
<1> QED
  BY <1>1, <1>2, <1>3, <1>4, <1>5, <1>6, <1>7, <1>8, <1>9, <1>10, <1>11, <1>12, <1>13, <1>14, <1>15, <1>16

LEMMA ClaimFlat ==
  ASSUME Inv, Kinds, Flat, ClaimApproval \/ \E confirm \in BOOLEAN : ClaimResume(confirm)
  PROVE  Flat'
<1> USE DEF Inv, Typed, Kinds, Flat, Operating, Placed, Young, Following, Booting, CreatorAt, TaskAt,
            HandlerAt, Labels, Procs, Terminal, Missing, RunStatus, Go, At, Lost, GiveUp,
            Interrupts, Unlock, Still, bounds, store, history, NoHandler, Holding
<1>1. CASE ClaimApproval
  <2> DEFINE new == Accepted(handler.command)
             granted == Claimable /\ pg.call # "unknown"
  <2>1. /\ new.bound = pg.bound /\ new.stage = pg.stage /\ new.outbox = pg.outbox /\ new.call = pg.call
        /\ new.cancelRequested = pg.cancelRequested /\ new.deleted = pg.deleted
    BY ClaimedRow DEF Accepted, Same, Row
  <2>2. granted => pg.bound  BY DEF Claimable
  <2>3. /\ handler.op = "approve" /\ HandlerAt = "claim" /\ HandlerAt' = "idle" /\ CreatorAt' = CreatorAt
        /\ handler' = NoHandler /\ delivery' \in {delivery, "free"}
        /\ delivery = "task" => delivery' = delivery
    BY <1>1 DEF ClaimApproval
  <2>4. pg' = pg \/ (granted /\ pg' = new)  BY <1>1 DEF ClaimApproval
  <2>5. \/ TaskAt' = TaskAt /\ UNCHANGED <<status, mode>>
        \/ TaskAt' = TaskAt /\ TaskAt # "idle" /\ status' = "running" /\ UNCHANGED mode
        \/ TaskAt = "idle" /\ TaskAt' = "run" /\ status' = "running" /\ UNCHANGED mode
    BY <1>1 DEF ClaimApproval, MayMove, Allowed
  <2> HIDE DEF new, granted
  <2> QED  BY SMTT(30), <2>1, <2>2, <2>3, <2>4, <2>5
<1>2. ASSUME NEW confirm \in BOOLEAN, ClaimResume(confirm) PROVE Flat'
  <2> DEFINE new == [Claimed EXCEPT !.call = IF @ = "unknown" THEN "acknowledged" ELSE @,
                                    !.acks = IF pg.call = "unknown" THEN @ + 1 ELSE @]
             granted == Resumable /\ (pg.call = "unknown" => confirm)
  <2>1. /\ new.bound = pg.bound /\ new.stage = pg.stage /\ new.outbox = pg.outbox
        /\ new.cancelRequested = pg.cancelRequested /\ new.deleted = pg.deleted
        /\ new.call = "none" <=> pg.call = "none"
    BY ClaimedRow DEF Same, Row
  <2>2. granted => /\ pg.bound /\ ~pg.deleted /\ ~pg.cancelRequested /\ pg.stage \notin {"none", "final"}
    BY DEF Resumable
  <2>3. /\ handler.op = "resume" /\ HandlerAt = "claim" /\ CreatorAt' = CreatorAt /\ TaskAt' = TaskAt
        /\ delivery' \in {delivery, "free"} /\ (delivery = "task" => delivery' = delivery)
        /\ UNCHANGED <<status, mode>>
    BY <1>2 DEF ClaimResume
  <2>4. pg' = pg \/ (granted /\ pg' = new)  BY <1>2 DEF ClaimResume
  <2>5. \/ HandlerAt' = "idle" /\ handler' = NoHandler
        \/ HandlerAt' = "emit" /\ handler'.op = "resume" /\ granted
    BY <1>2 DEF ClaimResume
  <2> HIDE DEF new, granted
  <2> QED  BY SMTT(30), <2>1, <2>2, <2>3, <2>4, <2>5
<1> QED  BY <1>1, <1>2

LEMMA CommitFlat == ASSUME Inv, Kinds, Flat, Commit PROVE Flat'
<1> USE DEF Inv, Typed, Kinds, Flat, Operating, Placed, Young, Following, Booting, CreatorAt, TaskAt,
            HandlerAt, Labels, Procs, Terminal, Missing, RunStatus, Go, At, Answer,
            Unlock, Still, bounds, store, history, NoHandler, Holding
<1> DEFINE cut == Cancelled(FALSE)  tomb == Cancelled(TRUE)
<1>1. \A q \in {cut, tomb} :
        /\ q.bound = pg.bound /\ q.stage = pg.stage /\ q.owner = 0 /\ q.call = pg.call /\ q.cancelRequested
        /\ pg.outbox = << >> => q.outbox = << >>
  BY CancelledRow DEF Same
<1>2. /\ HandlerAt = "commit" /\ CreatorAt' = CreatorAt /\ UNCHANGED mode
      /\ handler.op \in {"cancel", "delete"} /\ delivery' = "free"
  BY DEF Commit, GiveUp, Interrupts, Kill, Finally
<1>3. pg' = pg \/ (pg.bound /\ pg' \in {cut, tomb})
  BY DEF Commit, Lost
<1>4. \/ HandlerAt' = "idle" /\ handler' = NoHandler /\ TaskAt' = TaskAt /\ UNCHANGED status
      \/ /\ HandlerAt' = "idle" /\ handler' = NoHandler /\ TaskAt' = TaskAt
         /\ TaskAt = "idle" /\ status' = EndedByUser
      \/ /\ HandlerAt' = "idle" /\ handler' = NoHandler /\ TaskAt' = TaskAt
         /\ status' = "gone" /\ handler.op = "delete"
      \/ /\ handler.op = "cancel" /\ HandlerAt' = "await" /\ handler' = handler
         /\ TaskAt # "idle" /\ TaskAt' \in {"idle", "release"} /\ UNCHANGED status
         /\ TaskAt = "begin" => TaskAt' = "idle"
         /\ pg' = IF pg.bound THEN cut ELSE pg
  <2> HIDE DEF cut
  <2>1. CASE GiveUp("handler")  BY <1>2, <2>1 DEF GiveUp, Interrupts
  <2>2. CASE /\ handler.op = "cancel" /\ pg' = IF pg.bound THEN cut ELSE pg
             /\ IF pc["task"] = "idle"
                THEN Answer /\ status' = EndedByUser /\ UNCHANGED task
                ELSE /\ Kill(claim', [pc EXCEPT !["handler"] = "await"])
                     /\ UNCHANGED <<status, handler>>
    BY <2>2 DEF Kill, Finally
  <2>3. CASE handler.op = "delete" /\ status' = "gone" /\ Answer
    BY <2>3
  <2> QED  BY <2>1, <2>2, <2>3 DEF Commit, cut
<1> HIDE DEF cut, tomb
<1>5. Operating' /\ Booting'  BY <1>1, <1>2, <1>3, <1>4
<1>6. Placed'  BY <1>1, <1>2, <1>3, <1>4 DEF EndedByUser
<1>7. Young'  BY <1>1, <1>2, <1>3, <1>4 DEF EndedByUser
<1>8. Following'  BY <1>1, <1>2, <1>3, <1>4 DEF EndedByUser
<1> QED  BY <1>5, <1>6, <1>7, <1>8

LEMMA StartupFlat == ASSUME Inv, Kinds, Flat, Recover \/ Tombstone \/ Settle PROVE Flat'
<1> USE DEF Inv, Typed, Kinds, Flat, Operating, Placed, Young, Following, Booting, CreatorAt, TaskAt,
            HandlerAt, Labels, Procs, Terminal, Missing, RunStatus, Go, At, Lost, GiveUp,
            Interrupts, Unlock, Still, bounds, store, history, Answer, Started, NoHandler, Holding
<1>1. CASE Recover  BY SMTT(30), <1>1, RecoveredRow DEF Recover, Orphaned, Same
<1>2. CASE Tombstone
  <2> DEFINE tomb == Cancelled(TRUE)
  <2>1. /\ tomb.bound = pg.bound /\ tomb.stage = pg.stage /\ tomb.owner = 0 /\ tomb.call = pg.call
        /\ pg.outbox = << >> => tomb.outbox = << >>
    BY CancelledRow DEF Same
  <2>2. /\ HandlerAt = "tombstone" /\ mode = "starting" /\ handler.op = "startup"
        /\ HandlerAt' = "idle" /\ handler' = NoHandler /\ mode' \in {"up", "down"}
        /\ CreatorAt' = CreatorAt /\ TaskAt' = TaskAt /\ UNCHANGED status
        /\ pg' \in {pg, tomb}
    BY <1>2 DEF Tombstone
  <2> HIDE DEF tomb
  <2> QED  BY SMTT(30), <2>1, <2>2
<1>3. CASE Settle  BY SMTT(30), <1>3 DEF Settle, Projected
<1> QED  BY <1>1, <1>2, <1>3

LEMMA ProcessFlat ==
  ASSUME Inv, Kinds, Flat, Close \/ Crash \/ Restart \/ Restore \/ Interrupt("handler") \/ UNCHANGED vars
  PROVE  Flat'
<1> USE DEF Inv, Typed, Kinds, Flat, Operating, Placed, Young, Following, Booting, CreatorAt, TaskAt,
            HandlerAt, Labels, Procs, Terminal, Missing, RunStatus, Go, At, Unlock, Still, bounds, store,
            memory, history, NoHandler, Holding, Row
<1>1. CASE Close  BY SMTT(30), <1>1 DEF Close, Kill, Finally
<1>2. CASE Crash  BY SMTT(30), <1>2 DEF Crash
<1>3. CASE Restart  BY SMTT(30), <1>3 DEF Restart
<1>4. CASE Restore  BY SMTT(30), <1>4 DEF Restore
<1>5. CASE Interrupt("handler")
  BY SMTT(30), <1>5, RecoveredRow DEF Interrupt, Over, Same, Lost, Answer
<1>6. CASE UNCHANGED vars  BY SMTT(30), <1>6 DEF vars
<1> QED  BY <1>1, <1>2, <1>3, <1>4, <1>5, <1>6

(* A step after which the run is gone from SQLite, with its receipts.      *)
LEMMA ErasedEvents ==
  ASSUME Inv, Kinds, Flat, Events,
         pg'.outbox = pg.outbox, pg'.cancelRequested = pg.cancelRequested,
         pg'.stage = pg.stage, pg'.final = pg.final,
         status' = "gone", receipts' = {},
         HandlerAt' = "idle", handler'.op = "none", TaskAt' # "mark",
         TaskAt' \in {"idle", "release"} \/ pg.outbox = << >>
  PROVE  Events'
<1>1. \A i : Ends(i)' = Ends(i)  BY DEF Ends
<1>2. ASSUME NEW i \in DOMAIN pg.outbox
      PROVE  /\ pg.outbox[i].state = "discarded" => pg.cancelRequested
             /\ Ends(i) => pg.stage = "final" /\ pg.outbox[i].patch = pg.final /\ i = Len(pg.outbox)
  BY DEF Events
<1>3. pg.outbox = << >> => Fresh' = {}  BY DEF Fresh, Unseen, Undelivered
<1>4. status' \notin Terminal \cup {"waiting_approval"} /\ status' \in Terminal \cup {"gone"}
  BY DEF Terminal
<1>5. \A i \in DOMAIN pg'.outbox :
        /\ pg'.outbox[i].state = "discarded" => pg'.cancelRequested
        /\ Ends(i)' =>
             /\ pg'.stage = "final" /\ pg'.outbox[i].patch = pg'.final /\ i = Len(pg'.outbox)
             /\ i \in receipts' \/ pg'.outbox[i].state = "delivered" => status' \in Terminal \cup {"gone"}
             /\ i \in Unseen' /\ status' \in Terminal =>
                  status' = pg'.outbox[i].patch \/ (status' = "failed" /\ storeFaults' > 0)
  BY <1>1, <1>2, <1>4
<1> QED  BY <1>3, <1>4, <1>5 DEF Events

(* A cancellation discards what is not delivered, but for a cancellation.  *)
LEMMA CutEvents ==
  ASSUME Inv, Kinds, Flat, Events,
         pg'.outbox = [i \in DOMAIN pg.outbox |-> Discard(pg.outbox[i])], pg'.cancelRequested,
         pg'.stage = pg.stage, pg'.final = pg.final, storeFaults' = storeFaults,
         \/ receipts' = receipts /\ status' \in {status, EndedByUser}
         \/ receipts' = {} /\ status' = "gone",
         HandlerAt' \in {"idle", "await"}, handler'.op \in {"none", "cancel"}, TaskAt' # "mark"
  PROVE  Events'
<1>1. /\ DOMAIN pg'.outbox = DOMAIN pg.outbox /\ Len(pg'.outbox) = Len(pg.outbox)
      /\ \A i \in DOMAIN pg.outbox : pg'.outbox[i] = Discard(pg.outbox[i])
  BY Outbox DEF Inv
<1>2. ASSUME NEW i \in DOMAIN pg.outbox
      PROVE  /\ pg'.outbox[i].patch = pg.outbox[i].patch
             /\ pg'.outbox[i].state \in {pg.outbox[i].state, "discarded"}
             /\ pg'.outbox[i].state = "pending" => pg.outbox[i].patch = "cancelled"
  <2>1. pg'.outbox[i] = Discard(pg.outbox[i]) /\ pg.outbox[i] \in Event  BY <1>1, Outbox DEF Inv
  <2> QED  BY <2>1 DEF Discard, Event
<1>3. ASSUME NEW i \in Undelivered'
      PROVE  i \in Undelivered /\ pg'.outbox[i].patch = "cancelled"
  <2>1. i \in DOMAIN pg.outbox /\ pg'.outbox[i].state = "pending" /\ pg'.outbox[i].patch = "cancelled"
    BY <1>1 DEF Undelivered
  <2>2. pg.outbox[i].state = "pending" /\ pg.outbox[i].patch = "cancelled"  BY <1>2, <2>1
  <2> QED  BY <2>1, <2>2 DEF Undelivered
<1>4. Fresh' = {}
  <2>1. \A i \in Unseen' : i \in Undelivered'  BY DEF Unseen
  <2> QED  BY <1>3, <2>1 DEF Fresh
<1>5. status \in Terminal \cup {"gone"} => status' \in Terminal \cup {"gone"}
  BY DEF EndedByUser, Terminal, Missing
<1>6. status' \in Terminal => status' = status \/ status' = "cancelled"
  BY DEF EndedByUser, Terminal, Missing
<1>7. ASSUME NEW i \in DOMAIN pg'.outbox
      PROVE  /\ pg'.outbox[i].state = "discarded" => pg'.cancelRequested
             /\ Ends(i)' =>
                  /\ pg'.stage = "final" /\ pg'.outbox[i].patch = pg'.final /\ i = Len(pg'.outbox)
                  /\ i \in receipts' \/ pg'.outbox[i].state = "delivered" => status' \in Terminal \cup {"gone"}
                  /\ i \in Unseen' /\ status' \in Terminal =>
                       status' = pg'.outbox[i].patch \/ (status' = "failed" /\ storeFaults' > 0)
  <2>1. i \in DOMAIN pg.outbox /\ Ends(i)' = Ends(i) /\ pg'.outbox[i].patch = pg.outbox[i].patch
    BY <1>1, <1>2 DEF Ends
  <2>2. Ends(i) =>
          /\ pg.stage = "final" /\ pg.outbox[i].patch = pg.final /\ i = Len(pg.outbox)
          /\ i \in receipts \/ pg.outbox[i].state = "delivered" => status \in Terminal \cup {"gone"}
          /\ i \in Unseen /\ status \in Terminal =>
               status = pg.outbox[i].patch \/ (status = "failed" /\ storeFaults > 0)
    BY <2>1 DEF Events
  <2>3. i \in receipts' \/ pg'.outbox[i].state = "delivered" => i \in receipts \/ pg.outbox[i].state = "delivered"
    BY <1>2, <2>1
  <2>4. i \in Unseen' /\ status' \in Terminal => i \in Unseen /\ pg'.outbox[i].patch = "cancelled"
    BY <1>3 DEF Unseen, Terminal
  <2> QED  BY <1>1, <1>5, <1>6, <2>1, <2>2, <2>3, <2>4
<1> QED  BY <1>4, <1>7 DEF Events

LEMMA CommitEvents == ASSUME Inv, Kinds, Flat, Events, Commit PROVE Kinds' /\ Events'
<1> DEFINE deletes == handler.op = "delete"  new == Cancelled(deletes)
           cut == Cancelled(FALSE)  tomb == Cancelled(TRUE)
<1>1. \A q \in {new, cut, tomb} :
        /\ q.outbox = [i \in DOMAIN pg.outbox |-> Discard(pg.outbox[i])] /\ q.cancelRequested
        /\ q.stage = pg.stage /\ q.final = pg.final
  BY CancelledRow DEF Same, Inv
<1>2. /\ pc["handler"] = "commit" /\ delivery = "handler" /\ TaskAt # "mark" /\ handler.op \in {"cancel", "delete"}
      /\ HandlerAt = "commit"
      /\ ~pg.bound => pg.outbox = << >> /\ Fresh = {} /\ Unseen = {}
      /\ Fresh # {} => status \notin Terminal /\ TaskAt \in {"idle", "release"} /\ handler.op # "approve"
  BY EventFacts, NothingFresh
     DEF Commit, At, HandlerAt, Flat, Operating, Placed, Young, Inv, Typed, Holding
<1>3. \/ /\ GiveUp("handler")
         /\ \/ UNCHANGED pg /\ Still
            \/ Lost(IF pg.bound THEN new ELSE pg)
      \/ /\ handler.op = "cancel"
         /\ pg' = IF pg.bound THEN cut ELSE pg
         /\ IF pc["task"] = "idle"
            THEN Answer /\ status' = EndedByUser /\ UNCHANGED task
            ELSE /\ Kill(claim', [pc EXCEPT !["handler"] = "await"])
                 /\ UNCHANGED <<status, handler>>
         /\ delivery' = "free" /\ UNCHANGED <<receipts, mode>> /\ Still
      \/ /\ pg' = IF pg.bound THEN tomb ELSE pg
         /\ status' = "gone" /\ receipts' = {}
         /\ Answer /\ delivery' = "free" /\ UNCHANGED mode /\ Still
  BY DEF Commit
<1> HIDE DEF deletes, new, cut, tomb
<1> USE DEF Go, HandlerAt, TaskAt, Still, bounds, Inv, Typed, Procs
<1>4. CASE /\ GiveUp("handler")
           /\ \/ UNCHANGED pg /\ Still
              \/ Lost(IF pg.bound THEN new ELSE pg)
  <2>1. /\ HandlerAt' = "idle" /\ handler'.op = "none" /\ TaskAt' = TaskAt /\ UNCHANGED <<status, receipts>>
        /\ delivery' = "free" /\ mode' \in {mode, "down"}
    BY <1>2, <1>4 DEF GiveUp, Interrupts, Unlock, NoHandler, store
  <2>2. UNCHANGED <<crashes, storeFaults>> /\ faults' \in {faults, faults + 1} /\ pg' \in {pg, new}
    BY <1>4 DEF Lost
  <2>3. Kinds'  BY <1>1, <2>1, <2>2 DEF Kinds
  <2> HIDE DEF Inv, Typed, HandlerAt, TaskAt, Go, Procs
  <2>4. CASE pg' = new  BY <1>1, <1>2, <2>1, <2>2, <2>3, <2>4, CutEvents
  <2>5. CASE pg' = pg
    <3>1. Idle  BY <2>1, <2>2, <2>5 DEF Idle, Kinds
    <3>2. Shows  BY <1>2, <2>1 DEF Shows, Terminal
    <3> QED  BY <2>3, <3>1, <3>2, EventsStay
  <2> QED  BY <2>2, <2>3, <2>4, <2>5
<1>5. CASE /\ handler.op = "cancel"
           /\ pg' = IF pg.bound THEN cut ELSE pg
           /\ IF pc["task"] = "idle"
              THEN Answer /\ status' = EndedByUser /\ UNCHANGED task
              ELSE /\ Kill(claim', [pc EXCEPT !["handler"] = "await"])
                   /\ UNCHANGED <<status, handler>>
           /\ delivery' = "free" /\ UNCHANGED <<receipts, mode>> /\ Still
  <2>1. /\ HandlerAt' \in {"idle", "await"} /\ handler'.op \in {"none", "cancel"}
        /\ TaskAt' \in {TaskAt, "idle", "release"} /\ UNCHANGED <<crashes, faults, storeFaults>>
    BY <1>5 DEF Answer, NoHandler, Kill, Finally
  <2>2. status' \in {status, EndedByUser}  BY <1>5
  <2>3. Kinds'
    <3>1. status' \in RunStatus \cup Missing  BY <2>2 DEF Kinds, EndedByUser, RunStatus, Terminal
    <3>2. receipts' \subseteq DOMAIN pg'.outbox  BY <1>1, <1>5 DEF Kinds
    <3> QED  BY <1>5, <2>1, <3>1, <3>2 DEF Kinds
  <2> HIDE DEF Inv, Typed, HandlerAt, TaskAt, Go, Procs
  <2>4. CASE pg.bound  BY <1>1, <1>2, <1>5, <2>1, <2>2, <2>3, <2>4, CutEvents
  <2>5. CASE ~pg.bound
    <3>1. Idle  BY <1>5, <2>1, <2>5 DEF Idle, Kinds
    <3>2. Shows  BY <1>2, <2>1, <2>2, <2>5 DEF Shows, EndedByUser, Terminal, Missing
    <3> QED  BY <2>3, <3>1, <3>2, EventsStay
  <2> QED  BY <2>3, <2>4, <2>5
<1>6. CASE /\ pg' = IF pg.bound THEN tomb ELSE pg
           /\ status' = "gone" /\ receipts' = {}
           /\ Answer /\ delivery' = "free" /\ UNCHANGED mode /\ Still
  <2>1. /\ HandlerAt' = "idle" /\ handler'.op = "none" /\ TaskAt' = TaskAt
        /\ UNCHANGED <<crashes, faults, storeFaults>>
    BY <1>6 DEF Answer, NoHandler
  <2>2. Kinds'  BY <1>6, <2>1 DEF Kinds, RunStatus, Terminal, Missing
  <2> HIDE DEF Inv, Typed, HandlerAt, TaskAt, Go, Procs
  <2>3. CASE pg.bound  BY <1>1, <1>2, <1>6, <2>1, <2>2, <2>3, CutEvents
  <2>4. CASE ~pg.bound  BY <1>2, <1>6, <2>1, <2>2, <2>4, ErasedEvents
  <2> QED  BY <2>2, <2>3, <2>4
<1> QED  BY <1>3, <1>4, <1>5, <1>6

LEMMA StartupEvents == ASSUME Inv, Kinds, Flat, Events, Recover \/ Tombstone \/ Restore PROVE Kinds' /\ Events'
<1> USE DEF Go, HandlerAt, TaskAt, Still, bounds, Inv, Typed, Procs
<1>0. /\ ~pg.bound => pg.outbox = << >> /\ Fresh = {} /\ Unseen = {}
      /\ Fresh # {} => status \notin Terminal \cup {"waiting_approval"}
  BY EventFacts, NothingFresh DEF Flat, Young
<1>1. CASE Recover
  <2>1. /\ pc["handler"] = "recover" /\ mode = "starting" /\ TaskAt = "idle" /\ handler.op = "startup"
        /\ TaskAt' = TaskAt
    BY <1>1 DEF Recover, At, Flat, Operating, Placed, Holding, Answer, Started
  <2>2. /\ pg' \in {pg, Recovered} /\ UNCHANGED <<crashes, storeFaults, delivery>>
        /\ faults' \in {faults, faults + 1}
    BY <1>1 DEF Recover, Lost
  <2>3. pg'.outbox = pg.outbox /\ pg'.cancelRequested = pg.cancelRequested
        /\ pg'.stage = pg.stage /\ pg'.final = pg.final
    BY <2>2, RecoveredRow DEF Same
  <2>4. \/ /\ UNCHANGED receipts /\ HandlerAt' \in {"idle", "tombstone", "flush"}
           /\ handler'.op \in {"none", "startup"}
           /\ status' = status \/ (~pg.bound /\ status' = "failed" /\ status \in RunStatus \ Terminal)
        \/ status' = "gone" /\ receipts' = {} /\ HandlerAt' = "idle" /\ handler'.op = "none"
    BY <1>1, <2>1 DEF Recover, Answer, NoHandler, store, Started
  <2>5. mode' \in {"up", "down", "starting"}  BY <1>1, <2>1 DEF Recover, Started
  <2>6. Kinds'  BY <2>2, <2>3, <2>4, <2>5 DEF Kinds, RunStatus, Terminal, Missing
  <2>7. CASE UNCHANGED receipts /\ (status' = status \/ (~pg.bound /\ status' = "failed" /\ status \in RunStatus \ Terminal))
             /\ HandlerAt' \in {"idle", "tombstone", "flush"} /\ handler'.op \in {"none", "startup"}
    <3>1. Idle  BY <2>2, <2>3, <2>7 DEF Idle, Kinds
    <3>2. Shows  BY <1>0, <2>1, <2>7 DEF Shows, Terminal
    <3> QED  BY <2>6, <3>1, <3>2, EventsStay
  <2>8. CASE status' = "gone" /\ receipts' = {} /\ HandlerAt' = "idle" /\ handler'.op = "none"
    BY <2>1, <2>3, <2>6, <2>8, ErasedEvents
  <2> QED  BY <2>4, <2>7, <2>8
<1>2. CASE Tombstone
  <2> DEFINE tomb == Cancelled(TRUE)
  <2>1. /\ tomb.outbox = [i \in DOMAIN pg.outbox |-> Discard(pg.outbox[i])] /\ tomb.cancelRequested
        /\ tomb.stage = pg.stage /\ tomb.final = pg.final
    BY CancelledRow DEF Same
  <2>2. /\ pc["handler"] = "tombstone" /\ mode = "starting" /\ handler.op = "startup" /\ TaskAt = "idle"
        /\ pg' \in {pg, tomb} /\ UNCHANGED <<status, receipts, crashes, storeFaults>>
        /\ faults' \in {faults, faults + 1}
    BY <1>2 DEF Tombstone, At, Flat, Operating, Placed, Holding, Lost, GiveUp, store
  <2> HIDE DEF tomb
  <2>3. /\ HandlerAt' = "idle" /\ handler'.op = "none" /\ TaskAt' = TaskAt
        /\ mode' \in {"up", "down"} /\ delivery' \in {delivery, "free"}
    <3>1. CASE Started /\ UNCHANGED delivery  BY <2>2, <3>1 DEF Started, Answer, NoHandler
    <3>2. CASE GiveUp("handler")  BY <2>2, <3>2 DEF GiveUp, Interrupts, Unlock, NoHandler
    <3> QED  BY <1>2, <3>1, <3>2 DEF Tombstone
  <2>4. Kinds'  BY <2>1, <2>2, <2>3 DEF Kinds
  <2> HIDE DEF Inv, Typed, HandlerAt, TaskAt, Go, Procs
  <2>5. CASE pg' = tomb  BY <2>1, <2>2, <2>3, <2>4, <2>5, CutEvents
  <2>6. CASE pg' = pg
    <3>1. Idle  BY <2>2, <2>6 DEF Idle, Kinds
    <3>2. Shows  BY <1>0, <2>2, <2>3 DEF Shows, Terminal
    <3> QED  BY <2>4, <3>1, <3>2, EventsStay
  <2> QED  BY <2>2, <2>5, <2>6
<1>3. CASE Restore
  <2>1. /\ status' = "gone" /\ receipts' = {} /\ HandlerAt' = "idle" /\ TaskAt' = "idle" /\ handler' = handler
        /\ handler.op = "none" /\ pg' = pg /\ UNCHANGED <<mode, delivery, crashes, faults>>
        /\ storeFaults' = storeFaults + 1
    BY <1>3 DEF Restore, memory, Flat, Placed, Operating, Holding
  <2>2. Kinds'  BY <2>1 DEF Kinds, Missing
  <2> QED  BY <2>1, <2>2, ErasedEvents
<1> QED  BY <1>1, <1>2, <1>3

-----------------------------------------------------------------------------
(* Emitting.                                                               *)

LEMMA AppendedEvents ==
  ASSUME Inv, Kinds, Flat, Events, NEW e \in Event, e.state = "pending",
         pg'.outbox = Append(pg.outbox, e), pg'.cancelRequested = pg.cancelRequested,
         pg'.stage = pg.stage, pg'.final = pg.final, UNCHANGED <<status, receipts, storeFaults>>,
         \A i \in DOMAIN pg.outbox : ~Ends(i),
         e.patch \in Terminal => pg.stage = "final" /\ e.patch = pg.final /\ status \notin Terminal,
         e.patch = "running" => /\ status = "interrupted" /\ ~pg.cancelRequested /\ TaskAt' \in {"idle", "release"}
                                /\ handler'.op # "approve",
         TaskAt' # "mark", HandlerAt' \notin {"mark", "settle"},
         Fresh # {} => TaskAt' \in {"idle", "release"} /\ handler'.op # "approve",
         handler'.op = "resume" /\ HandlerAt' \in {"flush", "mark"} => e.patch = "running",
         handler'.op = "settled" /\ HandlerAt' # "emit" => e.patch \in Terminal
  PROVE  Events'
<1> PICK n : n = Len(pg.outbox)  OBVIOUS
<1>1. /\ pg.outbox \in Seq(Event) /\ n \in Nat /\ DOMAIN pg.outbox = 1..n
      /\ receipts \subseteq 1..n
  BY Outbox DEF Inv, Kinds
<1>2. /\ DOMAIN pg'.outbox = 1..(n+1) /\ Len(pg'.outbox) = n + 1 /\ pg'.outbox[n+1] = e
      /\ \A i \in 1..n : pg'.outbox[i] = pg.outbox[i]
  BY <1>1, AppendProperties
<1>3. \A i \in 1..(n+1) : i \in 1..n \/ i = n + 1  BY <1>1
<1>4. \A i \in 1..n : i \in 1..(n+1)  BY <1>1
<1>5. n + 1 \notin receipts  BY <1>1
<1>6. \A i \in 1..n : i \in Unseen' <=> i \in Unseen
  BY <1>1, <1>2, <1>4 DEF Unseen, Undelivered
<1>7. Fresh' # {} => Fresh # {} \/ e.patch = "running"
  <2>1. \A i \in Fresh' : i \in 1..(n+1) /\ i \in Unseen' /\ pg'.outbox[i].patch = "running"
    BY <1>2 DEF Fresh, Unseen, Undelivered
  <2>2. \A i \in 1..n : i \in Fresh' => i \in Fresh  BY <1>2, <1>6, <2>1 DEF Fresh
  <2> QED  BY <1>2, <1>3, <2>1, <2>2
<1>8. e.patch = "running" => Fresh' # {}
  <2> SUFFICES ASSUME e.patch = "running" PROVE n + 1 \in Fresh'  OBVIOUS
  <2>1. n + 1 \in Undelivered'  BY <1>1, <1>2 DEF Undelivered
  <2> QED  BY <1>2, <1>5, <2>1 DEF Fresh, Unseen
<1>9. ASSUME NEW i \in 1..n
      PROVE  (pg'.outbox[i].state = "discarded" => pg'.cancelRequested) /\ ~Ends(i)'
  BY <1>1, <1>2 DEF Events, Ends
<1>10. Ends(n+1)' <=> e.patch \in Terminal  BY <1>2 DEF Ends
<1>11. ASSUME NEW i \in DOMAIN pg'.outbox
       PROVE  /\ pg'.outbox[i].state = "discarded" => pg'.cancelRequested
              /\ Ends(i)' =>
                   /\ pg'.stage = "final" /\ pg'.outbox[i].patch = pg'.final /\ i = Len(pg'.outbox)
                   /\ i \in receipts' \/ pg'.outbox[i].state = "delivered" => status' \in Terminal \cup {"gone"}
                   /\ i \in Unseen' /\ status' \in Terminal =>
                        status' = pg'.outbox[i].patch \/ (status' = "failed" /\ storeFaults' > 0)
  <2>1. CASE i \in 1..n  BY <1>9, <2>1
  <2>2. CASE i = n + 1  BY <1>2, <1>5, <1>10, <2>2
  <2> QED  BY <1>2, <1>3, <2>1, <2>2
<1>12. Fresh' # {} => /\ status' \notin Terminal \cup {"waiting_approval"} /\ handler'.op # "approve"
                      /\ TaskAt' \in {"idle", "release"}
  BY <1>7 DEF Events, Terminal
<1>13. handler'.op = "settled" /\ HandlerAt' # "emit" => \E i \in DOMAIN pg'.outbox : Ends(i)'
  BY <1>1, <1>2, <1>10
<1> QED  BY <1>8, <1>11, <1>12, <1>13 DEF Events

LEMMA EmitStory ==
  ASSUME Inv, Story, NEW p \in {"task", "handler"}, Emit(p)
  PROVE  Story'
<1> DEFINE resumes == p = "handler" /\ handler.op = "resume"
           new == IF resumes THEN Emitted("running") ELSE EmittedFinal
           Sent(patch) == [patch |-> patch, state |-> "pending"]
<1> USE DEF Story
<1>1. /\ pc[p] = "emit" /\ mode \in {"up", "starting"} /\ UNCHANGED <<status, receipts, storeFaults, crashes>>
      /\ pg' \in {pg, new} /\ faults' \in {faults, faults + 1}
  BY DEF Emit, At, Lost, GiveUp, store, Still, bounds, Kinds
<1>2. \/ /\ pg' = new /\ pc' = [pc EXCEPT ![p] = "flush"] /\ UNCHANGED <<mode, handler, delivery>>
      \/ GiveUp(p)
  BY DEF Emit, Go
<1>3. /\ p = "task" => /\ TaskAt = "emit" /\ status = "running" /\ pg.stage = "final" /\ mode = "up"
                       /\ handler.op \notin {"resume", "settled", "startup", "launch"}
                       /\ handler.op = "none" => HandlerAt = "idle"
                       /\ HandlerAt \notin {"mark", "settle"} /\ Fresh = {} /\ status \notin Terminal
      /\ p = "handler" => /\ HandlerAt = "emit" /\ TaskAt \in {"idle", "release"}
                          /\ handler.op \in {"resume", "settled"}
      /\ resumes => /\ status = "interrupted" /\ pg.stage \notin {"none", "final"}
                    /\ ~pg.cancelRequested /\ ~pg.deleted
      /\ handler.op = "settled" => /\ pg.stage = "final" /\ ~pg.cancelRequested /\ ~pg.deleted
                                   /\ TaskAt = "idle" /\ mode = "starting" /\ p = "handler"
                                   /\ status \in RunStatus \ Terminal
  <2>1. Fresh # {} => TaskAt \in {"idle", "release"}  BY EventFacts
  <2> QED
    BY <1>1, <2>1 DEF Flat, Operating, Placed, Following, Booting, TaskAt, HandlerAt, Inv, Typed, Holding, Terminal
<1>4. /\ TaskAt' \in {TaskAt, "flush", "interrupt"} /\ HandlerAt' \in {HandlerAt, "flush", "idle"}
      /\ p = "task" => HandlerAt' = HandlerAt /\ handler' = handler /\ mode' = mode /\ TaskAt' # "emit"
      /\ p = "handler" => /\ TaskAt' = TaskAt
                          /\ \/ HandlerAt' = "flush" /\ handler' = handler /\ mode' = mode
                             \/ HandlerAt' = "idle" /\ handler' = NoHandler /\ mode' = IF mode = "starting" THEN "down" ELSE mode
      /\ delivery' \in {delivery, "free"} /\ (delivery \notin {p, "free"} => delivery' = delivery)
      /\ CreatorAt' = CreatorAt
  BY <1>2, <1>3 DEF GiveUp, Go, Interrupts, Unlock, TaskAt, HandlerAt, CreatorAt, Inv, Typed, Procs, Labels
<1>5. pg.final \in Terminal /\ pg.outbox \in Seq(Event) /\ pg \in Row  BY DEF Inv, Typed, Row
<1>6. \/ new = pg /\ (p = "handler" => handler.op = "settled" /\ \E i \in DOMAIN pg.outbox : Ends(i))
      \/ /\ resumes /\ new = [pg EXCEPT !.outbox = Append(@, Sent("running"))]
         /\ \A i \in DOMAIN pg.outbox : ~Ends(i)
      \/ /\ ~resumes /\ new = [pg EXCEPT !.outbox = Append(@, Sent(pg.final))]
         /\ \A i \in DOMAIN pg.outbox : ~Ends(i)
  <2>1. CASE resumes
    <3>1. \A i \in DOMAIN pg.outbox : ~Ends(i)  BY <1>3, <2>1, EventFacts
    <3>2. new = Emitted("running")  BY <2>1
    <3> HIDE DEF new
    <3> QED  BY <1>3, <2>1, <3>1, <3>2 DEF Emitted
  <2>2. CASE ~resumes
    <3>1. new = EmittedFinal  BY <2>2
    <3>2. p = "handler" => handler.op = "settled"  BY <1>3, <2>2
    <3> HIDE DEF new
    <3>3. CASE \E i \in DOMAIN pg.outbox : Ends(i)  BY <3>1, <3>2, <3>3 DEF EmittedFinal, Ends
    <3>4. CASE \A i \in DOMAIN pg.outbox : ~Ends(i)
      BY <1>3, <2>2, <3>1, <3>2, <3>4 DEF EmittedFinal, Ends, Emitted
    <3> QED  BY <3>3, <3>4
  <2> QED  BY <2>1, <2>2
<1>7. /\ new.bound = pg.bound /\ new.owner = pg.owner /\ new.stage = pg.stage /\ new.final = pg.final
      /\ new.call = pg.call /\ new.cancelRequested = pg.cancelRequested /\ new.deleted = pg.deleted
      /\ new.accepted = pg.accepted
  <2> HIDE DEF new, Sent
  <2> QED  BY <1>5, <1>6 DEF Row
<1>8. pg.stage # "none"  BY <1>3
<1> DEFINE e == IF resumes THEN Sent("running") ELSE Sent(pg.final)
<1>9. \/ new = pg /\ (p = "handler" => handler.op = "settled" /\ \E i \in DOMAIN pg.outbox : Ends(i))
      \/ new.outbox = Append(pg.outbox, e) /\ \A i \in DOMAIN pg.outbox : ~Ends(i)
  <2> HIDE DEF new, Sent
  <2> QED  BY <1>5, <1>6 DEF Row
<1>10. /\ e \in Event /\ e.state = "pending"
       /\ e.patch = IF resumes THEN "running" ELSE pg.final
  BY <1>5 DEF Event
<1> HIDE DEF new, Sent, e
<1>11. Flat'
  <2>1. Operating' /\ Booting'
    BY <1>1, <1>3, <1>4, <1>7 DEF Flat, Operating, Booting, Placed, NoHandler
  <2>2. Placed'  BY <1>1, <1>3, <1>4, <1>7 DEF Flat, Placed, Operating, Following, NoHandler, Terminal
  <2>3. Young'  BY <1>1, <1>3, <1>4, <1>7, <1>8 DEF Flat, Young, Placed, NoHandler
  <2>4. Following'
    BY <1>1, <1>3, <1>4, <1>7 DEF Flat, Following, Placed, NoHandler, Terminal
  <2> QED  BY <2>1, <2>2, <2>3, <2>4 DEF Flat
<1>12. CASE pg' # new
  <2>1. /\ pg' = pg /\ (p = "task" => TaskAt' = "interrupt")
        /\ p = "handler" => HandlerAt' = "idle" /\ handler' = NoHandler
    <3>1. pg' = pg /\ GiveUp(p)  BY <1>1, <1>2, <1>12
    <3> QED
      BY <1>3, <3>1 DEF GiveUp, Interrupts, Go, TaskAt, HandlerAt, Inv, Typed, Procs, Labels
  <2>2. Idle  BY <1>1, <2>1 DEF Idle, Kinds
  <2>3. Shows  BY <1>1, <1>3, <1>4, <2>1 DEF Shows, NoHandler
  <2>4. Kinds'  BY <1>1, <1>3, <1>4, <2>1 DEF Kinds
  <2> QED  BY <1>11, <2>2, <2>3, <2>4, EventsStay
<1>13. CASE new = pg /\ pg' = new /\ (p = "handler" => handler.op = "settled" /\ \E i \in DOMAIN pg.outbox : Ends(i))
  <2>1. Idle  BY <1>1, <1>13 DEF Idle, Kinds
  <2>2. Shows  BY <1>1, <1>3, <1>4, <1>13 DEF Shows, NoHandler
  <2>3. Kinds'  BY <1>1, <1>3, <1>4, <1>13 DEF Kinds
  <2> QED  BY <1>11, <2>1, <2>2, <2>3, EventsStay
<1>14. CASE pg' = new /\ new.outbox = Append(pg.outbox, e) /\ \A i \in DOMAIN pg.outbox : ~Ends(i)
  <2>1. /\ e.patch \in Terminal => pg.stage = "final" /\ e.patch = pg.final /\ status \notin Terminal
        /\ e.patch = "running" => /\ status = "interrupted" /\ ~pg.cancelRequested
                                  /\ TaskAt' \in {"idle", "release"} /\ handler'.op # "approve"
    BY <1>3, <1>4, <1>5, <1>10 DEF NoHandler, Terminal
  <2>2. /\ TaskAt' # "mark" /\ HandlerAt' \notin {"mark", "settle"}
        /\ Fresh # {} => TaskAt' \in {"idle", "release"} /\ handler'.op # "approve"
    BY <1>3, <1>4, EventFacts DEF NoHandler
  <2>3. /\ handler'.op = "resume" /\ HandlerAt' \in {"flush", "mark"} => e.patch = "running"
        /\ handler'.op = "settled" /\ HandlerAt' # "emit" => e.patch \in Terminal
    BY <1>3, <1>4, <1>5, <1>10 DEF NoHandler, resumes
  <2>4. Events'
    BY <1>1, <1>7, <1>10, <1>14, <2>1, <2>2, <2>3, AppendedEvents
  <2>5. Kinds'
    <3>1. DOMAIN pg.outbox \subseteq DOMAIN pg'.outbox
      BY <1>5, <1>10, <1>14, AppendProperties
    <3> QED  BY <1>1, <1>3, <1>4, <3>1 DEF Kinds
  <2> QED  BY <1>11, <2>4, <2>5
<1> QED  BY <1>1, <1>9, <1>12, <1>13, <1>14

-----------------------------------------------------------------------------
(* Marking an event as delivered.                                          *)

LEMMA MarkStory ==
  ASSUME Inv, Story, NEW p \in {"task", "handler"}, Mark(p)
  PROVE  Story'
<1> DEFINE new == [pg EXCEPT !.outbox[First].state = "delivered"]
           box == [pg.outbox EXCEPT ![First].state = "delivered"]
<1> USE DEF Story
<1>1. /\ pc[p] = "mark" /\ mode \in {"up", "starting"} /\ UNCHANGED <<status, receipts, storeFaults, crashes>>
      /\ pg' \in {pg, new} /\ faults' \in {faults, faults + 1}
  BY DEF Mark, At, Lost, GiveUp, store, Still, bounds, Kinds
<1>2. \/ pc' = [pc EXCEPT ![p] = "flush"] /\ UNCHANGED <<mode, handler, delivery>>
      \/ GiveUp(p)
  BY DEF Mark, Go
<1>3. /\ delivery = p /\ Undelivered # {} /\ First \in receipts
      /\ p = "task" => /\ TaskAt = "mark" /\ pg.stage = "final" /\ mode = "up" /\ Fresh = {}
                       /\ handler.op \notin {"resume", "settled", "startup", "launch"}
                       /\ HandlerAt \notin {"mark", "settle"} /\ CreatorAt = "idle"
      /\ p = "handler" => /\ HandlerAt = "mark" /\ TaskAt \in {"idle", "release"} /\ CreatorAt = "idle"
                          /\ handler.op \in {"resume", "startup", "settled"}
  <2>1. Fresh # {} => TaskAt \in {"idle", "release"}  BY EventFacts
  <2>2. TaskAt = "mark" \/ HandlerAt = "mark"  BY <1>1 DEF TaskAt, HandlerAt
  <2> QED
    BY <1>1, <2>1, <2>2 DEF Flat, Operating, Placed, Following, Events, TaskAt, HandlerAt, Inv, Typed, Holding
<1>4. /\ TaskAt' \in {TaskAt, "flush", "interrupt"} /\ HandlerAt' \in {HandlerAt, "flush", "idle"}
      /\ p = "task" => /\ HandlerAt' = HandlerAt /\ handler' = handler /\ mode' = mode
                       /\ \/ TaskAt' = "flush" /\ delivery' = delivery
                          \/ TaskAt' = "interrupt" /\ delivery' = "free"
      /\ p = "handler" => /\ TaskAt' = TaskAt
                          /\ \/ HandlerAt' = "flush" /\ handler' = handler /\ mode' = mode
                             \/ HandlerAt' = "idle" /\ handler' = NoHandler /\ mode' = IF mode = "starting" THEN "down" ELSE mode
      /\ delivery' \in {delivery, "free"}
      /\ CreatorAt' = CreatorAt
  BY <1>2, <1>3 DEF GiveUp, Go, Interrupts, Unlock, TaskAt, HandlerAt, CreatorAt, Inv, Typed, Procs, Labels
<1>5. /\ pg \in Row /\ pg.outbox \in Seq(Event) /\ First \in Undelivered /\ First \in DOMAIN pg.outbox
      /\ pg.outbox[First] \in Event
  BY <1>3, FirstIsUndelivered DEF Inv, Typed, Row
<1>6. new = [pg EXCEPT !.outbox = box]  BY <1>5 DEF Row
<1>7. /\ DOMAIN box = DOMAIN pg.outbox /\ Len(box) = Len(pg.outbox)
      /\ \A i \in DOMAIN box : box[i].patch = pg.outbox[i].patch
      /\ \A i \in DOMAIN box : i # First => box[i] = pg.outbox[i]
      /\ box[First].state = "delivered"
  BY <1>5 DEF Event
<1> HIDE DEF new, box
<1>8. /\ new.bound = pg.bound /\ new.owner = pg.owner /\ new.stage = pg.stage /\ new.final = pg.final
      /\ new.call = pg.call /\ new.cancelRequested = pg.cancelRequested /\ new.deleted = pg.deleted
      /\ new.accepted = pg.accepted /\ new.outbox = box
  BY <1>5, <1>6 DEF Row
<1>9. pg.stage # "none"  BY <1>5 DEF Flat, Young
<1>10. Flat'
  <2>1. Operating' /\ Booting'
    BY <1>1, <1>3, <1>4, <1>8 DEF Flat, Operating, Booting, Placed, NoHandler
  <2>2. Placed'  BY <1>1, <1>3, <1>4, <1>8 DEF Flat, Placed, Operating, Following, NoHandler, Terminal
  <2>3. Young'  BY <1>1, <1>3, <1>4, <1>8, <1>9 DEF Flat, Young, Placed, NoHandler
  <2>4. Following'
    BY <1>1, <1>3, <1>4, <1>8 DEF Flat, Following, Placed, NoHandler, Terminal
  <2> QED  BY <2>1, <2>2, <2>3, <2>4 DEF Flat
<1>11. Kinds'  BY <1>1, <1>3, <1>4, <1>7, <1>8 DEF Kinds
<1>12. CASE pg' = pg
  <2>1. CASE TaskAt' # "mark" /\ HandlerAt' # "mark"
    <3>1. Idle  BY <1>1, <1>12 DEF Idle, Kinds
    <3>2. Shows  BY <1>1, <1>3, <1>4 DEF Shows, NoHandler
    <3> QED  BY <1>10, <1>11, <3>1, <3>2, EventsStay
  <2> QED  BY <1>3, <1>4, <2>1
<1>13. CASE pg' = new
  <2>1. \A i : Ends(i)' <=> (IF i \in DOMAIN box THEN Ends(i) ELSE Ends(i)')
    BY <1>7, <1>8, <1>13 DEF Ends
  <2>2. Unseen' = Unseen
    <3>1. ASSUME NEW i \in DOMAIN box PROVE i \in Unseen' <=> i \in Unseen
      <4>1. CASE i = First  BY <1>1, <1>3, <4>1 DEF Unseen
      <4>2. CASE i # First  BY <1>1, <1>7, <1>8, <1>13, <4>2 DEF Unseen, Undelivered
      <4> QED  BY <4>1, <4>2
    <3>2. Unseen \subseteq DOMAIN box /\ Unseen' \subseteq DOMAIN box
      BY <1>7, <1>8, <1>13 DEF Unseen, Undelivered
    <3> QED  BY <3>1, <3>2
  <2>3. Fresh' = Fresh
    BY <1>7, <1>8, <1>13, <2>2 DEF Fresh, Unseen, Undelivered
  <2>4. ASSUME NEW i \in DOMAIN pg'.outbox
        PROVE  /\ pg'.outbox[i].state = "discarded" => pg'.cancelRequested
               /\ Ends(i)' =>
                    /\ pg'.stage = "final" /\ pg'.outbox[i].patch = pg'.final /\ i = Len(pg'.outbox)
                    /\ i \in receipts' \/ pg'.outbox[i].state = "delivered" => status' \in Terminal \cup {"gone"}
                    /\ i \in Unseen' /\ status' \in Terminal =>
                         status' = pg'.outbox[i].patch \/ (status' = "failed" /\ storeFaults' > 0)
    <3>1. i \in DOMAIN pg.outbox /\ i \in DOMAIN box  BY <1>7, <1>8, <1>13
    <3>2. /\ pg.outbox[i].state = "discarded" => pg.cancelRequested
          /\ Ends(i) =>
               /\ pg.stage = "final" /\ pg.outbox[i].patch = pg.final /\ i = Len(pg.outbox)
               /\ i \in receipts \/ pg.outbox[i].state = "delivered" => status \in Terminal \cup {"gone"}
               /\ i \in Unseen /\ status \in Terminal =>
                    status = pg.outbox[i].patch \/ (status = "failed" /\ storeFaults > 0)
      BY <3>1 DEF Events
    <3>3. /\ pg'.outbox[i].state = "discarded" => pg.outbox[i].state = "discarded"
          /\ pg'.outbox[i].state = "delivered" => i \in receipts \/ pg.outbox[i].state = "delivered"
      BY <1>3, <1>7, <1>8, <1>13, <3>1
    <3> QED  BY <1>1, <1>7, <1>8, <1>13, <2>1, <2>2, <3>1, <3>2, <3>3
  <2>5. /\ TaskAt' # "mark" /\ HandlerAt' \notin {"mark", "settle"}
        /\ Fresh' # {} => /\ status' \notin Terminal \cup {"waiting_approval"} /\ handler'.op # "approve"
                          /\ TaskAt' \in {"idle", "release"}
    BY <1>1, <1>3, <1>4, <2>3, EventFacts DEF NoHandler
  <2>6. handler'.op = "resume" /\ HandlerAt' \in {"flush", "mark"} => status' = "running" \/ Fresh' # {}
    BY <1>1, <1>3, <1>4, <2>3 DEF Events, NoHandler
  <2>7. handler'.op = "settled" /\ HandlerAt' # "emit" => \E i \in DOMAIN pg'.outbox : Ends(i)'
    <3>1. handler'.op = "settled" /\ HandlerAt' # "emit" => \E i \in DOMAIN pg.outbox : Ends(i)
      BY <1>3, <1>4 DEF Events, NoHandler
    <3> QED  BY <1>7, <1>8, <1>13, <2>1, <3>1
  <2>8. Events'  BY <2>4, <2>5, <2>6, <2>7 DEF Events
  <2> QED  BY <1>10, <1>11, <2>8
<1> QED  BY <1>1, <1>12, <1>13

-----------------------------------------------------------------------------
(* Flushing the outbox.                                                    *)

(* Who flushes, and what goes on meanwhile.                                *)
LEMMA Flushing ==
  ASSUME Inv, Story, NEW p \in {"task", "handler"}, Flush(p)
  PROVE  /\ pc[p] = "flush" /\ mode \in {"up", "starting"} /\ delivery \in {"free", p}
         /\ p = "task" => /\ TaskAt = "flush" /\ pg.stage = "final" /\ mode = "up" /\ Fresh = {}
                          /\ handler.op \notin {"resume", "settled", "startup", "launch", "approve"}
                          /\ HandlerAt \notin {"mark", "settle"} /\ HandlerAt # "commit"
                          /\ CreatorAt = "idle" /\ status \in {"running"} \cup Terminal
         /\ p = "handler" => /\ HandlerAt = "flush" /\ TaskAt \in {"idle", "release"} /\ CreatorAt = "idle"
                             /\ handler.op \in {"resume", "startup", "settled"}
                             /\ handler.op \in {"startup", "settled"} <=> mode = "starting"
                             /\ handler.op # "resume" =>
                                  /\ TaskAt = "idle" /\ status \in RunStatus /\ ~pg.deleted /\ pg.bound
                                  /\ pg.owner = 0 /\ pg.call # "dispatched"
         /\ handler.op = "resume" =>
              /\ p = "handler" /\ status \in {"interrupted", "running"} /\ ~pg.deleted
              /\ pg.stage \notin {"none", "final"} /\ (status = "running" \/ Fresh # {})
              /\ \A i \in DOMAIN pg.outbox : ~Ends(i)
         /\ handler.op = "settled" => p = "handler" /\ \E i \in DOMAIN pg.outbox : Ends(i)
<1> USE DEF Story
<1>1. /\ pc[p] = "flush" /\ mode \in {"up", "starting"} /\ delivery \in {"free", p}
  BY DEF Flush, At, Kinds
<1>2. /\ Fresh # {} => TaskAt \in {"idle", "release"} /\ handler.op # "approve"
      /\ (\E i \in DOMAIN pg.outbox : Ends(i)) => pg.stage = "final"
  BY EventFacts
<1>3. p = "task" => /\ TaskAt = "flush" /\ pg.stage = "final" /\ mode = "up" /\ Fresh = {}
                    /\ handler.op \notin {"resume", "settled", "startup", "launch", "approve"}
                    /\ HandlerAt \notin {"mark", "settle"} /\ HandlerAt # "commit"
                    /\ CreatorAt = "idle" /\ status \in {"running"} \cup Terminal
  BY <1>1, <1>2 DEF Flat, Operating, Placed, Following, TaskAt, HandlerAt, Inv, Typed, Holding, Terminal
<1>4. p = "handler" => /\ HandlerAt = "flush" /\ TaskAt \in {"idle", "release"} /\ CreatorAt = "idle"
                       /\ handler.op \in {"resume", "startup", "settled"}
                       /\ handler.op \in {"startup", "settled"} <=> mode = "starting"
                       /\ handler.op # "resume" =>
                            /\ TaskAt = "idle" /\ status \in RunStatus /\ ~pg.deleted /\ pg.bound
                            /\ pg.owner = 0 /\ pg.call # "dispatched"
  BY <1>1 DEF Flat, Operating, Placed, Following, Booting, TaskAt, HandlerAt, Inv, Typed, Holding
<1>5. handler.op = "resume" =>
        /\ p = "handler" /\ status \in {"interrupted", "running"} /\ ~pg.deleted
        /\ pg.stage \notin {"none", "final"} /\ (status = "running" \/ Fresh # {})
        /\ \A i \in DOMAIN pg.outbox : ~Ends(i)
  BY <1>2, <1>3, <1>4 DEF Flat, Following, Events
<1>6. handler.op = "settled" => p = "handler" /\ \E i \in DOMAIN pg.outbox : Ends(i)
  BY <1>3, <1>4 DEF Events
<1> QED  BY <1>1, <1>3, <1>4, <1>5, <1>6

(* Nothing is left, or the run is deleted: the operation goes on.          *)
LEMMA FlushedStory ==
  ASSUME Inv, Story, NEW p \in {"task", "handler"}, Flush(p), Undelivered = {} \/ pg.deleted,
         Flushed(p), Unlock(p), UNCHANGED <<pg, store, claim, sends>>, Still
  PROVE  Story'
<1> USE DEF Story
<1>1. /\ p = "task" => TaskAt = "flush" /\ status \in {"running"} \cup Terminal /\ CreatorAt = "idle"
                       /\ HandlerAt \notin {"mark", "settle"} /\ handler.op \notin {"resume", "settled"} /\ mode = "up"
      /\ p = "handler" => HandlerAt = "flush" /\ TaskAt \in {"idle", "release"} /\ CreatorAt = "idle"
      /\ handler.op = "resume" => p = "handler" /\ ~pg.deleted /\ pg.stage \notin {"none", "final"}
                                  /\ (status = "running" \/ Fresh # {}) /\ mode = "up"
      /\ p = "handler" /\ handler.op # "resume" =>
           /\ TaskAt = "idle" /\ status \in RunStatus /\ ~pg.deleted /\ pg.bound /\ mode = "starting"
           /\ pg.owner = 0 /\ pg.call # "dispatched"
      /\ delivery \in {"free", p} /\ delivery' = "free"
  BY Flushing DEF Unlock, Flat, Placed
<1>2. Undelivered = {} => Fresh = {}  BY DEF Fresh, Unseen
<1>3. UNCHANGED <<pg, status, receipts, crashes, faults, storeFaults>>  BY DEF store, Still, bounds
<1>4. CreatorAt' = CreatorAt
  BY DEF Flushed, Go, Answer, CreatorAt, Inv, Typed, Procs
<1>5. \/ /\ p = "task" /\ TaskAt' = "complete" /\ HandlerAt' = HandlerAt /\ UNCHANGED <<mode, handler>>
      \/ /\ p = "handler" /\ handler.op = "startup" /\ HandlerAt' = "settle" /\ TaskAt' = TaskAt
         /\ UNCHANGED <<mode, handler>> /\ Undelivered = {}
      \/ /\ p = "handler" /\ handler.op = "settled" /\ HandlerAt' = "idle" /\ TaskAt' = TaskAt
         /\ mode' = "up" /\ handler' = NoHandler
      \/ /\ p = "handler" /\ handler.op = "resume" /\ HandlerAt' = "idle" /\ handler' = NoHandler
         /\ UNCHANGED mode /\ Undelivered = {}
         /\ TaskAt' = TaskAt \/ (TaskAt = "idle" /\ TaskAt' = "run" /\ status = "running")
  BY <1>1, <1>2 DEF Flushed, Go, Answer, TaskAt, HandlerAt, Inv, Typed, Procs
<1>6. Flat'
  <2> USE <1>1, <1>3, <1>4, <1>5 DEF Flat, NoHandler
  <2>1. Operating'  BY DEF Operating
  <2>2. Booting'  BY DEF Booting, Placed
  <2>3. Placed'  BY DEF Placed
  <2>4. Young'  BY DEF Young
  <2>5. Following'  BY DEF Following, Placed, Terminal
  <2> QED  BY <2>1, <2>2, <2>3, <2>4, <2>5
<1>7. Idle  BY <1>3 DEF Idle, Kinds
<1>8. Shows  BY <1>1, <1>2, <1>3, <1>5 DEF Shows, NoHandler
<1>9. Kinds'  BY <1>1, <1>3, <1>5 DEF Kinds
<1> QED  BY <1>6, <1>7, <1>8, <1>9, EventsStay

(* An event is applied to SQLite, with its receipt.                        *)
LEMMA DeliveredStory ==
  ASSUME Inv, Story, NEW p \in {"task", "handler"}, Flush(p), Undelivered # {}, status \notin Missing,
         Deliver(First), delivery' = p, Go(p, "mark"),
         UNCHANGED <<pg, mode, task, handler, claim, history>>, Still
  PROVE  Story'
<1> USE DEF Story
<1>1. /\ First \in Undelivered /\ First \in DOMAIN pg.outbox /\ pg.outbox[First] \in Event
      /\ \A i \in Undelivered : First <= i
  BY FirstIsUndelivered DEF Inv
<1>2. /\ CreatorAt' = CreatorAt /\ UNCHANGED <<crashes, faults, storeFaults>>
      /\ p = "task" => TaskAt' = "mark" /\ HandlerAt' = HandlerAt
      /\ p = "handler" => HandlerAt' = "mark" /\ TaskAt' = TaskAt
  BY DEF Go, Still, bounds, CreatorAt, TaskAt, HandlerAt, Inv, Typed, Procs
<1>3. receipts' = receipts \cup {First} /\ First \in receipts'  BY DEF Deliver
<1>4. \/ First \in receipts /\ status' = status /\ receipts' = receipts
      \/ First \in Unseen /\ status' = pg.outbox[First].patch /\ (Ends(First) \/ First \in Fresh)
  BY <1>1 DEF Deliver, Unseen, Fresh, Ends, Event
<1>5. /\ Fresh # {} => /\ status \notin Terminal \cup {"waiting_approval"} /\ handler.op # "approve"
                       /\ TaskAt \in {"idle", "release"}
      /\ (\E i \in DOMAIN pg.outbox : Ends(i)) => pg.stage = "final"
  BY EventFacts
<1>6. pg.stage # "none"  BY <1>1 DEF Flat, Young
<1>7. /\ p = "task" => /\ TaskAt = "flush" /\ pg.stage = "final" /\ mode = "up" /\ Fresh = {}
                       /\ handler.op \notin {"resume", "settled", "startup", "launch", "approve"}
                       /\ HandlerAt \notin {"mark", "settle"} /\ HandlerAt # "commit"
                       /\ CreatorAt = "idle" /\ status \in {"running"} \cup Terminal
      /\ p = "handler" => /\ HandlerAt = "flush" /\ TaskAt \in {"idle", "release"} /\ CreatorAt = "idle"
                          /\ handler.op \in {"resume", "startup", "settled"}
                          /\ handler.op # "resume" => TaskAt = "idle" /\ mode = "starting"
      /\ handler.op = "resume" =>
           /\ p = "handler" /\ status \in {"interrupted", "running"}
           /\ pg.stage # "final" /\ (status = "running" \/ Fresh # {})
           /\ \A i \in DOMAIN pg.outbox : ~Ends(i)
      /\ handler.op = "settled" => \E i \in DOMAIN pg.outbox : Ends(i)
  BY Flushing
<1>8. /\ status' \in {status, "running"} \cup Terminal
      /\ p = "task" => status' \in {status} \cup Terminal
      /\ handler.op = "resume" => status' \in {status, "running"}
      /\ status \in Terminal => status' \in Terminal
  BY <1>1, <1>4, <1>5, <1>7 DEF Ends, Fresh
<1>9. Flat'
  <2> USE <1>2, <1>6, <1>7, <1>8 DEF Flat, Terminal
  <2>1. Operating'  BY DEF Operating
  <2>2. Booting'  BY DEF Booting, RunStatus
  <2>3. Placed'  BY DEF Placed, Operating
  <2>4. Young'  BY DEF Young, Missing
  <2>5. Following'  BY DEF Following, Placed, Missing
  <2> QED  BY <2>1, <2>2, <2>3, <2>4, <2>5
<1>10. Kinds'
  <2>1. status' \in RunStatus \cup Missing  BY <1>8 DEF Kinds, RunStatus
  <2>2. receipts' \subseteq DOMAIN pg'.outbox  BY <1>1, <1>3 DEF Kinds
  <2> QED  BY <1>2, <2>1, <2>2 DEF Kinds, Procs
<1>11. Undelivered' = Undelivered /\ First' = First /\ \A i : Ends(i)' = Ends(i)
  BY DEF Undelivered, First, Ends
<1>12. Unseen' = Unseen \ {First} /\ Fresh' = Fresh \ {First}
  BY <1>3, <1>11 DEF Unseen, Fresh
<1>13. ASSUME NEW i \in DOMAIN pg.outbox, Ends(i)
       PROVE  /\ i = Len(pg.outbox)
              /\ i \in receipts \/ pg.outbox[i].state = "delivered" => status \in Terminal \cup {"gone"}
              /\ i \in Unseen /\ status \in Terminal =>
                   status = pg.outbox[i].patch \/ (status = "failed" /\ storeFaults > 0)
              /\ \A j \in DOMAIN pg.outbox : Ends(j) => j = i
  BY <1>13 DEF Events
<1>14. ASSUME NEW i \in DOMAIN pg.outbox
       PROVE  /\ pg.outbox[i].state = "discarded" => pg.cancelRequested
              /\ Ends(i) =>
                   /\ pg.stage = "final" /\ pg.outbox[i].patch = pg.final /\ i = Len(pg.outbox)
                   /\ i \in receipts' \/ pg.outbox[i].state = "delivered" => status' \in Terminal \cup {"gone"}
                   /\ i \in Unseen' /\ status' \in Terminal =>
                        status' = pg.outbox[i].patch \/ (status' = "failed" /\ storeFaults' > 0)
  <2>1. /\ pg.outbox[i].state = "discarded" => pg.cancelRequested
        /\ Ends(i) => pg.stage = "final" /\ pg.outbox[i].patch = pg.final
    BY DEF Events
  <2>2. ASSUME Ends(i), i \in receipts' \/ pg.outbox[i].state = "delivered"
        PROVE  status' \in Terminal \cup {"gone"}
    <3>1. CASE i = First /\ First \notin receipts
      BY <1>4, <2>2, <3>1 DEF Ends
    <3>2. CASE i # First \/ First \in receipts
      <4>1. status \in Terminal  BY <1>3, <1>13, <2>2, <3>2 DEF Missing
      <4> QED  BY <1>8, <4>1
    <3> QED  BY <3>1, <3>2
  <2>3. ASSUME Ends(i), i \in Unseen', status' \in Terminal
        PROVE  status' = pg.outbox[i].patch \/ (status' = "failed" /\ storeFaults' > 0)
    <3>1. i # First /\ i \in Unseen  BY <1>12, <2>3
    <3>2. ~Ends(First)  BY <1>1, <1>13, <2>3, <3>1
    <3>3. status' = status
      <4>1. CASE First \in Fresh
        <5>1. status' = "running" \/ status' = status  BY <1>4, <4>1 DEF Fresh
        <5> QED  BY <2>3, <5>1 DEF Terminal
      <4> QED  BY <1>4, <3>2, <4>1
    <3> QED  BY <1>2, <1>13, <2>3, <3>1, <3>3
  <2> QED  BY <1>13, <2>1, <2>2, <2>3
<1>15. TaskAt' = "mark" \/ HandlerAt' = "mark" => Undelivered' # {} /\ First' \in receipts'
  BY <1>3, <1>11
<1>16. Fresh' # {} => /\ status' \notin Terminal \cup {"waiting_approval"} /\ handler'.op # "approve"
                      /\ TaskAt' \in {"idle", "release"}
  <2> SUFFICES ASSUME NEW j \in Fresh, j # First
               PROVE  /\ status' \notin Terminal \cup {"waiting_approval"} /\ handler'.op # "approve"
                      /\ TaskAt' \in {"idle", "release"}
    BY <1>12
  <2>1. /\ status \notin Terminal \cup {"waiting_approval"} /\ handler.op # "approve"
        /\ TaskAt \in {"idle", "release"} /\ p = "handler"
    BY <1>5, <1>7
  <2>2. ~Ends(First)
    <3>1. j \in Undelivered /\ j \in DOMAIN pg.outbox  BY DEF Fresh, Unseen, Undelivered
    <3>2. First <= j /\ j \in 1..Len(pg.outbox) /\ First \in 1..Len(pg.outbox) /\ Len(pg.outbox) \in Nat
      BY <1>1, <3>1, Outbox DEF Inv
    <3>3. First # Len(pg.outbox)  BY <3>2
    <3> QED  BY <1>1, <1>13, <3>3
  <2>3. status' \in {status, "running"}  BY <1>4, <2>2 DEF Fresh
  <2> QED  BY <1>2, <2>1, <2>3 DEF Terminal
<1>17. handler'.op = "resume" /\ HandlerAt' \in {"flush", "mark"} => status' = "running" \/ Fresh' # {}
  <2> SUFFICES ASSUME handler.op = "resume" PROVE status' = "running" \/ Fresh' # {}
    OBVIOUS
  <2>1. CASE First \in receipts
    <3>1. First \notin Fresh  BY <2>1 DEF Fresh, Unseen
    <3> QED  BY <1>4, <1>7, <1>12, <2>1, <3>1 DEF Unseen
  <2>2. CASE First \notin receipts
    BY <1>1, <1>4, <1>7, <2>2 DEF Fresh
  <2> QED  BY <2>1, <2>2
<1>18. /\ handler'.op = "settled" /\ HandlerAt' # "emit" => \E i \in DOMAIN pg'.outbox : Ends(i)'
       /\ HandlerAt' # "settle"
  BY <1>2, <1>7, <1>11
<1>19. \A i \in DOMAIN pg'.outbox :
         /\ pg'.outbox[i].state = "discarded" => pg'.cancelRequested
         /\ Ends(i)' =>
              /\ pg'.stage = "final" /\ pg'.outbox[i].patch = pg'.final /\ i = Len(pg'.outbox)
              /\ i \in receipts' \/ pg'.outbox[i].state = "delivered" => status' \in Terminal \cup {"gone"}
              /\ i \in Unseen' /\ status' \in Terminal =>
                   status' = pg'.outbox[i].patch \/ (status' = "failed" /\ storeFaults' > 0)
  BY <1>11, <1>14
<1>20. Events'  BY <1>15, <1>16, <1>17, <1>18, <1>19 DEF Events
<1> QED  BY <1>9, <1>10, <1>20

LEMMA FlushStory ==
  ASSUME Inv, Story, NEW p \in {"task", "handler"}, Flush(p)
  PROVE  Story'
<1> USE DEF Story
<1>1. CASE (Undelivered = {} \/ pg.deleted) /\ Flushed(p) /\ Unlock(p) /\ UNCHANGED <<pg, store, claim, sends>> /\ Still
  BY <1>1, FlushedStory
<1>2. CASE /\ Undelivered # {} /\ ~pg.deleted /\ status \notin Missing /\ Deliver(First)
           /\ delivery' = p /\ Go(p, "mark") /\ UNCHANGED <<pg, mode, task, handler, claim, history>> /\ Still
  BY <1>2, DeliveredStory
<1>3. /\ p = "task" => /\ TaskAt = "flush" /\ mode = "up" /\ Fresh = {} /\ CreatorAt = "idle"
                       /\ handler.op \notin {"resume", "settled", "startup", "launch", "approve"}
                       /\ HandlerAt \notin {"mark", "settle"} /\ HandlerAt # "commit"
                       /\ status \in {"running"} \cup Terminal
      /\ p = "handler" => /\ HandlerAt = "flush" /\ TaskAt \in {"idle", "release"} /\ CreatorAt = "idle"
                          /\ handler.op \in {"resume", "startup", "settled"}
                          /\ handler.op \in {"startup", "settled"} <=> mode = "starting"
                          /\ handler.op # "resume" => TaskAt = "idle"
      /\ delivery \in {"free", p} /\ mode \in {"up", "starting"}
  BY Flushing
<1>4. CASE /\ (status \in Missing /\ Still) \/ (storeFaults' = storeFaults + 1 /\ UNCHANGED <<crashes, faults>>)
           /\ p = "task" /\ Fail
  <2>1. /\ TaskAt' \in {"idle", "release"} /\ HandlerAt' = HandlerAt /\ CreatorAt' = CreatorAt
        /\ UNCHANGED <<pg, receipts, mode, handler>> /\ delivery' = "free"
        /\ status' \in {status, "failed"} /\ (status \in Terminal => status' = status)
    BY <1>3, <1>4 DEF Fail, Finally, Unlock, TaskAt, HandlerAt, CreatorAt, Inv, Typed, Procs
  <2>2. storeFaults' = storeFaults + 1 /\ UNCHANGED <<crashes, faults>>
    BY <1>3, <1>4 DEF Missing, Terminal
  <2>3. Flat'
    <3> USE <1>3, <1>4, <2>1 DEF Flat, Terminal
    <3>1. Operating' /\ Booting'  BY DEF Operating, Booting, Placed
    <3>2. Placed'  BY DEF Placed
    <3>3. Young'  BY DEF Young
    <3>4. Following'  BY DEF Following
    <3> QED  BY <3>1, <3>2, <3>3, <3>4
  <2>4. Idle  BY <2>1, <2>2 DEF Idle, Kinds
  <2>5. Shows  BY <1>3, <1>4, <2>1, <2>2 DEF Shows, Terminal, Kinds
  <2>6. Kinds'  BY <2>1, <2>2 DEF Kinds, RunStatus, Terminal
  <2> QED  BY <2>3, <2>4, <2>5, <2>6, EventsStay
<1>5. CASE /\ GiveUp(p) /\ pg' = pg /\ UNCHANGED crashes
           /\ faults' \in {faults, faults + 1} /\ storeFaults' \in {storeFaults, storeFaults + 1}
  <2>1. /\ p = "task" => TaskAt' = "interrupt" /\ HandlerAt' = HandlerAt /\ UNCHANGED <<mode, handler>>
        /\ p = "handler" => /\ HandlerAt' = "idle" /\ handler' = NoHandler /\ TaskAt' = TaskAt
                            /\ mode' = IF mode = "starting" THEN "down" ELSE mode
        /\ CreatorAt' = CreatorAt /\ UNCHANGED <<status, receipts>> /\ delivery' = "free"
    BY <1>3, <1>5 DEF GiveUp, Interrupts, Unlock, Go, store, TaskAt, HandlerAt, CreatorAt, Inv, Typed, Procs
  <2>2. Flat'
    <3> USE <1>3, <1>5, <2>1 DEF Flat, NoHandler
    <3>1. Operating' /\ Booting'  BY DEF Operating, Booting, Placed
    <3>2. Placed'  BY DEF Placed
    <3>3. Young'  BY DEF Young
    <3>4. Following'  BY DEF Following, Terminal
    <3> QED  BY <3>1, <3>2, <3>3, <3>4
  <2>3. Idle  BY <1>5, <2>1 DEF Idle, Kinds
  <2>4. Shows  BY <1>3, <2>1 DEF Shows, NoHandler
  <2>5. Kinds'  BY <1>3, <1>5, <2>1 DEF Kinds
  <2> QED  BY <2>2, <2>3, <2>4, <2>5, EventsStay
<1>6. Still \/ (storeFaults' = storeFaults + 1 /\ UNCHANGED <<crashes, faults>>) \/ Lost(pg)
        => /\ UNCHANGED crashes /\ faults' \in {faults, faults + 1}
           /\ storeFaults' \in {storeFaults, storeFaults + 1}
  BY DEF Still, bounds, Lost
<1> QED  BY <1>1, <1>2, <1>4, <1>5, <1>6 DEF Flush, Lost

-----------------------------------------------------------------------------
(* Story is kept.                                                          *)

LEMMA InitStory == Init => Story
<1> SUFFICES ASSUME Init PROVE Story  OBVIOUS
<1> USE DEF Init, NoTask, NoHandler, TaskAt, HandlerAt, CreatorAt, Procs
<1>1. Kinds /\ Operating  BY DEF Kinds, Operating, Missing
<1>2. Placed /\ Young /\ Following /\ Booting  BY DEF Placed, Young, Following, Booting
<1>3. Events  BY DEF Events, Fresh, Unseen, Undelivered
<1> QED  BY <1>1, <1>2, <1>3 DEF Story, Flat

LEMMA StoryKeeps == Inv /\ Story /\ [Next]_vars => Story'
<1> SUFFICES ASSUME Inv, Story, [Next]_vars PROVE Story'  OBVIOUS
<1> USE DEF Story
<1>1. ASSUME Begin \/ Pause \/ Send \/ Blocked \/ Answered \/ Unanswered \/ Raise \/ Apply \/ Complete
             \/ Interrupt("task") \/ Release
      PROVE  Story'
  BY <1>1, TaskFlat, TaskEvents
<1>2. ASSUME StageStep PROVE Story'  BY <1>2, StageStory
<1>3. ASSUME NEW p \in {"task", "handler"}, Emit(p) \/ Mark(p) \/ Flush(p) PROVE Story'
  BY <1>3, EmitStory, MarkStory, FlushStory
<1>4. ASSUME \/ \E reserved \in BOOLEAN : Create(reserved)
             \/ Launch
             \/ \E p \in {"creator", "handler"} : Bind(p) \/ ClaimInitial(p)
      PROVE  Story'
  BY <1>4, CreatorFlat, OperationEvents
<1>5. ASSUME \/ \E decision \in {"approve", "reject"} : Approve(decision)
             \/ Resume \/ Cancel \/ Delete \/ Lock \/ Await
      PROVE  Story'
  BY <1>5, CommandFlat, OperationEvents
<1>6. ASSUME ClaimApproval \/ \E confirm \in BOOLEAN : ClaimResume(confirm) PROVE Story'
  BY <1>6, ClaimFlat, OperationEvents
<1>7. ASSUME Commit PROVE Story'  BY <1>7, CommitFlat, CommitEvents
<1>8. ASSUME Recover \/ Tombstone PROVE Story'  BY <1>8, StartupFlat, StartupEvents
<1>9. ASSUME Settle PROVE Story'  BY <1>9, StartupFlat, OperationEvents
<1>10. ASSUME Restore PROVE Story'  BY <1>10, ProcessFlat, StartupEvents
<1>11. ASSUME Close \/ Crash \/ Restart \/ Interrupt("handler") \/ UNCHANGED vars PROVE Story'
  BY <1>11, ProcessFlat, OperationEvents
<1>12. ASSUME TaskStep PROVE Story'  BY <1>1, <1>2, <1>3, <1>12 DEF TaskStep, StageStep
<1>13. ASSUME HandlerStep PROVE Story'
  BY <1>3, <1>4, <1>5, <1>6, <1>7, <1>8, <1>9, <1>11, <1>13 DEF HandlerStep
<1>14. ASSUME CreatorStep \/ UserStep PROVE Story'  BY <1>4, <1>5, <1>14 DEF CreatorStep, UserStep
<1> QED  BY <1>10, <1>11, <1>12, <1>13, <1>14 DEF Next

-----------------------------------------------------------------------------
(* What is known of the decision on a plan.                                *)

(* A decision travels with its approval, with the resume that looked it up *)
(* and with the task at work: it is the one stored for the plan that is at *)
(* its approval.                                                           *)
Told ==
  /\ handler.command # "none" => handler.op \in {"approve", "resume"}
  /\ handler.op = "resume" /\ handler.command # "none" =>
       pg.stage = "approval" /\ PendingApproval = handler.command
  /\ TaskAt \in Working /\ task.command # "none" =>
       pg.stage = "approval" /\ PendingApproval = task.command

(* While a plan is made, the last decision is the one on the plan before.  *)
Numbered ==
  /\ pg.stage = "none" => pg.version = 0 /\ pg.decided = 0
  /\ scenario.revision => pg.version = 0 /\ pg.stage \in {"none", "working", "final"}
  /\ pg.stage = "planning" /\ ~AutoApprove => pg.decided = pg.version

Informed == Told /\ Numbered /\ ApprovalFirst

(* Rows with the same plan and the same decision.                          *)
SamePlan(q) ==
  /\ q.stage = pg.stage /\ q.version = pg.version
  /\ q.accepted = pg.accepted /\ q.decided = pg.decided

LEMMA PlanStays ==
  ASSUME Informed, SamePlan(pg'), scenario' = scenario, Told' PROVE Informed'
BY DEF Informed, Numbered, ApprovalFirst, AutoApprove, SamePlan

LEMMA InitInformed == Init => Informed
BY DEF Init, NoTask, NoHandler, Procs, TaskAt, Working, Informed, Told, Numbered, ApprovalFirst

LEMMA PlainInformed == ASSUME Inv, Informed, Plain PROVE Informed'
<1>1. SamePlan(pg') /\ PendingApproval' = PendingApproval /\ pg'.stage = pg.stage /\ scenario' = scenario
  BY DEF Plain, Follows, SamePlan, PendingApproval
<1>2. Told
  BY DEF Informed
<1>3. Told'
  BY <1>1, <1>2 DEF Plain, Holds, Works, Told, TaskAt
<1> QED  BY <1>1, <1>3, PlanStays

(* The graph moves while a task is at work, so no resume is under way.     *)
LEMMA StageInformed == ASSUME Inv, Story, Informed, StageStep PROVE Informed'
<1>1. PICK new, next : Moved(new, next) /\ Graph("run", new, next) /\ Taken /\ UNCHANGED history
  BY StageShape
<1>2. /\ TaskAt = "run" /\ TaskAt \in Working /\ handler.op # "resume"
      /\ handler.op = "approve" => status \in {"waiting_approval", "interrupted"}
      /\ status = "running"
  BY <1>1 DEF Graph, At, TaskAt, Working, Story, Flat, Following
<1>3. handler.command = "none"
  BY <1>2 DEF Informed, Told
<1>4. /\ UNCHANGED handler /\ scenario' = scenario /\ pg' \in {pg, new}
      /\ \/ TaskAt' = "interrupt"
         \/ TaskAt' = next /\ pg' = new
  BY <1>1 DEF Graph, Go, GiveUp, Interrupts, Lost, Still, bounds, Inv, Typed, Procs, TaskAt
<1>5. TaskAt' \in Working => task'.command = "none" \/ (pg.stage # "approval" /\ task'.command = task.command)
  BY <1>1, <1>4 DEF Taken, TaskAt, Working
<1>6. TaskAt' \in Working => task'.command = "none"
  BY <1>2, <1>5 DEF Informed, Told
<1>7. Told'  BY <1>3, <1>4, <1>6 DEF Told
<1>8. CASE pg' = pg
  BY <1>4, <1>7, <1>8, PlanStays DEF SamePlan
<1>9. CASE pg' = new
  <2>1. /\ Route(new) /\ new.accepted = pg.accepted /\ new.decided = pg.decided  BY <1>1 DEF Moved
  <2>2. Numbered /\ ApprovalFirst  BY DEF Informed
  <2>3. CASE /\ pg.stage = "planning" /\ new.version = pg.version + 1
             /\ new.stage = IF AutoApprove THEN "working" ELSE "approval"
    BY <1>4, <1>7, <1>9, <2>1, <2>2, <2>3 DEF Informed, Numbered, ApprovalFirst, AutoApprove
  <2>4. CASE /\ pg.stage = "none" /\ new.version = pg.version
             /\ new.stage = IF scenario.revision THEN "working" ELSE "planning"
    BY <1>4, <1>7, <1>9, <2>1, <2>2, <2>4 DEF Informed, Numbered, ApprovalFirst, AutoApprove
  <2>5. CASE /\ pg.stage = "approval" /\ task.command # "none" /\ new.version = pg.version
             /\ new.stage = IF task.command = "approve" THEN "working" ELSE "final"
    <3>1. PendingApproval = task.command  BY <1>2, <2>5 DEF Informed, Told
    <3>2. pg.decided = pg.version /\ pg.accepted = task.command
      BY <2>5, <3>1 DEF PendingApproval
    <3> QED
      BY <1>4, <1>7, <1>9, <2>1, <2>2, <2>5, <3>2 DEF Informed, Numbered, ApprovalFirst, AutoApprove
  <2>6. CASE /\ pg.stage = "working" /\ ~scenario.revision /\ new.version = pg.version
             /\ new.stage = "planning"
    BY <1>4, <1>7, <1>9, <2>1, <2>2, <2>6 DEF Informed, Numbered, ApprovalFirst, AutoApprove
  <2>7. CASE pg.stage \in {"planning", "working"} /\ new.version = pg.version /\ new.stage = "final"
    BY <1>4, <1>7, <1>9, <2>1, <2>2, <2>7 DEF Informed, Numbered, ApprovalFirst, AutoApprove
  <2> QED  BY <2>1, <2>3, <2>4, <2>5, <2>6, <2>7 DEF Route
<1> QED  BY <1>4, <1>8, <1>9

LEMMA SendInformed == ASSUME Inv, Informed, Send PROVE Informed'
<1> DEFINE new == [pg EXCEPT !.call = "dispatched"]
<1>1. /\ Graph("run", new, "call") /\ UNCHANGED task /\ TaskAt \in Working
  BY DEF Send, Graph, At, TaskAt, Working
<1>2. SamePlan(new) /\ SamePlan(pg)  BY DEF SamePlan, Inv, Typed, Row
<1> HIDE DEF new
<1>3. pg' \in {pg, new} /\ UNCHANGED <<handler, scenario>>
  BY <1>1 DEF Graph, GiveUp, Interrupts, Lost, Still, bounds
<1>4. SamePlan(pg')  BY <1>2, <1>3
<1>5. PendingApproval' = PendingApproval /\ pg'.stage = pg.stage  BY <1>4 DEF SamePlan, PendingApproval
<1>6. Told  BY DEF Informed
<1>7. Told'  BY <1>1, <1>3, <1>5, <1>6 DEF Told
<1> QED  BY <1>3, <1>4, <1>7, PlanStays

(* The user asks: nothing is decided before the claim.                     *)
LEMMA CommandInformed ==
  ASSUME Inv, Informed, NEW op, NEW decision, NEW l, Command(op, decision, l),
         op # "approve" => decision = "none"
  PROVE  Informed'
<1>1. /\ handler' = [op |-> op, claim |-> 0, command |-> decision]
      /\ UNCHANGED <<pg, task, scenario>> /\ pc["handler"] = "idle"
      /\ pc' = [pc EXCEPT !["handler"] = l]
  BY DEF Command, Go
<1>2. TaskAt' = TaskAt  BY <1>1 DEF Inv, Typed, Procs, TaskAt
<1>3. PendingApproval' = PendingApproval /\ SamePlan(pg')  BY <1>1 DEF PendingApproval, SamePlan
<1>4. Told  BY DEF Informed
<1>5. Told'  BY <1>1, <1>2, <1>3, <1>4 DEF Told
<1> QED  BY <1>1, <1>3, <1>5, PlanStays

(* The decision is stored with the claim of the task that will take it.    *)
LEMMA ClaimApprovalInformed == ASSUME Inv, Story, Informed, ClaimApproval PROVE Informed'
<1> DEFINE new == Accepted(handler.command)
<1>0. /\ handler.op = "approve" /\ handler.command \in Decisions /\ pg.stage = "approval"
      /\ status \in {"waiting_approval", "interrupted"} /\ TaskAt \notin Working
  BY DEF ClaimApproval, Inv, Typed, Holding, Story, Flat, Following, Working, RunStatus, Terminal
<1>1. /\ new.stage = "approval" /\ new.version = pg.version
      /\ new.accepted = handler.command /\ new.decided = pg.version
  BY <1>0, AcceptedRow
<1>2. /\ pg' \in {pg, new} /\ handler' = NoHandler /\ scenario' = scenario
      /\ \/ TaskAt' = TaskAt /\ task' = task
         \/ pg' = new /\ task'.command = handler.command
  BY <1>0 DEF ClaimApproval, GiveUp, Interrupts, Go, Lost, Still, bounds, Inv, Typed, Procs, TaskAt
<1> HIDE DEF new
<1>3. pg'.stage = "approval" /\ pg'.version = pg.version  BY <1>0, <1>1, <1>2
<1>4. pg' = new => PendingApproval' = handler.command  BY <1>1 DEF PendingApproval
<1>5. Told'  BY <1>0, <1>2, <1>3, <1>4 DEF Told, NoHandler
<1>6. Numbered' /\ ApprovalFirst'
  BY <1>0, <1>2, <1>3 DEF Informed, Numbered, ApprovalFirst
<1> QED  BY <1>5, <1>6 DEF Informed

LEMMA ClaimResumeInformed ==
  ASSUME Inv, Informed, NEW confirm \in BOOLEAN, ClaimResume(confirm) PROVE Informed'
<1> DEFINE new == [Claimed EXCEPT !.call = IF @ = "unknown" THEN "acknowledged" ELSE @,
                                  !.acks = IF pg.call = "unknown" THEN @ + 1 ELSE @]
<1>1. SamePlan(new) /\ SamePlan(pg)
  BY ClaimedRow DEF Same, SamePlan, Inv, Row
<1>2. /\ pg' \in {pg, new} /\ UNCHANGED <<task, scenario>> /\ TaskAt' = TaskAt
      /\ handler' = NoHandler \/ handler' = [handler EXCEPT !.claim = new.epoch, !.command = PendingApproval]
      /\ handler.op = "resume"
  BY DEF ClaimResume, GiveUp, Interrupts, Go, Lost, Still, bounds, Inv, Typed, Procs, TaskAt
<1> HIDE DEF new
<1>3. SamePlan(pg')  BY <1>1, <1>2
<1>4. PendingApproval' = PendingApproval /\ pg'.stage = pg.stage  BY <1>3 DEF SamePlan, PendingApproval
<1>5. handler'.command = "none" \/ (handler'.op = "resume" /\ handler'.command = PendingApproval)
  <2> DEFINE n == new.epoch  d == PendingApproval
             held == [handler EXCEPT !.claim = n, !.command = d]
  <2>1. handler' = NoHandler \/ handler' = held  BY <1>2
  <2> HIDE DEF n, d
  <2>2. held.op = "resume" /\ held.command = d  BY <1>2 DEF Inv, Typed, Holding
  <2> HIDE DEF held
  <2>3. handler'.command = "none" \/ (handler'.op = "resume" /\ handler'.command = d)
    BY <2>1, <2>2 DEF NoHandler
  <2> QED  BY <2>3 DEF d
<1>6. Told
  BY DEF Informed
<1>7. PendingApproval # "none" => pg.stage = "approval"  BY DEF PendingApproval
<1>8. Told'
  BY <1>2, <1>4, <1>5, <1>6, <1>7 DEF Told
<1> QED  BY <1>2, <1>3, <1>8, PlanStays

LEMMA StepInformed == Inv /\ Story /\ Informed /\ [Next]_vars => Informed'
<1> SUFFICES ASSUME Inv, Story, Informed, [Next]_vars PROVE Informed'  OBVIOUS
<1>1. CASE TaskStep
  BY <1>1, TaskPlain, EmitPlain, FlushPlain, MarkPlain, InterruptPlain, PlainInformed, StageInformed, SendInformed
     DEF TaskStep, StageStep
<1>2. CASE HandlerStep
  BY <1>2, BindPlain, ClaimInitialPlain, LockPlain, CommitPlain, AwaitPlain, EmitPlain, FlushPlain, MarkPlain,
     InterruptPlain, RecoverPlain, TombstonePlain, SettlePlain, PlainInformed,
     ClaimApprovalInformed, ClaimResumeInformed
     DEF HandlerStep
<1>3. CASE CreatorStep
  BY <1>3, LaunchPlain, BindPlain, ClaimInitialPlain, PlainInformed DEF CreatorStep
<1>4. CASE UserStep
  <2>1. CASE \E reserved \in BOOLEAN : Create(reserved)  BY <2>1, CreatePlain, PlainInformed
  <2>2. CASE (\E decision \in {"approve", "reject"} : Approve(decision)) \/ Resume \/ Cancel \/ Delete
    BY <2>2, CommandInformed DEF Approve, Resume, Cancel, Delete
  <2> QED  BY <1>4, <2>1, <2>2 DEF UserStep
<1>5. CASE Close \/ Crash \/ Restart \/ Restore  BY <1>5, ClosePlain, ProcessPlain, PlainInformed
<1>6. CASE UNCHANGED vars
  <2>1. UNCHANGED <<pg, pc, task, handler, scenario>>  BY <1>6 DEF vars, memory, bounds
  <2>2. Told  BY DEF Informed
  <2>3. Told'  BY <2>1, <2>2 DEF Told, TaskAt, PendingApproval
  <2> QED  BY <2>1, <2>3, PlanStays DEF SamePlan
<1> QED  BY <1>1, <1>2, <1>3, <1>4, <1>5, <1>6 DEF Next

(* In every scenario, a run that wants approval works on a plan, or ends   *)
(* with one, only after a decision on that very plan was committed with a  *)
(* claim, through crashes, replans and resumes that look the decision up   *)
(* (approve, ExecutionRuntime.pending_approval); a planner that fails has  *)
(* made no plan since the last decision, and a revision makes none.        *)
THEOREM ApprovalsComeFirst == Spec => []ApprovalFirst
<1>1. Init => Inv /\ Story /\ Informed  BY InitInv, InitStory, InitInformed
<1>2. Inv /\ Story /\ Informed /\ [Next]_vars => (Inv /\ Story /\ Informed)'
  BY StepInv, StoryKeeps, StepInformed
<1>3. Informed => ApprovalFirst  BY DEF Informed
<1> QED  BY <1>1, <1>2, <1>3, PTL DEF Spec

-----------------------------------------------------------------------------
(* What a step may do to the status.                                       *)

Follow ==
  (status \in RunStatus /\ status' \in RunStatus) =>
    \/ status' = status \/ status' \in Allowed(status)
    \/ /\ status = "interrupted" \/ (status = "failed" /\ storeFaults > 0)
       /\ pg.stage = "final" /\ status' = pg.final

LEMMA Interruptible ==
  status \in RunStatus \ Terminal =>
    {"failed", "cancelled", "interrupted"} \subseteq Allowed(status) \cup {status}
BY DEF RunStatus, Terminal, Allowed

LEMMA DeliverFollows ==
  ASSUME Inv, Story, Undelivered # {}, status \notin Missing, Deliver(First)
  PROVE  Follow
<1>1. First \in Undelivered /\ First \in DOMAIN pg.outbox /\ pg.outbox[First] \in Event
  BY FirstIsUndelivered DEF Inv
<1>2. CASE First \in receipts  BY <1>2 DEF Deliver, Follow
<1>3. CASE First \in Fresh
  <2>1. status' = "running"  BY <1>3 DEF Deliver, Fresh, Unseen
  <2>2. status \notin Terminal \cup {"waiting_approval", "pending"}
    BY <1>3, EventFacts, NothingFresh DEF Story, Flat, Young
  <2>3. status \in {"running", "interrupted"}  BY <2>2 DEF Story, Kinds, RunStatus
  <2> QED  BY <2>1, <2>3 DEF Follow, Allowed
<1>4. CASE First \in Unseen /\ Ends(First)
  <2>1. status' = pg.outbox[First].patch /\ status' \in Terminal
    BY <1>4 DEF Deliver, Unseen, Ends
  <2>2. /\ pg.stage = "final" /\ pg.outbox[First].patch = pg.final
        /\ status \in Terminal => status = pg.outbox[First].patch \/ (status = "failed" /\ storeFaults > 0)
    BY <1>1, <1>4 DEF Story, Events
  <2>3. status \notin {"pending", "waiting_approval"}  BY <2>2 DEF Story, Flat, Young, Following
  <2>4. status \in {"running", "interrupted"} \cup Terminal
    BY <2>3 DEF Story, Kinds, RunStatus
  <2>5. "running" \notin Terminal /\ Terminal \subseteq Allowed("running")  BY DEF Terminal, Allowed, RunStatus
  <2> QED  BY <2>1, <2>2, <2>4, <2>5 DEF Follow
<1> QED  BY <1>1, <1>2, <1>3, <1>4 DEF Unseen, Fresh, Ends, Event

LEMMA StepFollows == Inv /\ Story /\ [Next]_vars => Follow
<1> SUFFICES ASSUME Inv, Story, [Next]_vars PROVE Follow  OBVIOUS
<1>1. ASSUME status' = status PROVE Follow  BY <1>1 DEF Follow
<1>2. ASSUME status' \in {status, "failed", "cancelled", "interrupted"},
             status \in Terminal => status' = status
      PROVE  Follow
  BY <1>2, Interruptible DEF Follow
<1>3. ASSUME MayMove(status') PROVE Follow  BY <1>3 DEF MayMove, Follow
<1>4. ASSUME status \notin RunStatus \/ status' \notin RunStatus PROVE Follow  BY <1>4 DEF Follow
<1> HIDE DEF Follow
<1>5. ASSUME Fail PROVE Follow
  <2>1. status' \in {status, "failed"} /\ (status \in Terminal => status' = status)  BY <1>5 DEF Fail
  <2> QED  BY <1>2, <2>1
<1>6. ASSUME NEW p \in Procs, GiveUp(p) PROVE Follow  BY <1>1, <1>6 DEF GiveUp, store
<1>7. ASSUME NEW p \in Procs, Interrupt(p) PROVE Follow
  <2>1. status' = status \/ (~Over /\ status' = "interrupted")  BY <1>7 DEF Interrupt
  <2> QED  BY <1>1, <1>2, <2>1 DEF Over
<1>8. ASSUME NEW p \in {"task", "handler"}, Flush(p) PROVE Follow
  <2>1. CASE UNCHANGED store  BY <1>1, <2>1 DEF store
  <2>2. CASE Undelivered # {} /\ status \notin Missing /\ Deliver(First)  BY <2>2, DeliverFollows
  <2>3. CASE Fail \/ GiveUp(p)  BY <1>5, <1>6, <2>3 DEF Procs
  <2> QED  BY <1>8, <2>1, <2>2, <2>3 DEF Flush
<1>9. ASSUME Begin PROVE Follow
  <2>1. status' = status \/ (MayMove("running") /\ status' = "running")  BY <1>9 DEF Begin
  <2> QED  BY <1>1, <1>3, <2>1
<1>10. ASSUME Apply PROVE Follow
  <2>1. \/ status' = status \/ Fail \/ GiveUp("task")
        \/ MayMove("waiting_approval") /\ status' = "waiting_approval"
    BY <1>10 DEF Apply, store
  <2> QED  BY <1>1, <1>3, <1>5, <1>6, <2>1 DEF Procs
<1>11. ASSUME ClaimApproval PROVE Follow
  <2>1. \/ status' = status \/ GiveUp("handler")
        \/ MayMove("running") /\ status' = "running"
    BY <1>11 DEF ClaimApproval
  <2> QED  BY <1>1, <1>3, <1>6, <2>1 DEF Procs
<1>12. ASSUME Raise PROVE Follow  BY <1>5, <1>12 DEF Raise
<1>13. ASSUME NEW label, NEW new, NEW next, Graph(label, new, next) PROVE Follow
  BY <1>1, <1>6, <1>13 DEF Graph, store, Procs
<1>14. ASSUME StageStep \/ Send \/ Answered \/ Unanswered PROVE Follow
  BY <1>13, <1>14, StageShape DEF Send, Answered, Unanswered
<1>15. ASSUME Pause \/ Blocked \/ Complete \/ Release PROVE Follow
  BY <1>1, <1>6, <1>15 DEF Pause, Blocked, Complete, Release, store, Procs
<1>16. ASSUME NEW p \in {"task", "handler"}, Emit(p) \/ Mark(p) PROVE Follow
  BY <1>1, <1>6, <1>16 DEF Emit, Mark, store, Procs
<1>17. ASSUME NEW p \in {"creator", "handler"}, Bind(p) \/ ClaimInitial(p) PROVE Follow
  <2>1. \/ status' = status \/ GiveUp(p)
        \/ status' = (IF status \in Terminal THEN status ELSE "failed")
    BY <1>17 DEF Bind, ClaimInitial, store
  <2> QED  BY <1>1, <1>2, <1>6, <2>1 DEF Procs
<1>18. ASSUME \E confirm \in BOOLEAN : ClaimResume(confirm) PROVE Follow
  BY <1>1, <1>6, <1>18 DEF ClaimResume, store, Procs
<1>19. ASSUME Lock \/ Await \/ Commit PROVE Follow
  <2>1. status' = status \/ GiveUp("handler") \/ status' = EndedByUser \/ status' = "gone"
    BY <1>19 DEF Lock, Await, Commit, store
  <2>2. "gone" \notin RunStatus  BY DEF RunStatus, Terminal
  <2> QED  BY <1>1, <1>2, <1>4, <1>6, <2>1, <2>2 DEF EndedByUser, Procs
<1>20. ASSUME Recover \/ Tombstone PROVE Follow
  <2>1. \/ status' = status \/ GiveUp("handler") \/ status' = "gone"
        \/ status' = "failed" /\ status \in RunStatus \ Terminal
    BY <1>20 DEF Recover, Tombstone, store
  <2>2. "gone" \notin RunStatus  BY DEF RunStatus, Terminal
  <2> QED  BY <1>1, <1>2, <1>4, <1>6, <2>1, <2>2 DEF Procs
<1>21. ASSUME Settle PROVE Follow
  <2>1. CASE status' = Projected
    <3>1. CASE Projected # "waiting_approval"
      <4>1. Projected \in {status, "cancelled", "failed", "interrupted"}
            /\ (status \in Terminal => Projected = status)
        BY <3>1 DEF Projected
      <4> QED  BY <1>2, <2>1, <4>1
    <3>2. CASE Projected = "waiting_approval" /\ status \in RunStatus
      <4>1. status \notin Terminal /\ (status = "waiting_approval" \/ pg.stage = "approval")
        BY <3>2 DEF Projected, Terminal
      <4>2. status # "pending"  BY <4>1 DEF Story, Flat, Young
      <4>3. MayMove("waiting_approval")
        BY <3>2, <4>1, <4>2 DEF MayMove, Allowed, RunStatus, Terminal
      <4> QED  BY <1>3, <2>1, <3>2, <4>3
    <3> QED  BY <1>4, <3>1, <3>2
  <2>2. CASE status' = status \/ GiveUp("handler")  BY <1>1, <1>6, <2>2 DEF Procs
  <2> QED  BY <1>21, <2>1, <2>2 DEF Settle, store
<1>22. ASSUME \/ \E reserved \in BOOLEAN : Create(reserved)
              \/ Launch
              \/ \E decision \in {"approve", "reject"} : Approve(decision)
              \/ Resume \/ Cancel \/ Delete \/ Close \/ Crash \/ Restart \/ Restore \/ UNCHANGED vars
       PROVE  Follow
  <2>1. status' = status \/ status = "none" \/ status' = "gone"
    BY <1>22 DEF Create, Launch, Approve, Resume, Cancel, Delete, Command, Close, Crash, Restart, Restore,
                 vars, store
  <2>2. "gone" \notin RunStatus /\ "none" \notin RunStatus  BY DEF RunStatus, Terminal
  <2> QED  BY <1>1, <1>4, <2>1, <2>2
<1>23. ASSUME TaskStep PROVE Follow
  BY <1>7, <1>8, <1>9, <1>10, <1>12, <1>14, <1>15, <1>16, <1>23 DEF TaskStep, StageStep, Procs
<1>24. ASSUME HandlerStep PROVE Follow
  BY <1>7, <1>8, <1>11, <1>16, <1>17, <1>18, <1>19, <1>20, <1>21, <1>24 DEF HandlerStep, Procs
<1>25. ASSUME CreatorStep \/ UserStep PROVE Follow  BY <1>17, <1>22, <1>25 DEF CreatorStep, UserStep
<1> QED  BY <1>22, <1>23, <1>24, <1>25 DEF Next

-----------------------------------------------------------------------------
(* What a startup leaves.                                                  *)

Reconciled ==
  /\ status' \in Terminal \cup Missing \cup {"waiting_approval", "interrupted"}
  /\ pg'.owner = 0 /\ pg'.call # "dispatched"

Failures == <<crashes, faults, storeFaults>>

Reconcile ==
  /\ mode = "starting" /\ mode' = "up" => Reconciled
  /\ mode = "starting" /\ mode' = "down" => Failures' # Failures

(* During a startup nobody else moves.                                     *)
LEMMA StartupAlone ==
  ASSUME Inv, Story, Next, mode = "starting"
  PROVE  \/ Recover \/ Tombstone \/ Settle \/ Emit("handler") \/ Mark("handler") \/ Flush("handler")
         \/ Crash \/ mode' = mode
<1>1. /\ pc["creator"] = "idle" /\ pc["task"] = "idle" /\ handler.op \in {"startup", "settled"}
      /\ pc["handler"] \in {"recover", "tombstone", "flush", "mark", "settle", "emit"}
  BY DEF Story, Flat, Placed, Operating, CreatorAt, TaskAt, HandlerAt
<1>2. ~TaskStep
  BY <1>1 DEF TaskStep, Begin, StartGraph, Plan, PlanFails, Replan, Pause, Decide, Send, Blocked, Answered,
              Unanswered, Finish, Raise, Apply, Emit, Flush, Mark, Complete, Interrupt, Release, Graph, At
<1>3. ~CreatorStep  BY <1>1 DEF CreatorStep, Launch, Bind, ClaimInitial, At
<1>4. ~UserStep /\ ~Close /\ ~Restart /\ ~Restore
  BY DEF UserStep, Create, Approve, Resume, Cancel, Delete, Command, Close, Restart, Restore
<1>5. ASSUME HandlerStep
      PROVE  Recover \/ Tombstone \/ Settle \/ Emit("handler") \/ Mark("handler") \/ Flush("handler")
  BY <1>1, <1>5 DEF HandlerStep, Bind, ClaimInitial, ClaimApproval, ClaimResume, Lock, Commit, Await, Interrupt, At
<1> QED  BY <1>2, <1>3, <1>4, <1>5 DEF Next

LEMMA StepReconciles == Inv /\ Story /\ [Next]_vars => Reconcile
<1> SUFFICES ASSUME Inv, Story, [Next]_vars, mode = "starting", mode' # mode PROVE Reconcile
  BY DEF Reconcile
<1>1. Next  BY DEF vars, memory
<1>2. /\ handler.op \in {"startup", "settled"}
      /\ crashes \in Nat /\ faults \in Nat /\ storeFaults \in Nat
      /\ crashes + 1 # crashes /\ faults + 1 # faults /\ storeFaults + 1 # storeFaults
  BY DEF Story, Flat, Placed, Kinds
<1>3. ASSUME mode' # "up", \/ crashes' = crashes + 1 \/ faults' = faults + 1 \/ storeFaults' = storeFaults + 1
      PROVE  Reconcile
  BY <1>2, <1>3 DEF Reconcile, Failures
<1>4. ASSUME mode' = "up", Reconciled PROVE Reconcile  BY <1>4 DEF Reconcile
<1>5. ASSUME NEW new, Lost(new), mode' = "down" PROVE Reconcile  BY <1>3, <1>5 DEF Lost
<1>6. ASSUME GiveUp("handler") PROVE mode' = "down"  BY <1>2, <1>6 DEF GiveUp
<1> HIDE DEF Reconcile
<1>7. ASSUME Crash PROVE Reconcile  BY <1>3, <1>7 DEF Crash
<1>8. ASSUME Emit("handler") \/ Mark("handler") PROVE Reconcile
  <2>1. CASE Emit("handler")  BY <1>5, <1>6, <2>1 DEF Emit
  <2>2. CASE Mark("handler")  BY <1>5, <1>6, <2>2 DEF Mark
  <2> QED  BY <1>8, <2>1, <2>2
<1>9. ASSUME Recover PROVE Reconcile
  <2>1. CASE ~pg.bound /\ status' = (IF status \in RunStatus \ Terminal THEN "failed" ELSE status)
             /\ Started /\ UNCHANGED pg
    <3>1. pg.owner = 0 /\ pg.call = "none"  BY <2>1 DEF Story, Flat, Young
    <3>2. status' \in Terminal \cup Missing  BY <2>1 DEF Story, Kinds, Terminal
    <3> QED  BY <1>4, <2>1, <3>1, <3>2 DEF Started, Reconciled
  <2>2. CASE pg' = Recovered /\ status' = "gone" /\ Started
    BY <1>4, <2>2, RecoveredRow DEF Started, Reconciled, Missing, Inv
  <2>3. CASE Lost(IF pg.bound THEN Recovered ELSE pg) /\ mode' = "down"  BY <1>5, <2>3
  <2> QED  BY <1>9, <2>1, <2>2, <2>3 DEF Recover
<1>10. ASSUME Tombstone PROVE Reconcile
  <2>1. CASE pg' = Cancelled(TRUE) /\ Started /\ UNCHANGED store
    <3> DEFINE tomb == Cancelled(TRUE)
    <3>1. tomb.owner = 0 /\ tomb.call = pg.call  BY CancelledRow DEF Inv
    <3>2. pg' = tomb  BY <2>1
    <3> HIDE DEF tomb
    <3>3. status \in Missing /\ pg.call # "dispatched"
      BY <1>10 DEF Tombstone, At, Story, Flat, Booting, HandlerAt
    <3> QED  BY <1>4, <2>1, <3>1, <3>2, <3>3 DEF Started, Reconciled, store
  <2>2. CASE Lost(Cancelled(TRUE)) /\ GiveUp("handler")  BY <1>5, <1>6, <2>2
  <2> QED  BY <1>10, <2>1, <2>2 DEF Tombstone
<1>11. ASSUME Settle PROVE Reconcile
  <2>1. CASE status' = Projected /\ Started /\ UNCHANGED pg
    <3>1. pg.owner = 0 /\ pg.call # "dispatched"
      BY <1>11 DEF Settle, At, Story, Flat, Booting, HandlerAt
    <3>2. Projected \in Terminal \cup {"waiting_approval", "interrupted"}  BY DEF Projected, Terminal
    <3> QED  BY <1>4, <2>1, <3>1, <3>2 DEF Started, Reconciled
  <2>2. CASE Lost(pg) /\ GiveUp("handler")  BY <1>5, <1>6, <2>2
  <2> QED  BY <1>11, <2>1, <2>2 DEF Settle
<1>12. ASSUME Flush("handler") PROVE Reconcile
  <2>0. /\ handler.op \in {"startup", "settled"} /\ status \in RunStatus /\ ~pg.deleted
        /\ pg.owner = 0 /\ pg.call # "dispatched"
        /\ handler.op = "settled" => \E i \in DOMAIN pg.outbox : Ends(i)
    BY <1>2, <1>12, Flushing
  <2>1. CASE Undelivered = {} /\ Flushed("handler") /\ UNCHANGED <<pg, store>>
    <3>1. handler.op = "settled" /\ mode' = "up"  BY <1>2, <2>1 DEF Flushed
    <3>2. PICK i \in DOMAIN pg.outbox : Ends(i)  BY <2>0, <3>1
    <3>3. pg.outbox[i] \in Event /\ ~pg.cancelRequested
      BY <3>1, Outbox DEF Inv, Story, Flat, Following
    <3>4. pg.outbox[i].state = "delivered"
      BY <2>1, <3>3 DEF Undelivered, Story, Events, Event
    <3>5. status \in Terminal  BY <2>0, <3>2, <3>4 DEF Story, Events, RunStatus
    <3> QED  BY <1>4, <2>0, <2>1, <3>1, <3>5 DEF Reconciled, store
  <2>2. CASE storeFaults' = storeFaults + 1 /\ GiveUp("handler")  BY <1>3, <1>6, <2>2
  <2>3. CASE Lost(pg) /\ GiveUp("handler")  BY <1>5, <1>6, <2>3
  <2>4. "gone" \notin RunStatus /\ "none" \notin RunStatus  BY DEF RunStatus, Terminal
  <2> QED  BY <1>12, <2>0, <2>1, <2>2, <2>3, <2>4 DEF Flush, Missing
<1> QED  BY <1>1, <1>7, <1>8, <1>9, <1>10, <1>11, <1>12, StartupAlone

-----------------------------------------------------------------------------
(* The status of a run moves along the transition table of service.py; off *)
(* it there is one move, by the outcome of the finished graph that comes   *)
(* late (apply_outbox).  For every scenario.                               *)
THEOREM StatusMovesByTable == Spec => StatusFollowsTable
<1>1. Init => Inv /\ Story  BY InitInv, InitStory
<1>2. Inv /\ Story /\ [Next]_vars => (Inv /\ Story)'  BY StepInv, StoryKeeps
<1>3. Inv /\ Story /\ [Next]_vars =>
        [(status \in RunStatus /\ status' \in RunStatus) =>
           \/ status' = status \/ status' \in Allowed(status)
           \/ /\ status = "interrupted" \/ (status = "failed" /\ storeFaults > 0)
              /\ pg.stage = "final" /\ status' = pg.final]_vars
  BY StepFollows DEF Follow
<1> QED  BY <1>1, <1>2, <1>3, PTL DEF Spec, StatusFollowsTable

(* reconcile_startup leaves no run in flight and no claim of the dead      *)
(* process, whatever it finds, and only a failure it meets stops it.  For  *)
(* every scenario.                                                         *)
THEOREM StartupsReconcile == Spec => StartupReconciles
<1>1. Init => Inv /\ Story  BY InitInv, InitStory
<1>2. Inv /\ Story /\ [Next]_vars => (Inv /\ Story)'  BY StepInv, StoryKeeps
<1>3. Inv /\ Story /\ [Next]_vars =>
        [/\ mode = "starting" /\ mode' = "up" =>
              /\ status' \in Terminal \cup Missing \cup {"waiting_approval", "interrupted"}
              /\ pg'.owner = 0 /\ pg'.call # "dispatched"
         /\ mode = "starting" /\ mode' = "down" =>
              <<crashes, faults, storeFaults>>' # <<crashes, faults, storeFaults>>]_vars
  BY StepReconciles DEF Reconcile, Reconciled, Failures
<1> QED  BY <1>1, <1>2, <1>3, PTL DEF Spec, StartupReconciles

-----------------------------------------------------------------------------
(* Whom a run belongs to.  Claims never pass the epoch of the row, and     *)
(* nothing was asked of a run that is not bound.                           *)

Fenced ==
  /\ claim <= pg.epoch /\ task.claim <= pg.epoch /\ handler.claim <= pg.epoch
  /\ ~pg.bound => ~pg.cancelRequested /\ ~pg.deleted /\ ~pg.initial

(* A row that can follow the present one, and claims that can.             *)
Ahead(q) ==
  /\ q.epoch \in Nat /\ q.epoch >= pg.epoch
  /\ ~q.bound => /\ ~pg.bound /\ q.initial = pg.initial
                 /\ q.cancelRequested = pg.cancelRequested /\ q.deleted = pg.deleted

Claims ==
  /\ claim' \in {claim, 0, pg'.epoch}
  /\ task'.claim \in {task.claim, claim, claim', handler.claim, 0, pg'.epoch}
  /\ handler'.claim \in {handler.claim, 0, pg'.epoch}

LEMMA ClaimsFenced == Inv /\ Fenced /\ Ahead(pg') /\ Claims => Fenced'
<1> SUFFICES ASSUME Inv, Fenced, Ahead(pg'), Claims PROVE Fenced'  OBVIOUS
<1>1. /\ pg.epoch \in Nat /\ pg'.epoch \in Nat /\ pg'.epoch >= pg.epoch
      /\ claim \in Nat /\ task.claim \in Nat /\ handler.claim \in Nat
  BY DEF Inv, Typed, Row, Job, Holding, Ahead
<1>2. claim' <= pg'.epoch  BY <1>1 DEF Fenced, Claims
<1>3. task'.claim <= pg'.epoch /\ handler'.claim <= pg'.epoch
  BY <1>1, <1>2 DEF Fenced, Claims
<1> QED  BY <1>2, <1>3 DEF Fenced, Ahead

(* Rows that differ in their events only.                                  *)
Kept(q) ==
  /\ Same(q) /\ q.owner = pg.owner /\ q.epoch = pg.epoch /\ q.call = pg.call
  /\ q.cancelRequested = pg.cancelRequested /\ q.deleted = pg.deleted

LEMMA KeptAhead == ASSUME Inv, NEW q, Kept(q) PROVE Ahead(q)
BY DEF Kept, Same, Ahead, Inv, Typed, Row

LEMMA EmittedRow ==
  ASSUME Inv
  PROVE  /\ Kept(pg) /\ Kept(Emitted("running")) /\ Kept(EmittedFinal)
         /\ ~pg.deleted /\ ~pg.cancelRequested =>
              \E i \in DOMAIN EmittedFinal.outbox : EmittedFinal.outbox[i].patch \in Terminal
<1>1. pg \in Row /\ pg.final \in Terminal /\ pg.outbox \in Seq(Event)  BY DEF Inv, Typed, Row
<1>2. Kept(pg)  BY DEF Kept, Same
<1>3. ASSUME NEW patch PROVE Kept(Emitted(patch))
  <2> DEFINE box == Append(pg.outbox, [patch |-> patch, state |-> "pending"])
  <2>1. Emitted(patch) \in {pg, [pg EXCEPT !.outbox = box]}  BY DEF Emitted
  <2> HIDE DEF box
  <2> QED  BY <1>1, <1>2, <2>1 DEF Kept, Same, Row
<1>4. Kept(EmittedFinal)  BY <1>2, <1>3 DEF EmittedFinal
<1>5. ASSUME ~pg.deleted, ~pg.cancelRequested
      PROVE  \E i \in DOMAIN EmittedFinal.outbox : EmittedFinal.outbox[i].patch \in Terminal
  <2>1. CASE \E i \in DOMAIN pg.outbox : pg.outbox[i].patch \in Terminal  BY <2>1 DEF EmittedFinal
  <2>2. CASE ~\E i \in DOMAIN pg.outbox : pg.outbox[i].patch \in Terminal
    <3> DEFINE e == [patch |-> pg.final, state |-> "pending"]
               box == Append(pg.outbox, e)
               n == Len(pg.outbox) + 1
    <3>1. e \in Event /\ e.patch = pg.final  BY <1>1 DEF Event
    <3>2. EmittedFinal = [pg EXCEPT !.outbox = box]  BY <1>5, <2>2 DEF EmittedFinal, Emitted
    <3> HIDE DEF e
    <3>3. n \in DOMAIN box /\ box[n] = e  BY <1>1, <3>1, AppendProperties
    <3> HIDE DEF box, n
    <3>4. EmittedFinal.outbox = box  BY <1>1, <3>2 DEF Row
    <3> QED  BY <1>1, <3>1, <3>3, <3>4
  <2> QED  BY <2>1, <2>2
<1> QED  BY <1>2, <1>3, <1>4, <1>5

LEMMA MarkedRow ==
  ASSUME Inv, Undelivered # {}
  PROVE  LET new == [pg EXCEPT !.outbox[First].state = "delivered"] IN
         /\ Kept(new) /\ DOMAIN new.outbox = DOMAIN pg.outbox
         /\ \A i \in DOMAIN pg.outbox : new.outbox[i].patch = pg.outbox[i].patch
<1> DEFINE new == [pg EXCEPT !.outbox[First].state = "delivered"]
           box == [pg.outbox EXCEPT ![First].state = "delivered"]
<1>1. /\ pg \in Row /\ pg.outbox \in Seq(Event) /\ First \in DOMAIN pg.outbox /\ pg.outbox[First] \in Event
  BY FirstIsUndelivered DEF Inv, Typed, Row
<1>2. new = [pg EXCEPT !.outbox = box]  BY <1>1 DEF Row
<1>3. DOMAIN box = DOMAIN pg.outbox /\ \A i \in DOMAIN pg.outbox : box[i].patch = pg.outbox[i].patch
  BY <1>1 DEF Event
<1> HIDE DEF new, box
<1>4. Kept(new) /\ new.outbox = box  BY <1>1, <1>2 DEF Kept, Same, Row
<1>5. /\ Kept(new) /\ DOMAIN new.outbox = DOMAIN pg.outbox
      /\ \A i \in DOMAIN pg.outbox : new.outbox[i].patch = pg.outbox[i].patch
  BY <1>3, <1>4
<1> QED  BY <1>5 DEF new

(* The transactions that go ahead.                                         *)
LEMMA RowsAhead ==
  ASSUME Inv
  PROVE  /\ Ahead(pg) /\ Ahead(Recovered) /\ Ahead([pg EXCEPT !.bound = TRUE])
         /\ \A c : Ahead(Released(c))
         /\ pg.bound => /\ Ahead([Claimed EXCEPT !.initial = TRUE])
                        /\ \A d \in Decisions : Ahead(Accepted(d))
                        /\ Ahead([Claimed EXCEPT !.call = IF @ = "unknown" THEN "acknowledged" ELSE @,
                                                 !.acks = IF pg.call = "unknown" THEN @ + 1 ELSE @])
                        /\ Ahead(Cancelled(TRUE)) /\ Ahead(Cancelled(FALSE))
<1>1. pg \in Row /\ pg.epoch \in Nat  BY DEF Inv, Typed, Row
<1>2. Ahead(pg) /\ Ahead([pg EXCEPT !.bound = TRUE])  BY <1>1 DEF Ahead, Row
<1>3. Ahead(Recovered)  BY <1>1, RecoveredRow DEF Ahead, Same, Inv
<1>4. \A c : Ahead(Released(c))  BY <1>1 DEF Ahead, Row, Released
<1>5. ASSUME pg.bound PROVE Ahead(Cancelled(TRUE)) /\ Ahead(Cancelled(FALSE))
  <2>1. ASSUME NEW d \in BOOLEAN PROVE Ahead(Cancelled(d))
    <3> DEFINE q == Cancelled(d)
    <3>1. q.epoch = pg.epoch + 1 /\ q.bound = pg.bound  BY CancelledRow DEF Same, Inv
    <3> HIDE DEF q
    <3> QED  BY <1>1, <1>5, <3>1 DEF Ahead, q
  <2> QED  BY <2>1
<1>6. ASSUME NEW q, q.bound = pg.bound, pg.bound, q.epoch = pg.epoch + 1 PROVE Ahead(q)
  BY <1>1, <1>6 DEF Ahead
<1>7. Claimed \in Row /\ Claimed.epoch = pg.epoch + 1 /\ Claimed.bound = pg.bound
  BY ClaimedRow DEF Inv, Same
<1>8. ASSUME pg.bound PROVE Ahead([Claimed EXCEPT !.initial = TRUE])
  <2> DEFINE q == [Claimed EXCEPT !.initial = TRUE]
  <2>1. q.epoch = Claimed.epoch /\ q.bound = Claimed.bound  BY <1>7 DEF Row
  <2> HIDE DEF q
  <2>2. Ahead(q)  BY <1>6, <1>7, <1>8, <2>1
  <2> QED  BY <2>2 DEF q
<1>9. ASSUME pg.bound, NEW d \in Decisions PROVE Ahead(Accepted(d))
  <2> DEFINE q == Accepted(d)
  <2>1. q.epoch = Claimed.epoch /\ q.bound = Claimed.bound  BY <1>7 DEF Row, Accepted
  <2> HIDE DEF q
  <2>2. Ahead(q)  BY <1>6, <1>7, <1>9, <2>1
  <2> QED  BY <2>2 DEF q
<1>10. ASSUME pg.bound
       PROVE  Ahead([Claimed EXCEPT !.call = IF @ = "unknown" THEN "acknowledged" ELSE @,
                                    !.acks = IF pg.call = "unknown" THEN @ + 1 ELSE @])
  <2> DEFINE q == [Claimed EXCEPT !.call = IF @ = "unknown" THEN "acknowledged" ELSE @,
                                  !.acks = IF pg.call = "unknown" THEN @ + 1 ELSE @]
  <2>1. q.epoch = Claimed.epoch /\ q.bound = Claimed.bound  BY <1>7 DEF Row
  <2> HIDE DEF q
  <2>2. Ahead(q)  BY <1>6, <1>7, <1>10, <2>1
  <2> QED  BY <2>2 DEF q
<1> QED  BY <1>2, <1>3, <1>4, <1>5, <1>8, <1>9, <1>10

LEMMA FinallyClaim ==
  ASSUME Typed, NEW m, NEW others, Finally(m, others) \/ Kill(m, others)
  PROVE  task'.claim \in {task.claim, m}
<1>1. task \in Job  BY DEF Typed
<1> QED  BY <1>1 DEF Finally, Kill, Job

LEMMA StepFenced == Inv /\ Story /\ Fenced /\ [Next]_vars => Fenced'
<1> SUFFICES ASSUME Inv, Story, Fenced, [Next]_vars PROVE Ahead(pg') /\ Claims
  BY ClaimsFenced
<1> DEFINE Alike == claim' = claim /\ task'.claim = task.claim /\ handler'.claim \in {handler.claim, 0}
           Good == Ahead(pg') /\ Claims
<1>1. Alike => Claims  BY DEF Claims
<1>2. NoHandler.claim = 0 /\ NoTask.claim = 0  BY DEF NoHandler, NoTask
<1>3. ASSUME NEW p, GiveUp(p) PROVE Alike  BY <1>2, <1>3 DEF GiveUp
<1>4. ASSUME NEW new, Ahead(new), Lost(new) PROVE Ahead(pg')  BY <1>4, RowsAhead DEF Lost
<1>5. Ahead(pg) /\ Ahead(Recovered)  BY RowsAhead
<1> HIDE DEF Alike
<1>6. ASSUME Fail PROVE Good
  <2>1. task'.claim \in {task.claim, claim} /\ claim' = claim /\ handler' = handler /\ pg' = pg
    BY <1>6, FinallyClaim DEF Fail, Inv
  <2> QED  BY <1>5, <2>1 DEF Claims
<1>7. ASSUME NEW label, NEW new, NEW next, Graph(label, new, next), task'.claim = task.claim,
             pg.bound => Ahead(new)
      PROVE  Good
  <2>1. Valid(claim) => pg.bound  BY DEF Valid, Story, Flat, Young
  <2>2. CASE Valid(claim) /\ pg' = new /\ UNCHANGED <<handler, claim>>
    BY <1>1, <1>7, <2>1, <2>2 DEF Alike
  <2>3. CASE UNCHANGED pg /\ GiveUp("task")  BY <1>1, <1>3, <1>5, <2>3
  <2>4. CASE Lost(IF Valid(claim) THEN new ELSE pg) /\ GiveUp("task")
    <3>1. Ahead(IF Valid(claim) THEN new ELSE pg)  BY <1>5, <1>7, <2>1
    <3> HIDE DEF Good
    <3>2. Ahead(pg')  BY <1>4, <2>4, <3>1
    <3> QED  BY <1>1, <1>3, <2>4, <3>2 DEF Good
  <2> QED  BY <1>7, <2>2, <2>3, <2>4 DEF Graph
<1>8. \A x : Ahead([pg EXCEPT !.call = x])  BY DEF Ahead, Inv, Typed, Row
<1>9. ASSUME Send \/ Answered \/ Unanswered PROVE Good
  <2>1. CASE Send  BY <1>7, <1>8, <2>1 DEF Send
  <2>2. CASE Answered  BY <1>7, <1>8, <2>2 DEF Answered
  <2>3. CASE Unanswered  BY <1>7, <1>8, <2>3 DEF Unanswered
  <2> QED  BY <1>9, <2>1, <2>2, <2>3
<1>10. ASSUME StageStep PROVE Good
  <2>1. PICK new, next : Moved(new, next) /\ Graph("run", new, next) /\ Taken
    BY <1>10, StageShape
  <2>2. Ahead(new) /\ task'.claim = task.claim
    BY <2>1 DEF Moved, Taken, Ahead, Inv, Typed, Row
  <2> QED  BY <1>7, <2>1, <2>2
<1>11. ASSUME Begin \/ Pause \/ Blocked PROVE Good
  BY <1>1, <1>3, <1>5, <1>11 DEF Begin, Pause, Blocked, Alike
<1>12. ASSUME Raise PROVE Good  BY <1>6, <1>12 DEF Raise
<1>13. ASSUME Apply PROVE Good
  <2>1. \/ UNCHANGED <<pg, task, claim, handler>> \/ Fail
        \/ Lost(pg) /\ GiveUp("task")
    BY <1>13 DEF Apply
  <2> QED  BY <1>1, <1>3, <1>4, <1>5, <1>6, <2>1 DEF Alike
<1>14. ASSUME Complete PROVE Good
  <2>1. CASE Finally(claim, pc) /\ UNCHANGED <<pg, handler, claim>>
    <3>1. task'.claim \in {task.claim, claim}  BY <2>1, FinallyClaim DEF Inv
    <3> QED  BY <1>5, <2>1, <3>1 DEF Claims
  <2>2. CASE UNCHANGED pg /\ GiveUp("task")  BY <1>1, <1>3, <1>5, <2>2
  <2>3. CASE Lost(pg) /\ GiveUp("task")  BY <1>1, <1>3, <1>4, <1>5, <2>3
  <2> QED  BY <1>14, <2>1, <2>2, <2>3 DEF Complete
<1>15. ASSUME Release PROVE Good
  <2>1. Ahead(Released(task.claim))  BY RowsAhead
  <2>2. Ahead(pg')  BY <1>4, <1>15, <2>1 DEF Release
  <2>3. claim' \in {claim, 0} /\ UNCHANGED <<task, handler>>  BY <1>15 DEF Release
  <2> QED  BY <2>2, <2>3 DEF Claims
<1>16. ASSUME NEW p \in Procs, Interrupt(p) PROVE Good
  <2>1. Ahead(IF pg.bound THEN Recovered ELSE pg)  BY <1>5
  <2>2. Ahead(pg')  BY <1>4, <1>5, <1>16, <2>1 DEF Interrupt
  <2>3. claim' \in {claim, 0}  BY <1>16 DEF Interrupt
  <2>4. CASE p = "task"
    <3>1. Finally(claim', pc) /\ UNCHANGED handler  BY <1>16, <2>4 DEF Interrupt
    <3>2. task'.claim \in {task.claim, claim'}  BY <3>1, FinallyClaim DEF Inv
    <3> QED  BY <2>2, <2>3, <3>1, <3>2 DEF Claims
  <2>5. CASE p # "task"
    BY <1>2, <1>16, <2>2, <2>3, <2>5 DEF Interrupt, Answer, Claims
  <2> QED  BY <2>4, <2>5
<1>17. ASSUME NEW p \in {"task", "handler"}, Emit(p) PROVE Good
  <2> DEFINE new == IF p = "handler" /\ handler.op = "resume" THEN Emitted("running") ELSE EmittedFinal
  <2>1. Ahead(new)  BY EmittedRow, KeptAhead
  <2>2. \/ pg' = new /\ UNCHANGED <<task, handler, claim>>
        \/ Lost(new) /\ GiveUp(p)
    BY <1>17 DEF Emit
  <2> HIDE DEF new
  <2> QED  BY <1>1, <1>3, <1>4, <2>1, <2>2 DEF Alike
<1>18. ASSUME NEW p \in {"task", "handler"}, Mark(p) PROVE Good
  <2> DEFINE new == [pg EXCEPT !.outbox[First].state = "delivered"]
  <2>1. Undelivered # {}  BY <1>18 DEF Mark, At, Story, Events, TaskAt, HandlerAt
  <2>2. Ahead(new)  BY <2>1, MarkedRow, KeptAhead
  <2>3. \/ pg' = new /\ UNCHANGED <<task, handler, claim>>
        \/ Lost(new) /\ GiveUp(p)
    BY <1>18 DEF Mark
  <2> HIDE DEF new
  <2> QED  BY <1>1, <1>3, <1>4, <2>2, <2>3 DEF Alike
<1>19. ASSUME NEW p \in {"task", "handler"}, Flush(p) PROVE Good
  <2>1. CASE Flushed(p) /\ UNCHANGED <<pg, claim>>
    <3>1. task'.claim \in {task.claim, handler.claim} /\ handler'.claim \in {handler.claim, 0}
      BY <1>2, <2>1 DEF Flushed, Answer
    <3> QED  BY <1>5, <2>1, <3>1 DEF Claims
  <2>2. CASE UNCHANGED <<pg, task, handler, claim>>  BY <1>1, <1>5, <2>2 DEF Alike
  <2>3. CASE Fail  BY <1>6, <2>3
  <2>4. CASE UNCHANGED pg /\ GiveUp(p)  BY <1>1, <1>3, <1>5, <2>4
  <2>5. CASE Lost(pg) /\ GiveUp(p)  BY <1>1, <1>3, <1>4, <1>5, <2>5
  <2> QED  BY <1>19, <2>1, <2>2, <2>3, <2>4, <2>5 DEF Flush
<1>20. ASSUME TaskStep PROVE Good
  BY <1>9, <1>10, <1>11, <1>12, <1>13, <1>14, <1>15, <1>16, <1>17, <1>18, <1>19, <1>20
     DEF TaskStep, StageStep, Procs
<1>21. ASSUME NEW p \in {"creator", "handler"}, Bind(p) PROVE Good
  <2> DEFINE new == [pg EXCEPT !.bound = TRUE]
  <2>1. Ahead(new)  BY RowsAhead
  <2>2. \/ pg' = new /\ UNCHANGED <<task, handler, claim>>
        \/ UNCHANGED <<pg, task, claim>> /\ Answer
        \/ Lost(new) /\ GiveUp(p)
    BY <1>21 DEF Bind
  <2> HIDE DEF new
  <2> QED  BY <1>1, <1>2, <1>3, <1>4, <1>5, <2>1, <2>2 DEF Alike, Answer
<1>22. ASSUME NEW p \in {"creator", "handler"}, ClaimInitial(p) PROVE Good
  <2> DEFINE new == [Claimed EXCEPT !.initial = TRUE]
             row == IF Claimable THEN new ELSE pg
  <2>1. Claimable => Ahead(new)  BY RowsAhead DEF Claimable
  <2>2. Ahead(row)  BY <1>5, <2>1
  <2>3. \/ /\ (pg' = pg /\ claim' = claim) \/ (Claimable /\ pg' = new /\ claim' = new.epoch)
           /\ task' = NoTask /\ handler' \in {handler, NoHandler}
        \/ UNCHANGED pg /\ GiveUp(p)
        \/ Lost(row) /\ GiveUp(p)
    BY <1>22 DEF ClaimInitial
  <2> HIDE DEF new, row
  <2>4. CASE /\ (pg' = pg /\ claim' = claim) \/ (Claimable /\ pg' = new /\ claim' = new.epoch)
             /\ task' = NoTask /\ handler' \in {handler, NoHandler}
    BY <1>2, <1>5, <2>1, <2>4 DEF Claims
  <2> QED  BY <1>1, <1>3, <1>4, <1>5, <2>2, <2>3, <2>4
<1>23. ASSUME ClaimApproval PROVE Good
  <2> DEFINE new == Accepted(handler.command)
             granted == Claimable /\ pg.call # "unknown"
             row == IF granted THEN new ELSE pg
  <2>1. granted => Ahead(new)  BY RowsAhead DEF Claimable, Inv, Typed, Holding
  <2>2. Ahead(row)  BY <1>5, <2>1
  <2>3. \/ /\ granted /\ pg' = new /\ claim' = new.epoch /\ handler' = NoHandler
           /\ task' = task \/ task'.claim = new.epoch
        \/ UNCHANGED pg /\ GiveUp("handler")
        \/ Lost(row) /\ GiveUp("handler")
    BY <1>23 DEF ClaimApproval
  <2> HIDE DEF new, granted, row
  <2>4. CASE /\ granted /\ pg' = new /\ claim' = new.epoch /\ handler' = NoHandler
             /\ task' = task \/ task'.claim = new.epoch
    BY <1>2, <2>1, <2>4 DEF Claims
  <2> QED  BY <1>1, <1>3, <1>4, <1>5, <2>2, <2>3, <2>4
<1>24. ASSUME NEW confirm \in BOOLEAN, ClaimResume(confirm) PROVE Good
  <2> DEFINE new == [Claimed EXCEPT !.call = IF @ = "unknown" THEN "acknowledged" ELSE @,
                                    !.acks = IF pg.call = "unknown" THEN @ + 1 ELSE @]
             granted == Resumable /\ (pg.call = "unknown" => confirm)
             row == IF granted THEN new ELSE pg
             held == [handler EXCEPT !.claim = new.epoch, !.command = PendingApproval]
  <2>1. granted => Ahead(new)  BY RowsAhead DEF Resumable
  <2>2. Ahead(row)  BY <1>5, <2>1
  <2>3. \/ granted /\ pg' = new /\ claim' = new.epoch /\ handler' = held /\ task' = task
        \/ UNCHANGED pg /\ GiveUp("handler")
        \/ Lost(row) /\ GiveUp("handler")
    BY <1>24 DEF ClaimResume
  <2>4. held.claim = new.epoch
    <3> DEFINE n == new.epoch  d == PendingApproval
    <3> HIDE DEF n, d
    <3>1. handler \in Holding /\ held = [handler EXCEPT !.claim = n, !.command = d]
      BY DEF Inv, Typed, n, d
    <3> HIDE DEF held
    <3>2. held.claim = n  BY <3>1 DEF Holding
    <3> QED  BY <3>2 DEF n
  <2> HIDE DEF new, granted, row, held
  <2>5. CASE granted /\ pg' = new /\ claim' = new.epoch /\ handler' = held /\ task' = task
    BY <2>1, <2>4, <2>5 DEF Claims
  <2> QED  BY <1>1, <1>3, <1>4, <1>5, <2>2, <2>3, <2>5
<1>25. ASSUME Lock \/ Await PROVE Good
  BY <1>1, <1>2, <1>5, <1>25 DEF Lock, Await, Alike, Answer
<1>26. ASSUME Commit PROVE Good
  <2> DEFINE deletes == handler.op = "delete"
             row(d) == IF pg.bound THEN Cancelled(d) ELSE pg
             some == row(deletes)  cut == row(FALSE)  tomb == row(TRUE)
  <2>1. deletes \in {TRUE, FALSE}  OBVIOUS
  <2>2. Ahead(cut) /\ Ahead(tomb)  BY <1>5, RowsAhead
  <2>3. Ahead(some)
    <3>1. CASE deletes = TRUE  BY <2>2, <3>1
    <3>2. CASE deletes = FALSE  BY <2>2, <3>2
    <3> QED  BY <2>1, <3>1, <3>2
  <2>4. \/ /\ pg' = cut /\ claim' \in {claim, 0}
           /\ \/ Answer /\ UNCHANGED task
              \/ Kill(claim', [pc EXCEPT !["handler"] = "await"]) /\ UNCHANGED handler
        \/ UNCHANGED pg /\ GiveUp("handler")
        \/ pg' = tomb /\ claim' \in {claim, 0} /\ Answer /\ UNCHANGED task
        \/ Lost(some) /\ GiveUp("handler")
    BY <1>26 DEF Commit
  <2> HIDE DEF deletes, some, cut, tomb
  <2>5. CASE pg' \in {cut, tomb} /\ claim' \in {claim, 0} /\ Answer /\ UNCHANGED task
    BY <1>2, <2>2, <2>5 DEF Claims, Answer
  <2>6. CASE pg' = cut /\ claim' \in {claim, 0} /\ Kill(claim', [pc EXCEPT !["handler"] = "await"]) /\ UNCHANGED handler
    <3>1. task'.claim \in {task.claim, claim'}  BY <2>6, FinallyClaim DEF Inv
    <3> QED  BY <2>2, <2>6, <3>1 DEF Claims
  <2> QED  BY <1>1, <1>3, <1>4, <1>5, <2>2, <2>3, <2>4, <2>5, <2>6
<1>27. ASSUME Recover PROVE Good
  <2> DEFINE row == IF pg.bound THEN Recovered ELSE pg
  <2>1. Ahead(row)  BY <1>5
  <2>2. pg' \in {pg, Recovered} \/ Lost(row)  BY <1>27 DEF Recover
  <2> HIDE DEF row
  <2>3. Ahead(pg')  BY <1>4, <1>5, <2>1, <2>2
  <2>4. UNCHANGED <<task, claim>> /\ handler' \in {handler, NoHandler}
    BY <1>27 DEF Recover, Started, Answer
  <2> QED  BY <1>1, <1>2, <2>3, <2>4 DEF Alike
<1>28. ASSUME Tombstone PROVE Good
  <2> DEFINE tomb == Cancelled(TRUE)
  <2>1. pg.bound  BY <1>28 DEF Tombstone, At, Story, Flat, Placed, Operating, Booting, HandlerAt, Inv, Typed, Holding
  <2>2. Ahead(tomb)  BY <2>1, RowsAhead
  <2>3. \/ pg' = tomb /\ UNCHANGED <<task, claim>> /\ Answer
        \/ Lost(tomb) /\ GiveUp("handler")
    BY <1>28 DEF Tombstone, Started
  <2> HIDE DEF tomb
  <2> QED  BY <1>1, <1>2, <1>3, <1>4, <2>2, <2>3 DEF Alike, Answer
<1>29. ASSUME Settle PROVE Good
  <2>1. \/ /\ UNCHANGED <<pg, task, claim>>
           /\ handler' \in {NoHandler, [NoHandler EXCEPT !.op = "settled"]}
        \/ Lost(pg) /\ GiveUp("handler")
    BY <1>29 DEF Settle, Started, Answer
  <2>2. [NoHandler EXCEPT !.op = "settled"].claim = 0  BY DEF NoHandler
  <2>3. CASE /\ UNCHANGED <<pg, task, claim>>
             /\ handler' \in {NoHandler, [NoHandler EXCEPT !.op = "settled"]}
    <3>1. Alike  BY <1>2, <2>2, <2>3 DEF Alike
    <3> QED  BY <1>1, <1>5, <2>3, <3>1
  <2>4. CASE Lost(pg) /\ GiveUp("handler")  BY <1>1, <1>3, <1>4, <1>5, <2>4
  <2> QED  BY <2>1, <2>3, <2>4
<1>30. ASSUME HandlerStep PROVE Good
  BY <1>16, <1>17, <1>18, <1>19, <1>21, <1>22, <1>23, <1>24, <1>25, <1>26, <1>27, <1>28, <1>29, <1>30
     DEF HandlerStep, Procs
<1>31. ASSUME \/ \E reserved \in BOOLEAN : Create(reserved)
              \/ \E decision \in {"approve", "reject"} : Approve(decision)
              \/ Launch \/ Resume \/ Cancel \/ Delete
       PROVE  Good
  BY <1>1, <1>2, <1>5, <1>31 DEF Create, Launch, Approve, Resume, Cancel, Delete, Command, Alike, NoHandler
<1>32. ASSUME Close PROVE Good
  <2>1. task'.claim \in {task.claim, claim} /\ UNCHANGED <<pg, claim>> /\ handler'.claim = 0
    BY <1>32, FinallyClaim DEF Close, Inv, NoHandler
  <2> QED  BY <1>5, <2>1 DEF Claims
<1>33. ASSUME Crash \/ Restart \/ Restore \/ UNCHANGED vars PROVE Good
  <2>1. claim' \in {claim, 0} /\ UNCHANGED <<pg, task>> /\ handler'.claim \in {handler.claim, 0}
    BY <1>2, <1>33 DEF Crash, Restart, Restore, vars, memory, NoHandler
  <2> QED  BY <1>5, <2>1 DEF Claims
<1>34. ASSUME CreatorStep \/ UserStep PROVE Good
  BY <1>21, <1>22, <1>31, <1>34 DEF CreatorStep, UserStep
<1> QED  BY <1>20, <1>30, <1>32, <1>33, <1>34 DEF Next

-----------------------------------------------------------------------------
(* While the stores answer, a run is in somebody's care.                   *)

Calm == mode = "up" /\ StoresWork /\ ~refused /\ handler.op # "close"

Owned ==
  /\ pg.owner = claim /\ claim # 0 /\ pg.bound /\ ~pg.cancelRequested /\ ~pg.deleted
  /\ task.kind = "continue" => task.claim = claim

Resuming == handler.op = "resume" /\ HandlerAt # "claim"

(* A task that works owns the run.                                         *)
Attended ==
  /\ TaskAt \in {"run", "call", "apply", "emit", "flush", "mark"} => Owned
  /\ TaskAt = "complete" => status = "gone" \/ (Owned /\ status \in {"waiting_approval"} \cup Terminal)
  /\ TaskAt = "interrupt" => status = "gone" \/ (Owned /\ status = "running" /\ pg.stage = "working")
  /\ TaskAt = "begin" /\ status = "pending" => Owned

(* Before it delivers it has emitted how the run ended.                    *)
Concluded == TaskAt \in {"flush", "mark"} => \E i \in DOMAIN pg.outbox : Ends(i)

(* Where nobody works there is somebody to come, and what the user asked   *)
(* for is shown or about to be.                                            *)
Expected ==
  /\ status = "running" /\ TaskAt \in {"idle", "release", "complete"} => HandlerAt = "await" \/ Resuming
  /\ status = "pending" /\ ~pg.initial => pg.owner = 0
  /\ HandlerAt \in {"bind", "initial"} \/ CreatorAt # "idle" => ~pg.initial
  /\ pg.deleted => status = "gone"
  /\ pg.cancelRequested => status \in Terminal \cup {"gone"} \/ HandlerAt = "await"
  /\ ~(handler.op = "launch" /\ HandlerAt = "interrupt")

(* A run that waits is free once its task has ended, one that was          *)
(* interrupted is free until somebody resumes it.                          *)
Answerable ==
  /\ status = "waiting_approval" =>
       /\ TaskAt = "idle" => pg.owner = 0
       /\ TaskAt = "release" => pg.owner \in {0, task.claim}
  /\ status = "interrupted" =>
       /\ pg.bound /\ pg.stage \notin {"none", "final"} /\ (pg.stage = "approval" => PendingApproval # "none")
       /\ ~Resuming => pg.owner = 0
  /\ Resuming => /\ pg.owner = handler.claim /\ claim = handler.claim /\ claim # 0
                 /\ TaskAt = "release" => task.claim < claim

Cared == Calm => Attended /\ Concluded /\ Expected /\ Answerable

LEMMA StageCared ==
  ASSUME Inv, Story, Fenced, Cared, Calm', StageStep
  PROVE  Attended' /\ Expected' /\ Answerable'
<1>1. PICK new, next : Moved(new, next) /\ Graph("run", new, next) /\ Taken /\ UNCHANGED history
  BY StageShape
<1>2. ~Lost(IF Valid(claim) THEN new ELSE pg)  BY DEF Story, Kinds, Calm, StoresWork, Lost
<1>3. TaskAt = "run" /\ Calm /\ Owned /\ Valid(claim)
  <2>1. UNCHANGED <<refused, faults, storeFaults>>
    BY <1>1, <1>2 DEF Graph, Still, bounds, history
  <2>2. TaskAt = "run" /\ mode = "up" /\ handler' = handler
    BY <1>1, <1>2 DEF Graph, At, GiveUp, Interrupts, Story, Flat, Placed, TaskAt
  <2>3. Calm  BY <2>1, <2>2 DEF Calm, StoresWork
  <2>4. Owned  BY <2>2, <2>3 DEF Cared, Attended
  <2> QED  BY <2>2, <2>3, <2>4 DEF Owned, Valid
<1>4. /\ pg' = new /\ pc' = [pc EXCEPT !["task"] = next] /\ UNCHANGED <<status, handler, claim>>
      /\ next \in {"run", "apply"}
  BY <1>1, <1>2, <1>3 DEF Graph, Go, store, Moved
<1>5. TaskAt' = next /\ HandlerAt' = HandlerAt /\ CreatorAt' = CreatorAt /\ Resuming' = Resuming
  BY <1>4 DEF Inv, Typed, Procs, TaskAt, HandlerAt, CreatorAt, Resuming
<1>6. Owned'
  <2>1. /\ new.owner = pg.owner /\ new.bound = pg.bound /\ new.cancelRequested = pg.cancelRequested
        /\ new.deleted = pg.deleted /\ task'.claim = task.claim /\ task'.kind = task.kind
    BY <1>1 DEF Moved, Taken
  <2> QED  BY <1>3, <1>4, <2>1 DEF Owned
<1>7. status = "running" /\ ~Resuming
  BY <1>3 DEF Story, Flat, Placed, Following, Resuming
<1> QED
  BY <1>1, <1>3, <1>4, <1>5, <1>6, <1>7
  DEF Moved, Attended, Expected, Answerable, Cared, Owned, Terminal

LEMMA TaskCared ==
  ASSUME Inv, Story, Fenced, Cared, Calm',
         \/ Begin \/ StageStep \/ Pause \/ Send \/ Blocked \/ Answered \/ Unanswered \/ Raise
         \/ Apply \/ Complete \/ Interrupt("task") \/ Release
  PROVE  Attended' /\ Expected' /\ Answerable'
<1> USE DEF Inv, Typed, Story, Kinds, Flat, Operating, Placed, Young, Following, CreatorAt, TaskAt, Decided,
            HandlerAt, Row, Job, Holding, Labels, Procs, Terminal, Missing, RunStatus, Go, At, Lost, GiveUp,
            Interrupts, Unlock, Still, bounds, store, history, Calm, StoresWork, Cared, Owned, Resuming,
            Attended, Expected, Answerable, Fenced, PendingApproval
<1>1. CASE Begin  BY SMTT(30), <1>1 DEF Begin, MayMove, Allowed
<1>2. CASE Pause  BY SMTT(30), <1>2 DEF Pause
<1>3. CASE Send  BY SMTT(30), <1>3 DEF Send, Graph, Valid
<1>4. CASE Blocked  BY SMTT(30), <1>4 DEF Blocked
<1>5. CASE Answered  BY SMTT(30), <1>5 DEF Answered, Graph, Valid
<1>6. CASE Unanswered  BY SMTT(30), <1>6 DEF Unanswered, Graph, Valid
<1>7. CASE Raise  BY SMTT(30), <1>7 DEF Raise, Fail, Finally
<1>8. CASE Apply  BY SMTT(30), <1>8 DEF Apply, Fail, Finally, MayMove, Allowed
<1>9. CASE Complete  BY SMTT(30), <1>9 DEF Complete, Finally, Held, Valid
<1>10. CASE Interrupt("task")
  BY SMTT(30), <1>10, RecoveredRow DEF Interrupt, Over, Finally, Same
<1>11. CASE Release  BY SMTT(30), <1>11 DEF Release, Released
<1>12. CASE StageStep  BY <1>12, StageCared
<1> QED  BY <1>1, <1>2, <1>3, <1>4, <1>5, <1>6, <1>7, <1>8, <1>9, <1>10, <1>11, <1>12

LEMMA OperationCared ==
  ASSUME Inv, Story, Fenced, Cared, Calm',
         \/ \E reserved \in BOOLEAN : Create(reserved)
         \/ Launch
         \/ \E p \in {"creator", "handler"} : Bind(p)
         \/ \E decision \in {"approve", "reject"} : Approve(decision)
         \/ Resume \/ Cancel \/ Delete \/ Lock \/ Await
         \/ Close \/ Crash \/ Restart \/ Restore \/ Interrupt("handler") \/ UNCHANGED vars
  PROVE  Attended' /\ Expected' /\ Answerable'
<1> USE DEF Inv, Typed, Story, Kinds, Flat, Operating, Placed, Young, Following, CreatorAt, TaskAt, Decided,
            HandlerAt, Row, Job, Holding, Labels, Procs, Terminal, Missing, RunStatus, Go, At, Lost, GiveUp,
            Interrupts, Unlock, Still, bounds, store, memory, history, Calm, StoresWork, Cared, Owned, Resuming,
            Attended, Expected, Answerable, Fenced, Answer, NoHandler, PendingApproval
<1>1. CASE \E reserved \in BOOLEAN : Create(reserved)  BY SMTT(30), <1>1 DEF Create
<1>2. CASE Launch  BY SMTT(30), <1>2 DEF Launch
<1>3. CASE \E p \in {"creator", "handler"} : Bind(p)  BY SMTT(30), <1>3 DEF Bind
<1>4. CASE \E decision \in {"approve", "reject"} : Approve(decision)
  BY SMTT(30), <1>4 DEF Approve, Command
<1>5. CASE Resume  BY SMTT(30), <1>5 DEF Resume, Command
<1>6. CASE Cancel  BY SMTT(30), <1>6 DEF Cancel, Command
<1>7. CASE Delete  BY SMTT(30), <1>7 DEF Delete, Command
<1>8. CASE Lock  BY SMTT(30), <1>8 DEF Lock
<1>9. CASE Await  BY SMTT(30), <1>9 DEF Await, EndedByUser
<1>10. CASE Close  BY <1>10 DEF Close
<1>11. CASE Crash \/ Restart \/ Restore  BY <1>11 DEF Crash, Restart, Restore
<1>12. CASE Interrupt("handler")  BY SMTT(30), <1>12 DEF Interrupt
<1>13. CASE UNCHANGED vars  BY SMTT(30), <1>13 DEF vars
<1> QED  BY <1>1, <1>2, <1>3, <1>4, <1>5, <1>6, <1>7, <1>8, <1>9, <1>10, <1>11, <1>12, <1>13

LEMMA ClaimCared ==
  ASSUME Inv, Story, Fenced, Cared, Calm',
         \/ ClaimInitial("creator") \/ ClaimInitial("handler")
         \/ ClaimApproval \/ \E confirm \in BOOLEAN : ClaimResume(confirm)
  PROVE  Attended' /\ Expected' /\ Answerable'
<1> DEFINE Good == Attended' /\ Expected' /\ Answerable'
<1> USE DEF Inv, Typed, Story, Kinds, Flat, Operating, Placed, Young, Following, CreatorAt, TaskAt, Decided,
            HandlerAt, Job, Holding, Labels, Procs, Terminal, Missing, RunStatus, Go, At, Lost, GiveUp,
            Interrupts, Unlock, Still, bounds, store, memory, history, Calm, StoresWork, Cared, Owned, Resuming,
            Attended, Expected, Answerable, Fenced, NoHandler
<1>0. pg.epoch \in Nat /\ pg.owner \in Nat /\ pg.epoch + 1 # 0  BY DEF Row
<1>00. task.claim \in Nat /\ task.claim <= pg.epoch  OBVIOUS
<1>1. ASSUME NEW p \in {"creator", "handler"}, ClaimInitial(p) PROVE Good
  <2> DEFINE new == [Claimed EXCEPT !.initial = TRUE]
  <2>1. /\ new.bound = pg.bound /\ new.stage = pg.stage /\ new.initial
        /\ new.cancelRequested = pg.cancelRequested /\ new.deleted = pg.deleted
        /\ new.owner = pg.epoch + 1 /\ new.epoch = pg.epoch + 1
    BY ClaimedRow DEF Same, Row
  <2>2. /\ pc[p] = "initial" /\ TaskAt = "idle" /\ mode = "up" /\ UNCHANGED <<status, mode, refused>>
        /\ ~pg.initial /\ Calm
    <3>1. Calm
      BY SMTT(30), <1>1 DEF ClaimInitial
    <3> QED  BY SMTT(30), <1>1, <3>1 DEF ClaimInitial
  <2>3. \/ /\ Claimable /\ pg' = new /\ claim' = new.epoch /\ task' = NoTask
           /\ TaskAt' = "begin" /\ HandlerAt' = (IF p = "handler" THEN "idle" ELSE HandlerAt)
           /\ CreatorAt' = (IF p = "creator" THEN "idle" ELSE CreatorAt)
           /\ handler' = IF p = "handler" THEN NoHandler ELSE handler
        \/ /\ ~Claimable /\ UNCHANGED pg /\ GiveUp(p)
    BY SMTT(30), <1>1, <2>2 DEF ClaimInitial
  <2> HIDE DEF new
  <2>4. CASE /\ Claimable /\ pg' = new /\ claim' = new.epoch /\ task' = NoTask
             /\ TaskAt' = "begin" /\ HandlerAt' = (IF p = "handler" THEN "idle" ELSE HandlerAt)
             /\ CreatorAt' = (IF p = "creator" THEN "idle" ELSE CreatorAt)
             /\ handler' = IF p = "handler" THEN NoHandler ELSE handler
    <3>1. /\ pg'.owner = pg.epoch + 1 /\ claim' = pg.epoch + 1 /\ claim' # 0 /\ pg'.bound /\ pg'.initial
          /\ ~pg'.cancelRequested /\ ~pg'.deleted /\ task'.kind = "start"
      <4>1. task'.kind = "start"  BY <2>4 DEF NoTask
      <4>2. /\ pg'.owner = pg.epoch + 1 /\ claim' = pg.epoch + 1 /\ pg'.bound = pg.bound /\ pg'.initial
            /\ pg'.cancelRequested = pg.cancelRequested /\ pg'.deleted = pg.deleted
        BY <2>1, <2>4
      <4>3. pg.bound /\ ~pg.cancelRequested /\ ~pg.deleted  BY <2>4 DEF Claimable
      <4> QED  BY <1>0, <4>1, <4>2, <4>3
    <3>2. /\ status \in {"pending", "gone"} \cup Terminal /\ status' = status
          /\ TaskAt' = "begin" /\ CreatorAt' = "idle"
          /\ HandlerAt' \notin {"bind", "initial", "interrupt"} /\ handler'.op # "resume"
      <4>1. CASE p = "creator"  BY <2>2, <2>4, <4>1
      <4>2. CASE p = "handler"  BY <2>2, <2>4, <4>2
      <4> QED  BY <4>1, <4>2
    <3> QED  BY <3>1, <3>2
  <2>5. CASE ~Claimable /\ UNCHANGED pg /\ GiveUp(p)
    BY SMTT(30), <1>0, <2>2, <2>5 DEF Claimable
  <2> QED  BY <2>3, <2>4, <2>5
<1>2. ASSUME ClaimApproval PROVE Good
  <2> DEFINE new == Accepted(handler.command)
             granted == Claimable /\ pg.call # "unknown"
  <2>1. /\ new.bound = pg.bound /\ new.stage = pg.stage /\ new.initial = pg.initial
        /\ new.cancelRequested = pg.cancelRequested /\ new.deleted = pg.deleted
        /\ new.owner = pg.epoch + 1 /\ new.epoch = pg.epoch + 1
    BY ClaimedRow DEF Accepted, Same, Row
  <2>2. /\ handler.op = "approve" /\ HandlerAt = "claim" /\ mode = "up" /\ StoresWork /\ ~refused
        /\ status \in {"waiting_approval", "interrupted"}
        /\ HandlerAt' = "idle" /\ CreatorAt' = CreatorAt /\ handler' = NoHandler
    <3> HIDE DEF new
    <3>1. /\ handler.op = "approve" /\ HandlerAt = "claim" /\ mode = "up" /\ StoresWork
          /\ status \in {"waiting_approval", "interrupted"}
      BY SMTT(30), <1>2 DEF ClaimApproval
    <3>2. ~refused
      BY <1>2 DEF ClaimApproval
    <3>4. handler' = NoHandler
      BY <1>2, <3>1 DEF ClaimApproval
    <3>3. HandlerAt' = "idle" /\ CreatorAt' = CreatorAt  BY SMTT(30), <1>2, <3>1 DEF ClaimApproval
    <3> QED  BY <3>1, <3>2, <3>3, <3>4
  <2>3. MayMove("running") /\ ~refused'  BY <2>2 DEF MayMove, Allowed
  <2>4. \/ /\ Claimable /\ pg' = new /\ claim' = new.epoch
           /\ status' = "running" /\ TaskAt = "idle" /\ TaskAt' = "run" /\ task'.kind = "approve"
        \/ UNCHANGED <<pg, status, task, claim>> /\ TaskAt' = TaskAt
    <3> HIDE DEF new
    <3>1. CASE GiveUp("handler") /\ UNCHANGED pg  BY SMTT(30), <2>2, <3>1
    <3>2. CASE /\ granted /\ pg' = new /\ claim' = new.epoch
               /\ status' = (IF MayMove("running") THEN "running" ELSE status)
               /\ IF MayMove("running") /\ pc["task"] = "idle"
                  THEN /\ task' = [kind |-> "approve", claim |-> new.epoch, command |-> handler.command]
                       /\ pc' = [pc EXCEPT !["handler"] = "idle", !["task"] = "run"]
                       /\ UNCHANGED refused
                  ELSE /\ Go("handler", "idle") /\ UNCHANGED task
                       /\ refused' = (refused \/ MayMove("running"))
      <4>1. granted /\ pg' = new /\ claim' = new.epoch /\ status' = "running" /\ TaskAt = "idle"
            /\ task'.kind = "approve" /\ pc' = [pc EXCEPT !["handler"] = "idle", !["task"] = "run"]
        <5>1. pc["task"] = "idle"  BY <2>3, <3>2
        <5> QED  BY <2>3, <3>2, <5>1
      <4>2. TaskAt' = "run"  BY <4>1
      <4> QED  BY <4>1, <4>2 DEF granted
    <3>3. CASE Lost(IF granted THEN new ELSE pg)
      <4> HIDE DEF granted
      <4> QED  BY SMTT(30), <3>3
    <3> QED  BY <1>2, <3>1, <3>2, <3>3 DEF ClaimApproval, new
  <2> HIDE DEF new, granted
  <2>5. CASE /\ Claimable /\ pg' = new /\ claim' = new.epoch
             /\ status' = "running" /\ TaskAt = "idle" /\ TaskAt' = "run" /\ task'.kind = "approve"
    <3>1. /\ pg'.owner = pg.epoch + 1 /\ claim' = pg.epoch + 1 /\ claim' # 0 /\ pg'.bound
          /\ ~pg'.cancelRequested /\ ~pg'.deleted
      <4>1. /\ pg'.owner = pg.epoch + 1 /\ claim' = pg.epoch + 1 /\ pg'.bound = pg.bound
            /\ pg'.cancelRequested = pg.cancelRequested /\ pg'.deleted = pg.deleted
        BY <2>1, <2>5
      <4>2. pg.bound /\ ~pg.cancelRequested /\ ~pg.deleted  BY <2>5 DEF Claimable
      <4> QED  BY <1>0, <4>1, <4>2
    <3> QED  BY <2>2, <2>5, <3>1
  <2>6. CASE UNCHANGED <<pg, status, task, claim>> /\ TaskAt' = TaskAt
    BY SMTT(30), <1>0, <2>2, <2>6 DEF PendingApproval
  <2> QED  BY <2>4, <2>5, <2>6
<1>3. ASSUME NEW confirm \in BOOLEAN, ClaimResume(confirm) PROVE Good
  <2> DEFINE new == [Claimed EXCEPT !.call = IF @ = "unknown" THEN "acknowledged" ELSE @,
                                    !.acks = IF pg.call = "unknown" THEN @ + 1 ELSE @]
             granted == Resumable /\ (pg.call = "unknown" => confirm)
             held == [handler EXCEPT !.claim = new.epoch, !.command = PendingApproval]
  <2>1. /\ new.bound = pg.bound /\ new.stage = pg.stage /\ new.accepted = pg.accepted
        /\ new.version = pg.version /\ new.decided = pg.decided /\ new.initial = pg.initial
        /\ new.cancelRequested = pg.cancelRequested /\ new.deleted = pg.deleted
        /\ new.owner = pg.epoch + 1 /\ new.epoch = pg.epoch + 1
    BY ClaimedRow DEF Same, Row
  <2>2. /\ handler.op = "resume" /\ HandlerAt = "claim" /\ mode = "up" /\ StoresWork /\ ~refused
        /\ status = "interrupted"
        /\ UNCHANGED <<status, task, refused>> /\ CreatorAt' = CreatorAt /\ TaskAt' = TaskAt
    BY SMTT(30), <1>3 DEF ClaimResume
  <2>3. \/ granted /\ pg' = new /\ claim' = new.epoch /\ handler' = held /\ HandlerAt' = "emit"
        \/ UNCHANGED <<pg, claim>> /\ handler' = NoHandler /\ HandlerAt' = "idle"
    <3> HIDE DEF new, granted, held
    <3>1. CASE GiveUp("handler") /\ UNCHANGED pg  BY SMTT(30), <2>2, <3>1
    <3>2. CASE granted /\ pg' = new /\ claim' = new.epoch /\ handler' = held /\ Go("handler", "emit")
      BY SMTT(30), <2>2, <3>2
    <3>3. CASE Lost(IF granted THEN new ELSE pg)  BY SMTT(30), <3>3
    <3> QED  BY <1>3, <3>1, <3>2, <3>3 DEF ClaimResume, new, granted, held
  <2>4. held.claim = new.epoch /\ held.op = handler.op
    <3> DEFINE n == new.epoch  d == PendingApproval
    <3> HIDE DEF n, d
    <3>1. held = [handler EXCEPT !.claim = n, !.command = d]  BY DEF n, d
    <3> HIDE DEF held
    <3> QED  BY <3>1 DEF n
  <2> HIDE DEF new, held, granted
  <2>5. CASE granted /\ pg' = new /\ claim' = new.epoch /\ handler' = held /\ HandlerAt' = "emit"
    <3>1. /\ Resumable /\ pg'.owner = pg.epoch + 1 /\ claim' = pg.epoch + 1 /\ handler'.claim = claim'
          /\ handler'.op = "resume" /\ claim' # 0 /\ task'.claim < claim'
      BY <1>0, <1>00, <2>1, <2>2, <2>4, <2>5 DEF granted
    <3>2. TaskAt \in {"idle", "release"} /\ Calm  BY <2>2
    <3>3. /\ status' = "interrupted" /\ TaskAt' \in {"idle", "release"} /\ HandlerAt' = "emit"
          /\ CreatorAt' = CreatorAt /\ CreatorAt = "idle" /\ UNCHANGED task
      BY <2>2, <2>5, <3>2
    <3>4. /\ pg'.bound /\ pg'.stage = pg.stage /\ PendingApproval' = PendingApproval
          /\ ~pg'.cancelRequested /\ ~pg'.deleted
      BY <2>1, <2>5, <3>1 DEF Resumable, PendingApproval
    <3> QED  BY <3>1, <3>3, <3>4 DEF Resumable
  <2>6. CASE UNCHANGED <<pg, claim>> /\ handler' = NoHandler /\ HandlerAt' = "idle"
    BY SMTT(30), <1>0, <2>2, <2>6 DEF PendingApproval
  <2> QED  BY <2>3, <2>5, <2>6
<1> QED  BY <1>1, <1>2, <1>3

(* An event that was emitted or marked: the flush is next.                 *)
LEMMA MovedCared ==
  ASSUME Inv, Story, Cared, Calm', NEW p \in {"task", "handler"}, pc[p] \in {"emit", "mark"}, Kept(pg'),
         pc' = [pc EXCEPT ![p] = "flush"], UNCHANGED <<status, mode, task, handler, claim, refused, faults, storeFaults>>
  PROVE  Attended' /\ Expected' /\ Answerable'
<1>1. Calm /\ Attended /\ Expected /\ Answerable  BY DEF Calm, StoresWork, Cared
<1>2. /\ CreatorAt' = CreatorAt
      /\ p = "task" => TaskAt' = "flush" /\ HandlerAt' = HandlerAt /\ TaskAt \in {"emit", "mark"}
      /\ p = "handler" => TaskAt' = TaskAt /\ HandlerAt' = "flush" /\ HandlerAt \in {"emit", "mark"}
  BY DEF Inv, Typed, Procs, Labels, TaskAt, HandlerAt, CreatorAt
<1>3. Owned' = Owned  BY DEF Kept, Same, Owned
<1>4. Resuming' = Resuming  BY <1>2 DEF Resuming
<1>5. Attended'  BY <1>1, <1>2, <1>3, <1>4 DEF Attended, Kept, Same
<1>6. Expected'  BY <1>1, <1>2, <1>3, <1>4 DEF Expected, Kept, Same
<1>7. Answerable'
  <2>1. PendingApproval' = PendingApproval /\ pg'.stage = pg.stage  BY DEF Kept, Same, PendingApproval
  <2> QED  BY <1>1, <1>2, <1>3, <1>4, <2>1 DEF Answerable, Kept, Same
<1> QED  BY <1>5, <1>6, <1>7

LEMMA NotLost == ASSUME Story, Calm', NEW new PROVE ~Lost(new)
BY DEF Story, Kinds, Calm, StoresWork, Lost

LEMMA EmitCared ==
  ASSUME Inv, Story, Cared, Calm', NEW p \in {"task", "handler"}, Emit(p) \/ Mark(p)
  PROVE  Attended' /\ Concluded' /\ Expected' /\ Answerable'
<1> DEFINE sent == IF p = "handler" /\ handler.op = "resume" THEN Emitted("running") ELSE EmittedFinal
           marked == [pg EXCEPT !.outbox[First].state = "delivered"]
<1>1. /\ ~Lost(sent) /\ ~Lost(marked)  BY NotLost
<1>2. /\ pc' = [pc EXCEPT ![p] = "flush"]
      /\ UNCHANGED <<status, mode, task, handler, claim, refused, faults, storeFaults>>
      /\ \/ pc[p] = "emit" /\ pg' = sent
         \/ pc[p] = "mark" /\ pg' = marked
  BY <1>1 DEF Emit, Mark, At, Go, Still, store, history, bounds
<1>3. Calm /\ Attended /\ Concluded  BY <1>2 DEF Calm, StoresWork, Cared
<1>4. pc[p] = "mark" => Undelivered # {}  BY DEF Story, Events, TaskAt, HandlerAt
<1>5. Kept(pg')  BY <1>2, <1>4, EmittedRow, MarkedRow
<1>6. Concluded'
  <2>1. CASE p = "handler"
    <3>1. TaskAt' = TaskAt  BY <1>2, <2>1 DEF Inv, Typed, Procs, TaskAt
    <3>2. handler.op \in {"resume", "startup", "settled"} /\ TaskAt \in {"idle", "release"}
      BY <1>2, <2>1 DEF Story, Flat, Operating, Placed, Following, HandlerAt, TaskAt, Inv, Typed, Holding
    <3> QED  BY <3>1, <3>2 DEF Concluded
  <2>2. CASE p = "task" /\ pc[p] = "emit"
    <3>1. ~pg.deleted /\ ~pg.cancelRequested  BY <1>3, <2>2 DEF Attended, TaskAt, Owned
    <3>2. pg' = EmittedFinal  BY <1>2, <2>2
    <3> QED  BY <3>1, <3>2, EmittedRow DEF Concluded, Ends
  <2>3. CASE p = "task" /\ pc[p] = "mark"
    <3>1. PICK i \in DOMAIN pg.outbox : Ends(i)  BY <1>3, <2>3 DEF Concluded, TaskAt
    <3>2. i \in DOMAIN pg'.outbox /\ pg'.outbox[i].patch = pg.outbox[i].patch
      BY <1>2, <1>4, <2>3, MarkedRow
    <3> QED  BY <3>1, <3>2 DEF Concluded, Ends
  <2> QED  BY <1>2, <2>1, <2>2, <2>3
<1> QED  BY <1>2, <1>5, <1>6, MovedCared

LEMMA FlushCared ==
  ASSUME Inv, Story, Cared, Calm', NEW p \in {"task", "handler"}, Flush(p)
  PROVE  Attended' /\ Concluded' /\ Expected' /\ Answerable'
<1> DEFINE Good == Attended' /\ Concluded' /\ Expected' /\ Answerable'
<1>1. ~Lost(pg) /\ storeFaults' # storeFaults + 1  BY NotLost DEF Story, Kinds, Calm, StoresWork
<1>2. /\ pc[p] = "flush" /\ UNCHANGED pg /\ UNCHANGED <<claim, faults, storeFaults>>
      /\ p = "task" => TaskAt = "flush"
      /\ p = "handler" => HandlerAt = "flush" /\ TaskAt \in {"idle", "release"} /\ CreatorAt = "idle"
      /\ status \notin Missing
      /\ p = "handler" /\ handler.op # "resume" => TaskAt = "idle" /\ mode = "starting"
      /\ CreatorAt = "idle"
  <2>1. /\ p = "task" => status \in {"running"} \cup Terminal /\ TaskAt = "flush" /\ CreatorAt = "idle"
        /\ p = "handler" => status \in RunStatus /\ CreatorAt = "idle" /\ HandlerAt = "flush" /\ TaskAt \in {"idle", "release"}
        /\ p = "handler" /\ handler.op # "resume" => TaskAt = "idle" /\ mode = "starting"
    BY Flushing DEF RunStatus
  <2>2. status \notin Missing  BY <2>1 DEF RunStatus, Terminal, Missing
  <2>3. UNCHANGED <<pg, claim, faults, storeFaults>>
    BY <1>1, <2>2 DEF Flush, Still, bounds
  <2> QED  BY <2>1, <2>2, <2>3 DEF Flush, At
<1>3. CASE (Undelivered = {} \/ pg.deleted) /\ Flushed(p) /\ UNCHANGED store
  <2>1. CASE p = "task"
    <3>1. Calm /\ Attended /\ Concluded /\ Expected /\ Answerable
      BY <1>2, <1>3, <2>1 DEF Flushed, Calm, StoresWork, Cared
    <3>2. Owned  BY <1>2, <2>1, <3>1 DEF Attended
    <3>3. PICK i \in DOMAIN pg.outbox : Ends(i)  BY <1>2, <2>1, <3>1 DEF Concluded
    <3>4. pg.outbox[i] \in Event  BY Outbox DEF Inv
    <3>5. pg.outbox[i].state = "delivered"
      BY <1>3, <3>2, <3>4 DEF Undelivered, Owned, Story, Events, Event
    <3>6. status \in Terminal  BY <1>2, <3>3, <3>5 DEF Story, Events, Missing
    <3>7. /\ TaskAt' = "complete" /\ HandlerAt' = HandlerAt /\ CreatorAt' = CreatorAt
          /\ UNCHANGED <<status, task, handler>>
      BY <1>3, <2>1 DEF Flushed, Go, store, TaskAt, HandlerAt, CreatorAt, Inv, Typed, Procs
    <3>8. Owned' /\ Resuming' = Resuming  BY <1>2, <3>2, <3>7 DEF Owned, Resuming
    <3> QED  BY <1>2, <3>1, <3>6, <3>7, <3>8 DEF Attended, Concluded, Expected, Answerable, Terminal
  <2>2. CASE p = "handler" /\ handler.op = "resume"
    <3>0. ~pg.deleted /\ status = "running" /\ pg.stage \notin {"none", "final"} /\ ~pg.cancelRequested
      <4>1. Undelivered = {} => Fresh = {}  BY DEF Fresh, Unseen
      <4>2. /\ ~pg.deleted /\ pg.stage \notin {"none", "final"} /\ ~pg.cancelRequested
        BY <1>2, <2>2 DEF Story, Flat, Following
      <4>3. status = "running" \/ Fresh # {}  BY <2>2, Flushing
      <4> QED  BY <1>3, <4>1, <4>2, <4>3
    <3>1. /\ Calm /\ Attended /\ Expected /\ Answerable
      BY <1>2, <1>3, <2>2 DEF Flushed, Calm, StoresWork, Cared, Answer
    <3>2. /\ TaskAt = "idle" /\ TaskAt' = "run" /\ handler' = NoHandler /\ HandlerAt' = "idle" /\ CreatorAt' = CreatorAt
          /\ task' = [kind |-> "continue", claim |-> handler.claim, command |-> handler.command]
          /\ UNCHANGED status
      BY <1>3, <2>2 DEF Flushed, Go, store, TaskAt, HandlerAt, CreatorAt, Inv, Typed, Procs, Calm
    <3>3. Owned'  BY <1>2, <2>2, <3>0, <3>1, <3>2 DEF Answerable, Resuming, Owned, Story, Flat, Young
    <3> QED  BY <1>2, <3>0, <3>1, <3>2, <3>3 DEF Attended, Concluded, Expected, Answerable, Resuming, NoHandler
  <2>3. CASE p = "handler" /\ handler.op # "resume"
    <3>1. handler.op = "settled" /\ Answer  BY <1>2, <1>3, <2>3 DEF Flushed, Calm
    <3>2. ~pg.deleted /\ ~pg.cancelRequested /\ \E i \in DOMAIN pg.outbox : Ends(i)
      BY <2>3, <3>1, Flushing DEF Story, Flat, Following
    <3>3. PICK i \in DOMAIN pg.outbox : Ends(i)  BY <3>2
    <3>4. pg.outbox[i] \in Event  BY Outbox DEF Inv
    <3>5. pg.outbox[i].state = "delivered"
      BY <1>3, <3>2, <3>4 DEF Undelivered, Story, Events, Event
    <3>6. status \in Terminal  BY <1>2, <3>3, <3>5 DEF Story, Events, Missing
    <3>7. /\ TaskAt' = "idle" /\ HandlerAt' = "idle" /\ CreatorAt' = "idle" /\ handler' = NoHandler /\ UNCHANGED status
      BY <1>2, <1>3, <2>3, <3>1 DEF Answer, Go, store, TaskAt, HandlerAt, CreatorAt, Inv, Typed, Procs
    <3> QED
      BY <1>2, <3>2, <3>6, <3>7 DEF Attended, Concluded, Expected, Answerable, Resuming, NoHandler, Terminal
  <2> QED  BY <2>1, <2>2, <2>3
<1>4. CASE /\ Undelivered # {} /\ ~pg.deleted /\ Deliver(First) /\ Go(p, "mark")
           /\ UNCHANGED <<pg, mode, task, handler, claim, history>>
  <2>1. Calm /\ Attended /\ Concluded /\ Expected /\ Answerable
    BY <1>2, <1>4 DEF Calm, StoresWork, Cared, history
  <2>2. /\ CreatorAt' = CreatorAt
        /\ p = "task" => TaskAt' = "mark" /\ HandlerAt' = HandlerAt
        /\ p = "handler" => HandlerAt' = "mark" /\ TaskAt' = TaskAt
    BY <1>4 DEF Go, CreatorAt, TaskAt, HandlerAt, Inv, Typed, Procs
  <2>3. First \in DOMAIN pg.outbox /\ pg.outbox[First] \in Event
    BY <1>4, FirstIsUndelivered DEF Inv
  <2>4. Owned' = Owned /\ Resuming' = Resuming  BY <1>2, <1>4, <2>2 DEF Owned, Resuming
  <2>5. CASE p = "task"
    <3>1. status' \in {status} \cup Terminal \cup {"running"} /\ status \in {"running"} \cup Terminal
      BY <1>4, <2>3, <2>5, Flushing DEF Deliver, Event
    <3> QED
      BY <1>2, <1>4, <2>1, <2>2, <2>4, <2>5, <3>1 DEF Attended, Concluded, Expected, Answerable, Owned, Ends, Terminal
  <2>6. CASE p = "handler"
    <3>1. handler.op = "resume" /\ mode = "up"  BY <1>2, <2>1, <2>6 DEF Calm
    <3>2. status \in {"interrupted", "running"} /\ \A i \in DOMAIN pg.outbox : ~Ends(i)
      BY <3>1, Flushing
    <3>3. status' \in {status, "running"}  BY <1>4, <2>3, <3>2 DEF Deliver, Event, Ends
    <3>4. Resuming  BY <1>2, <2>6, <3>1 DEF Resuming
    <3> QED
      BY <1>2, <1>4, <2>1, <2>2, <2>4, <2>6, <3>1, <3>2, <3>3, <3>4
      DEF Attended, Concluded, Expected, Answerable, Terminal, PendingApproval
  <2> QED  BY <2>5, <2>6
<1> QED  BY <1>1, <1>2, <1>3, <1>4 DEF Flush

LEMMA CommitCared == ASSUME Inv, Story, Cared, Calm', Commit PROVE Attended' /\ Expected' /\ Answerable'
<1> DEFINE cut == Cancelled(FALSE)  tomb == Cancelled(TRUE)
           killed == [pc EXCEPT !["handler"] = "await"]
<1>1. /\ \A q \in {cut, tomb} :
           /\ q.bound = pg.bound /\ q.stage = pg.stage /\ q.owner = 0 /\ q.accepted = pg.accepted
           /\ q.version = pg.version /\ q.decided = pg.decided
           /\ q.initial = pg.initial /\ q.cancelRequested
      /\ cut.deleted = pg.deleted
  <2>1. ASSUME NEW d \in BOOLEAN
        PROVE  LET q == Cancelled(d) IN
               /\ q.bound = pg.bound /\ q.stage = pg.stage /\ q.owner = 0 /\ q.accepted = pg.accepted
               /\ q.version = pg.version /\ q.decided = pg.decided
               /\ q.initial = pg.initial /\ q.cancelRequested
    BY CancelledRow DEF Same, Inv
  <2>2. cut.deleted = (pg.deleted \/ FALSE) /\ pg.deleted \in BOOLEAN
    BY CancelledRow DEF Inv, Typed, Row
  <2> HIDE DEF cut, tomb
  <2>3. cut.deleted = pg.deleted  BY <2>2
  <2> QED  BY <2>1, <2>3 DEF cut, tomb
<1>2. ~Lost(IF pg.bound THEN Cancelled(handler.op = "delete") ELSE pg)  BY NotLost
<1>3. /\ HandlerAt = "commit" /\ handler.op \in {"cancel", "delete"} /\ mode = "up" /\ UNCHANGED <<mode, refused>>
      /\ Calm /\ CreatorAt' = CreatorAt
      /\ handler.op = "delete" => status \in Terminal
      /\ status # "none" /\ delivery = "handler"
      /\ CreatorAt # "idle" => TaskAt = "idle"
      /\ TaskAt # "idle" => pg.bound
      /\ TaskAt \in {"run", "call", "apply", "emit"} => status = "running"
      /\ TaskAt \notin {"mark"} /\ (TaskAt = "flush" => status = "running")
  <2>1. /\ HandlerAt = "commit" /\ handler.op \in {"cancel", "delete"} /\ mode = "up"
    BY DEF Commit, At, HandlerAt, Story, Kinds, Flat, Operating, Placed, Inv, Typed, Holding
  <2>2. /\ handler.op = "delete" => status \in Terminal
        /\ status # "none" /\ delivery = "handler"
        /\ CreatorAt # "idle" => TaskAt = "idle"
        /\ TaskAt # "idle" => pg.bound
        /\ TaskAt \in {"run", "call", "apply", "emit"} => status = "running"
        /\ TaskAt \notin {"mark"} /\ (TaskAt = "flush" => status = "running")
    BY <2>1 DEF Story, Flat, Placed, Young, Following
  <2>3. UNCHANGED <<mode, refused, faults, storeFaults>> /\ CreatorAt' = CreatorAt
    BY <1>2, <2>1 DEF Commit, GiveUp, Go, Answer, Kill, Finally, Still, bounds, history, Interrupts,
                      CreatorAt, Inv, Typed, Procs
  <2> QED  BY <2>1, <2>2, <2>3 DEF Calm, StoresWork
<1>4. Attended /\ Expected /\ Answerable  BY <1>3 DEF Cared
<1>5. \/ /\ handler.op = "cancel" /\ (pg.bound \/ status \in {"pending", "interrupted"})
         /\ pg' = (IF pg.bound THEN cut ELSE pg)
         /\ HandlerAt' = "idle" /\ handler' = NoHandler /\ TaskAt' = TaskAt /\ TaskAt = "idle"
         /\ status' = EndedByUser
      \/ /\ handler.op = "cancel" /\ pg.bound /\ pg' = cut /\ HandlerAt' = "await"
         /\ TaskAt' \in {"idle", "release"} /\ UNCHANGED <<status, handler>>
      \/ /\ UNCHANGED <<pg, status, task, claim>> /\ HandlerAt' = "idle" /\ handler' = NoHandler /\ TaskAt' = TaskAt
      \/ /\ handler.op = "delete" /\ pg' = (IF pg.bound THEN tomb ELSE pg)
         /\ HandlerAt' = "idle" /\ handler' = NoHandler /\ TaskAt' = TaskAt /\ status' = "gone"
  <2> HIDE DEF cut, tomb
  <2>1. CASE GiveUp("handler") /\ UNCHANGED pg
    BY <1>3, <2>1 DEF GiveUp, Go, Interrupts, HandlerAt, TaskAt, Inv, Typed, Procs, store
  <2>2. CASE /\ handler.op = "cancel" /\ (pg.bound \/ status \in {"pending", "interrupted"})
             /\ pg' = (IF pg.bound THEN cut ELSE pg)
             /\ pc["task"] = "idle" /\ Answer /\ status' = EndedByUser
    BY <2>2 DEF Answer, Go, HandlerAt, TaskAt, Inv, Typed, Procs
  <2>3. CASE /\ handler.op = "cancel" /\ pg' = (IF pg.bound THEN cut ELSE pg)
             /\ pc["task"] # "idle" /\ Kill(claim', killed) /\ UNCHANGED <<status, handler>>
    <3>1. TaskAt' \in {"idle", "release"} /\ HandlerAt' = "await"
      BY <2>3 DEF Kill, Finally, HandlerAt, TaskAt, Inv, Typed, Procs
    <3> QED  BY <1>3, <2>3, <3>1 DEF TaskAt
  <2>4. CASE /\ handler.op = "delete" /\ pg' = (IF pg.bound THEN tomb ELSE pg)
             /\ status' = "gone" /\ Answer
    BY <2>4 DEF Answer, Go, HandlerAt, TaskAt, Inv, Typed, Procs
  <2> QED  BY <1>2, <2>1, <2>2, <2>3, <2>4 DEF Commit, cut, tomb
<1> HIDE DEF cut, tomb
<1>6. CASE /\ handler.op = "cancel" /\ (pg.bound \/ status \in {"pending", "interrupted"})
           /\ pg' = (IF pg.bound THEN cut ELSE pg)
           /\ HandlerAt' = "idle" /\ handler' = NoHandler /\ TaskAt' = TaskAt /\ TaskAt = "idle"
           /\ status' = EndedByUser
  <2>1. status' \in Terminal \cup {"gone"}  BY <1>3, <1>6 DEF EndedByUser, Terminal, Missing
  <2>2. /\ pg'.initial = pg.initial /\ (pg'.deleted = pg.deleted)
    BY <1>1, <1>6
  <2>3. pg.deleted => status' = "gone"  BY <1>4, <1>6 DEF Expected, EndedByUser, Missing, Terminal
  <2> QED
    BY <1>3, <1>4, <1>6, <2>1, <2>2, <2>3 DEF Attended, Expected, Answerable, Resuming, NoHandler, Terminal
<1>7. CASE /\ handler.op = "cancel" /\ pg.bound /\ pg' = cut /\ HandlerAt' = "await"
           /\ TaskAt' \in {"idle", "release"} /\ UNCHANGED <<status, handler>>
  BY <1>1, <1>3, <1>4, <1>7 DEF Attended, Expected, Answerable, Resuming, PendingApproval
<1>8. CASE UNCHANGED <<pg, status, task, claim>> /\ HandlerAt' = "idle" /\ handler' = NoHandler /\ TaskAt' = TaskAt
  <2>1. Owned' = Owned /\ ~Resuming /\ ~Resuming'  BY <1>3, <1>8 DEF Owned, Resuming, NoHandler
  <2> QED  BY <1>3, <1>4, <1>8, <2>1 DEF Attended, Expected, Answerable, NoHandler, PendingApproval
<1>9. CASE /\ handler.op = "delete" /\ pg' = (IF pg.bound THEN tomb ELSE pg)
           /\ HandlerAt' = "idle" /\ handler' = NoHandler /\ TaskAt' = TaskAt /\ status' = "gone"
  <2>1. TaskAt \notin {"run", "call", "apply", "emit", "flush", "mark"}  BY <1>3, <1>9 DEF Terminal
  <2>2. pg'.initial = pg.initial  BY <1>1, <1>9
  <2> QED
    BY <1>3, <1>4, <1>9, <2>1, <2>2 DEF Attended, Expected, Answerable, Resuming, NoHandler
<1> QED  BY <1>5, <1>6, <1>7, <1>8, <1>9

LEMMA StartupCared ==
  ASSUME Inv, Story, Fenced, Cared, Calm', Recover \/ Tombstone \/ Settle
  PROVE  Attended' /\ Expected' /\ Answerable'
<1>1. /\ mode = "starting" /\ CreatorAt = "idle" /\ TaskAt = "idle"
      /\ HandlerAt \in {"recover", "tombstone", "settle"} /\ status \in RunStatus \cup Missing
      /\ HandlerAt # "recover" => pg.bound /\ pg.owner = 0
      /\ HandlerAt = "settle" => status \in RunStatus /\ ~pg.deleted
      /\ HandlerAt = "tombstone" => status \in Missing
      /\ status = "none" => ~pg.bound
  BY DEF Recover, Tombstone, Settle, At, Story, Flat, Kinds, Operating, Placed, Young, Booting,
         HandlerAt, Inv, Typed, Holding, Row
<1>2. ASSUME NEW new PROVE ~Lost(new)  BY NotLost
<1>3. Started \/ mode' # "up"  BY <1>1, <1>2 DEF Recover, Tombstone, Settle
<1>4. Started /\ CreatorAt' = "idle" /\ TaskAt' = "idle" /\ HandlerAt' = "idle" /\ handler' = NoHandler
  BY <1>1, <1>3 DEF Calm, Started, Answer, Go, CreatorAt, TaskAt, HandlerAt, Inv, Typed, Procs
<1>5. ASSUME status' \in Terminal \cup {"gone", "none", "waiting_approval", "interrupted"},
             pg'.deleted => status' = "gone", pg'.cancelRequested => status' \in Terminal \cup {"gone"},
             status' \in {"waiting_approval", "interrupted"} => pg'.owner = 0,
             status' = "interrupted" =>
               /\ pg'.bound /\ pg'.stage \notin {"none", "final"}
               /\ pg'.stage = "approval" => PendingApproval' # "none"
      PROVE  Attended' /\ Expected' /\ Answerable'
  BY <1>4, <1>5 DEF Attended, Expected, Answerable, Resuming, NoHandler, Terminal
<1>6. CASE Recover
  <2>1. CASE ~pg.bound /\ status' = (IF status \in RunStatus \ Terminal THEN "failed" ELSE status) /\ UNCHANGED pg
    <3>1. ~pg.deleted /\ ~pg.cancelRequested  BY <2>1 DEF Fenced
    <3>2. status' \in Terminal \cup {"gone", "none"}  BY <1>1, <2>1 DEF Missing, Terminal
    <3> QED  BY <1>5, <2>1, <3>1, <3>2 DEF Terminal
  <2>2. CASE pg' = Recovered /\ status' = "gone"  BY <1>5, <2>2 DEF Terminal
  <2> QED  BY <1>1, <1>2, <1>4, <1>6, <2>1, <2>2 DEF Recover, Calm, Started
<1>7. CASE Tombstone
  <2>1. status' = "gone"
    BY <1>1, <1>2, <1>7 DEF Tombstone, store, Missing, At, HandlerAt
  <2> QED  BY <1>5, <2>1 DEF Terminal
<1>8. CASE Settle
  <2>1. /\ status' = Projected /\ UNCHANGED pg /\ (pg.stage # "final" \/ status \in Terminal \/ pg.cancelRequested)
        /\ pg.bound /\ pg.owner = 0 /\ ~pg.deleted
    BY <1>1, <1>2, <1>4, <1>8 DEF Settle, Started, At, HandlerAt, Calm
  <2>2. /\ Projected \in Terminal \cup {"waiting_approval", "interrupted"}
        /\ pg.cancelRequested => Projected \in Terminal
        /\ Projected = "interrupted" => /\ pg.stage # "none" /\ ~pg.cancelRequested /\ status \notin Terminal
                                        /\ pg.stage = "approval" => PendingApproval # "none"
    BY DEF Projected, Terminal
  <2>3. PendingApproval' = PendingApproval  BY <2>1 DEF PendingApproval
  <2> QED  BY <1>5, <2>1, <2>2, <2>3
<1> QED  BY <1>6, <1>7, <1>8

LEMMA InitCared == Init => Fenced /\ Cared
<1> SUFFICES ASSUME Init PROVE Fenced /\ Cared  OBVIOUS
<1> USE DEF Init, NoTask, NoHandler, TaskAt, HandlerAt, CreatorAt, Procs
<1>1. Fenced  BY DEF Fenced
<1>2. Attended /\ Concluded  BY DEF Attended, Concluded
<1>3. Expected /\ Answerable  BY DEF Expected, Answerable, Resuming
<1> QED  BY <1>1, <1>2, <1>3 DEF Cared

(* What the task has emitted stays: only the user erases events.           *)
Stays ==
  TaskAt' \in {"flush", "mark"} =>
    /\ TaskAt' = TaskAt /\ StoresWork /\ ~refused
    /\ pg'.outbox = pg.outbox \/ pg'.cancelRequested

LEMMA RowsStay ==
  ASSUME Inv
  PROVE  /\ Recovered.outbox = pg.outbox /\ Claimed.outbox = pg.outbox
         /\ \A d \in BOOLEAN : Cancelled(d).cancelRequested
BY RecoveredRow, ClaimedRow, CancelledRow DEF Inv

LEMMA TaskStays ==
  ASSUME Inv, Story, Calm',
         \/ Begin \/ StageStep \/ Pause \/ Send \/ Blocked \/ Answered \/ Unanswered \/ Raise
         \/ Apply \/ Complete \/ Interrupt("task") \/ Release
  PROVE  Stays
<1> SUFFICES TaskAt' \notin {"flush", "mark"}  BY DEF Stays
<1> USE DEF Inv, Typed, Procs, Labels, TaskAt, At, Go, GiveUp, Interrupts, Finally, Fail
<1>1. CASE Begin \/ Pause \/ Blocked \/ Raise  BY <1>1 DEF Begin, Pause, Blocked, Raise
<1>2. CASE Send \/ Answered \/ Unanswered  BY <1>2 DEF Send, Answered, Unanswered, Graph
<1>3. CASE StageStep
  <2>1. PICK new, next : Moved(new, next) /\ Graph("run", new, next)  BY <1>3, StageShape
  <2> QED  BY <2>1 DEF Graph, Moved
<1>4. CASE Apply \/ Complete  BY <1>4 DEF Apply, Complete
<1>5. CASE Interrupt("task") \/ Release  BY <1>5 DEF Interrupt, Release
<1> QED  BY <1>1, <1>2, <1>3, <1>4, <1>5

LEMMA KillMoves ==
  ASSUME Typed, NEW map, Kill(map, [pc EXCEPT !["handler"] = "await"])
  PROVE  pc'["task"] \in {"idle", "release"}
<1> DEFINE others == [pc EXCEPT !["handler"] = "await"]
<1>1. DOMAIN others = Procs  BY DEF Typed
<1>2. Kill(map, others)  OBVIOUS
<1> HIDE DEF others
<1> QED  BY <1>1, <1>2 DEF Kill, Finally, Procs

LEMMA OperationStays ==
  ASSUME Inv, Story, Calm',
         \/ \E reserved \in BOOLEAN : Create(reserved)
         \/ Launch
         \/ \E p \in {"creator", "handler"} : Bind(p) \/ ClaimInitial(p)
         \/ \E decision \in {"approve", "reject"} : Approve(decision)
         \/ Resume \/ Cancel \/ Delete \/ Lock \/ Await
         \/ ClaimApproval \/ \E confirm \in BOOLEAN : ClaimResume(confirm)
         \/ Commit \/ Recover \/ Tombstone \/ Settle
         \/ Close \/ Crash \/ Restart \/ Restore \/ Interrupt("handler") \/ UNCHANGED vars
  PROVE  Stays
<1>0. /\ \A new : ~Lost(new)
      /\ storeFaults' # storeFaults + 1 /\ mode' = "up"
      /\ StoresWork' /\ ~refused' /\ handler'.op # "close"
      /\ mode # "up" => TaskAt = "idle"
  BY NotLost DEF Story, Kinds, Flat, Placed, Calm, StoresWork
<1> USE <1>0 DEF Inv, Typed, Procs, TaskAt, At, Go, GiveUp, Interrupts, Answer, Still, bounds, history, store, StoresWork, Stays
<1>1. CASE (\E reserved \in BOOLEAN : Create(reserved)) \/ Launch \/ Lock \/ Await
  BY <1>1 DEF Create, Launch, Lock, Await
<1>2. ASSUME NEW p \in {"creator", "handler"}, Bind(p) PROVE Stays
  <2>1. pg'.outbox = pg.outbox  BY <1>2 DEF Bind, Row
  <2> QED  BY <1>2, <2>1 DEF Bind
<1>3. ASSUME NEW p \in {"creator", "handler"}, ClaimInitial(p) PROVE Stays
  <2>1. TaskAt = "idle"
    BY <1>3 DEF ClaimInitial, Story, Flat, Placed, Operating, CreatorAt, HandlerAt, Holding
  <2> QED  BY <1>3, <2>1 DEF ClaimInitial
<1>4. CASE (\E decision \in {"approve", "reject"} : Approve(decision)) \/ Resume \/ Cancel \/ Delete
  BY <1>4 DEF Approve, Resume, Cancel, Delete, Command
<1>5. CASE ClaimApproval
  <2> DEFINE new == Accepted(handler.command)
  <2>1. new.outbox = pg.outbox  BY ClaimedRow DEF Accepted, Row
  <2> HIDE DEF new
  <2>2. pg' \in {pg, new}  BY <1>5 DEF ClaimApproval, new
  <2>3. TaskAt' = TaskAt \/ TaskAt' = "run"
    <3>1. \/ GiveUp("handler") \/ Go("handler", "idle")
          \/ pc' = [pc EXCEPT !["handler"] = "idle", !["task"] = "run"]
      BY <1>5 DEF ClaimApproval
    <3>2. CASE GiveUp("handler") \/ Go("handler", "idle")  BY <3>2
    <3>3. CASE pc' = [pc EXCEPT !["handler"] = "idle", !["task"] = "run"]  BY <3>3
    <3> QED  BY <3>1, <3>2, <3>3
  <2>4. Still  BY <1>0, <1>5 DEF ClaimApproval
  <2>5. ~refused  BY <1>0, <1>5 DEF ClaimApproval
  <2> QED  BY <2>1, <2>2, <2>3, <2>4, <2>5
<1>6. ASSUME NEW confirm \in BOOLEAN, ClaimResume(confirm) PROVE Stays
  <2>1. TaskAt \in {"idle", "release"}
    BY <1>6 DEF ClaimResume, Story, Flat, Following
  <2>2. TaskAt' = TaskAt  BY <1>6 DEF ClaimResume
  <2> QED  BY <2>1, <2>2
<1>7. CASE Commit
  <2> DEFINE cut == Cancelled(FALSE)  tomb == Cancelled(TRUE)
  <2>1. cut.cancelRequested /\ tomb.cancelRequested  BY RowsStay
  <2> HIDE DEF cut, tomb
  <2>2. pg' \in {pg, cut, tomb}  BY <1>7 DEF Commit, cut, tomb
  <2>3. TaskAt' \in {TaskAt, "idle", "release"}
    <3>1. \/ GiveUp("handler") \/ Answer \/ Kill(claim', [pc EXCEPT !["handler"] = "await"])
      BY <1>7 DEF Commit
    <3>2. CASE GiveUp("handler") \/ Answer  BY <3>2
    <3>3. CASE Kill(claim', [pc EXCEPT !["handler"] = "await"])
      BY <3>3, KillMoves
    <3> QED  BY <3>1, <3>2, <3>3
  <2>4. Still /\ UNCHANGED history  BY <1>0, <1>7 DEF Commit
  <2> QED  BY <2>1, <2>2, <2>3, <2>4
<1>8. CASE Recover \/ Tombstone \/ Settle
  <2>1. TaskAt = "idle"
    BY <1>8 DEF Recover, Tombstone, Settle, Story, Flat, Placed, Operating, HandlerAt, Holding
  <2>2. TaskAt' = TaskAt  BY <1>8 DEF Recover, Tombstone, Settle, Started
  <2> QED  BY <2>1, <2>2
<1>9. CASE Close \/ Crash \/ Restart \/ Restore  BY <1>9 DEF Close, Crash, Restart, Restore, NoHandler, memory
<1>10. CASE Interrupt("handler")
  <2>1. TaskAt' = TaskAt /\ TaskAt = "idle"
    BY <1>10 DEF Interrupt, Story, Flat, Placed, HandlerAt
  <2> QED  BY <2>1
<1>11. CASE UNCHANGED vars  BY <1>11 DEF vars, memory
<1> QED  BY <1>1, <1>2, <1>3, <1>4, <1>5, <1>6, <1>7, <1>8, <1>9, <1>10, <1>11

LEMMA StayConcluded ==
  ASSUME Story, Cared, Calm', Attended', Stays
  PROVE  Concluded'
<1> SUFFICES ASSUME TaskAt' \in {"flush", "mark"} PROVE \E i \in DOMAIN pg'.outbox : Ends(i)'
  BY DEF Concluded
<1>1. ~pg'.cancelRequested  BY DEF Attended, Owned
<1>2. TaskAt \in {"flush", "mark"} /\ pg'.outbox = pg.outbox /\ StoresWork /\ ~refused
  BY <1>1 DEF Stays
<1>3. Calm  BY <1>2 DEF Story, Kinds, Flat, Operating, Placed, Calm
<1>4. PICK i \in DOMAIN pg.outbox : Ends(i)  BY <1>2, <1>3 DEF Cared, Concluded
<1> QED  BY <1>2, <1>4 DEF Ends

LEMMA StepCared == Inv /\ Story /\ Fenced /\ Cared /\ [Next]_vars => Cared'
<1> SUFFICES ASSUME Inv, Story, Fenced, Cared, [Next]_vars, Calm'
             PROVE  Attended' /\ Concluded' /\ Expected' /\ Answerable'
  BY DEF Cared
<1> DEFINE Good == Attended' /\ Concluded' /\ Expected' /\ Answerable'
<1> HIDE DEF Good
<1>1. ASSUME Stays, Attended' /\ Expected' /\ Answerable' PROVE Good  BY <1>1, StayConcluded DEF Good
<1>2. ASSUME NEW p \in {"task", "handler"}, Emit(p) \/ Mark(p) \/ Flush(p) PROVE Good
  BY <1>2, EmitCared, FlushCared DEF Good
<1>3. ASSUME TaskStep PROVE Good
  <2>1. CASE \/ Begin \/ StageStep \/ Pause \/ Send \/ Blocked \/ Answered \/ Unanswered
             \/ Raise \/ Apply \/ Complete \/ Interrupt("task") \/ Release
    BY <1>1, <2>1, TaskCared, TaskStays
  <2> QED  BY <1>2, <1>3, <2>1 DEF TaskStep, StageStep
<1>4. ASSUME \/ \E reserved \in BOOLEAN : Create(reserved)
             \/ Launch
             \/ \E p \in {"creator", "handler"} : Bind(p)
             \/ \E decision \in {"approve", "reject"} : Approve(decision)
             \/ Resume \/ Cancel \/ Delete \/ Lock \/ Await
             \/ Close \/ Crash \/ Restart \/ Restore \/ Interrupt("handler") \/ UNCHANGED vars
      PROVE  Good
  BY <1>1, <1>4, OperationCared, OperationStays
<1>5. ASSUME \/ ClaimInitial("creator") \/ ClaimInitial("handler")
             \/ ClaimApproval \/ \E confirm \in BOOLEAN : ClaimResume(confirm)
      PROVE  Good
  BY <1>1, <1>5, ClaimCared, OperationStays
<1>6. ASSUME Commit PROVE Good  BY <1>1, <1>6, CommitCared, OperationStays
<1>7. ASSUME Recover \/ Tombstone \/ Settle PROVE Good
  BY <1>1, <1>7, StartupCared, OperationStays
<1>8. ASSUME HandlerStep PROVE Good  BY <1>2, <1>4, <1>5, <1>6, <1>7, <1>8 DEF HandlerStep
<1>9. ASSUME CreatorStep \/ UserStep PROVE Good  BY <1>4, <1>5, <1>9 DEF CreatorStep, UserStep
<1>10. Good  BY <1>3, <1>4, <1>8, <1>9 DEF Next
<1> QED  BY <1>10 DEF Good

LEMMA CaredSuffices == Inv /\ Story /\ Cared => NoDeadEnd
<1> SUFFICES ASSUME Inv, Story, Cared, StoresWork, Quiet, ~refused
             PROVE  /\ status # "running"
                    /\ status = "waiting_approval" => Claimable /\ pg.stage = "approval"
                    /\ status = "interrupted" => Resumable
  BY DEF NoDeadEnd
<1>1. TaskAt = "idle" /\ HandlerAt = "idle" /\ mode = "up"  BY DEF Quiet, Procs, TaskAt, HandlerAt
<1>2. handler.op \notin {"close", "resume"}  BY <1>1 DEF Story, Flat, Operating
<1>3. Attended /\ Expected /\ Answerable /\ ~Resuming  BY <1>1, <1>2 DEF Cared, Calm, Resuming
<1>4. status # "running"  BY <1>1, <1>3 DEF Expected
<1>5. status = "waiting_approval" => pg.stage = "approval" /\ pg.bound
  BY DEF Story, Flat, Young, Following
<1>6. status \in {"waiting_approval", "interrupted"} => ~pg.deleted /\ ~pg.cancelRequested
  BY <1>1, <1>3 DEF Expected, Terminal
<1> QED  BY <1>1, <1>3, <1>4, <1>5, <1>6 DEF Answerable, Claimable, Resumable

(* While the stores answer no run is stranded: between the operations one  *)
(* that is shown as running has a task, one that waits can be answered and *)
(* an interrupted one can be resumed, after any crash, shutdown and        *)
(* interleaving of commands (service.py).  For every scenario.             *)
THEOREM NoRunIsStranded == Spec => []NoDeadEnd
<1>1. Init => Inv /\ Story /\ Fenced /\ Cared  BY InitInv, InitStory, InitCared
<1>2. Inv /\ Story /\ Fenced /\ Cared /\ [Next]_vars => (Inv /\ Story /\ Fenced /\ Cared)'
  BY StepInv, StoryKeeps, StepFenced, StepCared
<1>3. Inv /\ Story /\ Cared => NoDeadEnd  BY CaredSuffices
<1> QED  BY <1>1, <1>2, <1>3, PTL DEF Spec

-----------------------------------------------------------------------------
(* The call of the run: what ExternalCall promises.                        *)

(* A task whose claim is still valid is waiting for the answer of the call *)
(* that the journal shows as in flight.                                    *)
OnTheWire == TaskAt = "call" /\ Valid(claim) => pg.call = "dispatched"

(* A step that is not Send leaves a task that waits as it is, or fences it.*)
Calling ==
  TaskAt' = "call" =>
    TaskAt = "call" /\ ((pg' = pg /\ claim' = claim) \/ pg'.cancelRequested)

CallMoves ==
  \/ UNCHANGED <<pg.call, pg.acks, sends>>
  \/ /\ pg.call \in {"none", "acknowledged"} /\ pg'.call = "dispatched"
     /\ pg'.acks = pg.acks /\ sends' \in {sends, sends + 1}
  \/ /\ pg.call = "dispatched" /\ pg'.call \in {"answered", "unknown"}
     /\ UNCHANGED <<pg.acks, sends>>
  \/ /\ pg.call = "unknown" /\ pg'.call = "acknowledged"
     /\ pg'.acks = pg.acks + 1 /\ sends' = sends

LEMMA PlainMoves == ASSUME Plain, OnTheWire PROVE CallMoves
BY DEF Plain, Follows, Waits, OnTheWire, TaskAt, CallMoves

(* The task.                                                               *)
LEMMA TaskCalling == ASSUME Inv, TaskStep, ~Send PROVE TaskAt' # "call"
<1> USE DEF Inv, Typed, Procs, Labels, TaskAt, At, Go, GiveUp, Interrupts, Finally, Fail
<1>1. CASE Begin \/ Pause \/ Blocked \/ Raise  BY <1>1 DEF Begin, Pause, Blocked, Raise
<1>2. CASE Answered \/ Unanswered  BY <1>2 DEF Answered, Unanswered, Graph
<1>3. CASE StageStep
  <2>1. PICK new, next : Moved(new, next) /\ Graph("run", new, next)  BY <1>3, StageShape
  <2> QED  BY <2>1 DEF Graph, Moved
<1>4. CASE Apply \/ Complete  BY <1>4 DEF Apply, Complete
<1>5. CASE Interrupt("task") \/ Release  BY <1>5 DEF Interrupt, Release
<1>6. CASE Emit("task") \/ Mark("task")  BY <1>6 DEF Emit, Mark
<1>7. CASE Flush("task")  BY <1>7 DEF Flush, Flushed, Answer
<1> QED  BY <1>1, <1>2, <1>3, <1>4, <1>5, <1>6, <1>7 DEF TaskStep, StageStep

SameCall(q) == q.call = pg.call /\ q.acks = pg.acks

LEMMA StageMovesCall == ASSUME Inv, StageStep PROVE CallMoves
<1>1. PICK new, next : Moved(new, next) /\ Graph("run", new, next) /\ UNCHANGED history
  BY StageShape
<1>2. SameCall(pg) /\ SameCall(new)  BY <1>1 DEF SameCall, Moved
<1>3. pg' \in {pg, new}  BY <1>1 DEF Graph, Lost
<1> QED  BY <1>1, <1>2, <1>3 DEF CallMoves, SameCall, history

LEMMA SendMoves == ASSUME Inv, Send PROVE CallMoves /\ OnTheWire'
<1> DEFINE new == [pg EXCEPT !.call = "dispatched"]
<1>0. /\ pg.call \in {"none", "acknowledged"} /\ Graph("run", new, "call")
      /\ sends' = IF pc'["task"] = "call" THEN sends + 1 ELSE sends
  BY DEF Send
<1>1. new.call = "dispatched" /\ new.acks = pg.acks  BY DEF Inv, Typed, Row
<1> HIDE DEF new
<1>2. pg' = new \/ (pg' = pg /\ pc'["task"] = "interrupt")
  BY <1>0 DEF Graph, Go, GiveUp, Interrupts, Lost, Inv, Typed, Procs
<1>3. CASE pg' = new  BY <1>0, <1>1, <1>3 DEF CallMoves, OnTheWire
<1>4. CASE pg' = pg /\ pc'["task"] = "interrupt"  BY <1>0, <1>4 DEF CallMoves, OnTheWire, TaskAt
<1> QED  BY <1>2, <1>3, <1>4

(* While the task waits, the only operation is a cancellation.             *)
LEMMA CallerAlone ==
  ASSUME Inv, Story, TaskAt = "call"
  PROVE  /\ CreatorAt = "idle" /\ handler.op \in {"none", "cancel"} /\ mode = "up"
         /\ HandlerAt \in {"idle", "lock", "commit"}
<1>1. status = "running" /\ CreatorAt = "idle" /\ mode = "up"
  BY DEF Story, Flat, Placed, Following
<1>2. handler.op \notin {"launch", "approve", "resume", "delete", "startup", "settled"}
  BY <1>1 DEF Story, Flat, Placed, Following, Terminal
<1>3. HandlerAt # "await" /\ HandlerAt # "interrupt"  BY DEF Story, Flat, Placed
<1> QED  BY <1>1, <1>2, <1>3 DEF Story, Flat, Operating, Inv, Typed, Holding

LEMMA OthersCalling ==
  ASSUME Inv, Story, [Next]_vars, ~TaskStep
  PROVE  Calling
<1> USE DEF Inv, Typed, Procs, Labels, TaskAt, HandlerAt, CreatorAt, At, Go
<1> SUFFICES ASSUME TaskAt' = "call" PROVE Calling  BY DEF Calling
<1>1. CASE TaskAt = "call"
  <2>0. /\ CreatorAt = "idle" /\ handler.op \in {"none", "cancel"} /\ mode = "up"
        /\ HandlerAt \in {"idle", "lock", "commit"}
    BY <1>1, CallerAlone
  <2>1. CASE HandlerStep
    <3>1. Lock \/ Commit
      BY <2>0, <2>1 DEF HandlerStep, Bind, ClaimInitial, ClaimApproval, ClaimResume, Await, Emit, Flush, Mark,
                        Interrupt, Recover, Tombstone, Settle
    <3>2. CASE Lock  BY <1>1, <3>2 DEF Lock, Calling
    <3>3. CASE Commit
      <4> DEFINE cut == Cancelled(FALSE)
      <4>1. cut.cancelRequested  BY RowsStay
      <4> HIDE DEF cut
      <4>2. handler.op = "cancel"  BY <2>0, <3>3 DEF Commit, Story, Flat, Operating
      <4>3. ~Kill(claim', [pc EXCEPT !["handler"] = "await"])
        BY KillMoves
      <4>4. (handler.op = "delete") = FALSE  BY <4>2
      <4>5. \/ UNCHANGED pg /\ GiveUp("handler")
            \/ Lost(IF pg.bound THEN cut ELSE pg) /\ GiveUp("handler")
        BY <1>1, <3>3, <4>2, <4>3, <4>4 DEF Commit, cut
      <4>6. pg' \in {pg, cut} /\ claim' = claim  BY <4>5 DEF Lost, GiveUp
      <4> QED  BY <1>1, <4>1, <4>6 DEF Calling
    <3> QED  BY <3>1, <3>2, <3>3
  <2>2. CASE CreatorStep
    BY <2>0, <2>2 DEF CreatorStep, Launch, Bind, ClaimInitial
  <2>3. CASE UserStep
    BY <1>1, <2>3 DEF UserStep, Create, Approve, Resume, Cancel, Delete, Command, Calling
  <2>4. CASE Close \/ Crash \/ Restart \/ Restore
    BY <1>1, <2>0, <2>4, KillMoves DEF Close, Crash, Restart, Restore
  <2>5. CASE UNCHANGED vars  BY <1>1, <2>5 DEF vars, memory, Calling
  <2> QED  BY <2>1, <2>2, <2>3, <2>4, <2>5 DEF Next
<1>2. ASSUME TaskAt # "call" PROVE TaskAt' # "call"
  <2>1. CASE HandlerStep
    <3>1. CASE Bind("handler") \/ ClaimInitial("handler") \/ ClaimApproval
      BY <1>2, <3>1 DEF Bind, ClaimInitial, ClaimApproval, GiveUp, Interrupts, Answer
    <3>2. CASE \E confirm \in BOOLEAN : ClaimResume(confirm)
      BY <1>2, <3>2 DEF ClaimResume, GiveUp, Interrupts
    <3>3. CASE Lock \/ Await \/ Commit
      BY <1>2, <3>3, KillMoves DEF Lock, Await, Commit, GiveUp, Interrupts, Answer
    <3>4. CASE Emit("handler") \/ Mark("handler") \/ Interrupt("handler")
      BY <1>2, <3>4 DEF Emit, Mark, Interrupt, GiveUp, Interrupts, Answer
    <3>5. CASE Flush("handler")
      BY <1>2, <3>5 DEF Flush, Flushed, GiveUp, Interrupts, Answer
    <3>6. CASE Recover \/ Tombstone \/ Settle
      BY <1>2, <3>6 DEF Recover, Tombstone, Settle, Started, GiveUp, Interrupts, Answer
    <3> QED  BY <2>1, <3>1, <3>2, <3>3, <3>4, <3>5, <3>6 DEF HandlerStep
  <2>2. CASE CreatorStep
    BY <1>2, <2>2 DEF CreatorStep, Launch, Bind, ClaimInitial, GiveUp, Interrupts
  <2>3. CASE UserStep
    BY <1>2, <2>3 DEF UserStep, Create, Approve, Resume, Cancel, Delete, Command
  <2>4. CASE Close \/ Crash \/ Restart \/ Restore
    BY <1>2, <2>4, KillMoves DEF Close, Crash, Restart, Restore, memory
  <2>5. CASE UNCHANGED vars  BY <1>2, <2>5 DEF vars, memory
  <2> QED  BY <2>1, <2>2, <2>3, <2>4, <2>5 DEF Next
<1> QED  BY <1>1, <1>2

LEMMA InitWire == Init => OnTheWire
BY DEF Init, OnTheWire, TaskAt, Procs

LEMMA StepWire == Inv /\ Story /\ OnTheWire /\ [Next]_vars => CallMoves /\ OnTheWire'
<1> SUFFICES ASSUME Inv, Story, OnTheWire, [Next]_vars PROVE CallMoves /\ OnTheWire'
  OBVIOUS
<1>1. CASE Send  BY <1>1, SendMoves
<1>2. CASE ~Send
  <2>1. Calling
    BY <1>2, TaskCalling, OthersCalling DEF Calling
  <2>2. OnTheWire'  BY <2>1 DEF Calling, OnTheWire, TaskAt, Valid
  <2>3. CallMoves
    <3>1. CASE TaskStep
      BY <1>2, <3>1, TaskPlain, EmitPlain, FlushPlain, MarkPlain, InterruptPlain, StageMovesCall, PlainMoves
         DEF TaskStep, StageStep
    <3>2. CASE HandlerStep /\ ~ClaimApproval /\ ~\E confirm \in BOOLEAN : ClaimResume(confirm)
      BY <3>2, BindPlain, ClaimInitialPlain, LockPlain, CommitPlain, AwaitPlain, EmitPlain, FlushPlain, MarkPlain,
         InterruptPlain, RecoverPlain, TombstonePlain, SettlePlain, PlainMoves
         DEF HandlerStep
    <3>3. CASE ClaimApproval
      <4> DEFINE new == Accepted(handler.command)
      <4>1. new.call = pg.call /\ new.acks = pg.acks  BY ClaimedRow DEF Accepted, Inv, Row
      <4> HIDE DEF new
      <4>2. pg' \in {pg, new} /\ sends' = sends
        BY <3>3 DEF ClaimApproval, Lost, GiveUp, history, new
      <4> QED  BY <4>1, <4>2 DEF CallMoves
    <3>4. ASSUME NEW confirm \in BOOLEAN, ClaimResume(confirm) PROVE CallMoves
      <4> DEFINE c == IF pg.call = "unknown" THEN "acknowledged" ELSE pg.call
                 n == IF pg.call = "unknown" THEN pg.acks + 1 ELSE pg.acks
                 new == [Claimed EXCEPT !.call = c, !.acks = n]
      <4>1. /\ Claimed \in Row /\ Claimed.call = pg.call /\ Claimed.acks = pg.acks
        BY ClaimedRow DEF Inv
      <4>2. [Claimed EXCEPT !.call = IF @ = "unknown" THEN "acknowledged" ELSE @,
                            !.acks = IF pg.call = "unknown" THEN @ + 1 ELSE @] = new
        BY <4>1
      <4>3. \/ c = pg.call /\ n = pg.acks
            \/ pg.call = "unknown" /\ c = "acknowledged" /\ n = pg.acks + 1
        OBVIOUS
      <4> HIDE DEF c, n
      <4>4. new.call = c /\ new.acks = n  BY <4>1 DEF Row
      <4> HIDE DEF new
      <4>5. pg' \in {pg, new} /\ sends' = sends
        BY <3>4, <4>2 DEF ClaimResume, Lost, GiveUp, history
      <4> QED  BY <4>3, <4>4, <4>5 DEF CallMoves
    <3>5. CASE CreatorStep \/ (\E reserved \in BOOLEAN : Create(reserved))
      BY <3>5, LaunchPlain, BindPlain, ClaimInitialPlain, CreatePlain, PlainMoves DEF CreatorStep
    <3>6. CASE UserStep /\ ~(\E reserved \in BOOLEAN : Create(reserved))
      BY <3>6 DEF UserStep, Approve, Resume, Cancel, Delete, Command, history, CallMoves
    <3>7. CASE Close \/ Crash \/ Restart \/ Restore
      BY <3>7, ClosePlain, ProcessPlain, PlainMoves
    <3>8. CASE UNCHANGED vars
      BY <3>8 DEF vars, history, CallMoves
    <3> QED  BY <3>1, <3>2, <3>3, <3>4, <3>5, <3>6, <3>7, <3>8 DEF Next
  <2> QED  BY <2>2, <2>3
<1> QED  BY <1>1, <1>2

(* The steps of the call are steps of ExternalCall.                        *)
LEMMA CallSteps == ASSUME Inv, CallMoves PROVE [Call!Next]_(Call!vars)
<1>0. pg.call \in Calls  BY DEF Inv, Typed, Row
<1> USE DEF Call!Next, Call!vars
<1>1. CASE UNCHANGED <<pg.call, pg.acks, sends>>
  BY <1>1
<1>2. CASE /\ pg.call \in {"none", "acknowledged"} /\ pg'.call = "dispatched"
           /\ pg'.acks = pg.acks /\ sends' \in {sends, sends + 1}
  BY <1>2 DEF Call!Send
<1>3. CASE pg.call = "dispatched" /\ pg'.call = "answered" /\ UNCHANGED <<pg.acks, sends>>
  BY <1>3 DEF Call!Answer
<1>4. CASE pg.call = "dispatched" /\ pg'.call = "unknown" /\ UNCHANGED <<pg.acks, sends>>
  BY <1>4 DEF Call!Lose
<1>5. CASE /\ pg.call = "unknown" /\ pg'.call = "acknowledged"
           /\ pg'.acks = pg.acks + 1 /\ sends' = sends
  BY <1>5 DEF Call!Acknowledge
<1> QED  BY <1>1, <1>2, <1>3, <1>4, <1>5 DEF CallMoves

LEMMA CallInit == Init => Call!Init
BY DEF Init, Call!Init

(* The run implements the external call: through every crash, recovery,    *)
(* resume and transaction whose outcome is not known, the call is sent,    *)
(* answered, lost and confirmed as ExternalCall allows, so that it is sent *)
(* again only after it failed or the user confirmed it (RunService and the *)
(* call journal).  For every scenario.                                     *)
THEOREM RunImplementsCall == Spec => CallPromised
<1>1. Init => Inv /\ Story /\ OnTheWire /\ Call!Init
  BY InitInv, InitStory, InitWire, CallInit
<1>2. Inv /\ Story /\ OnTheWire /\ [Next]_vars =>
        (Inv /\ Story /\ OnTheWire)' /\ [Call!Next]_(Call!vars)
  BY StepInv, StoryKeeps, StepWire, CallSteps
<1> QED  BY <1>1, <1>2, PTL DEF Spec, CallPromised, Call!Spec

=============================================================================
