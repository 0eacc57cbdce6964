---------------------------- MODULE ToolStageProofs ----------------------------
(***************************************************************************)
(* Theorems about ToolStage, for any wave, tools, earlier calls, batches   *)
(* and limits: the researchers keep to the tool budget of the run, each    *)
(* tool call of an answer is answered before the model is asked again, the *)
(* circuit of a target holds across branches, what failed for good is not  *)
(* tried again, a complete result rests on calls of its own task, and each *)
(* step uses up a bound of its researcher (Left).                          *)
(***************************************************************************)
EXTENDS ToolStage, Descent, TLAPS, FiniteSetTheorems, SequenceTheorems

Capabilities == UNION {Policy[t].caps : t \in Tools}
Stages == [turns : Nat, own : SUBSET Nat, have : SUBSET Capabilities, dead : SUBSET Call,
           rejected : Nat, spent : BOOLEAN, wide : BOOLEAN, thought : BOOLEAN, open : Nat, left : Nat,
           call : Call \cup {"none"}, stop : BOOLEAN, finish : BOOLEAN, missing : BOOLEAN]
Labels == {"begin", "loop", "asked", "batch", "running", "analyze", "done"}
Endings == {"none", "complete", "accepted", "partial", "failed"}
State == [pc : Labels, attempt : Nat, best : {"none", "partial"}, outcome : Endings, since : Nat,
          stage : Stages]

Running == {b \in Wave : st[b].pc = "running"}

Typed ==
  /\ option \in Options /\ reserved \in Nat /\ log \in Seq(Record)
  /\ st \in [Wave -> State]

(* Whoever may reserve sees all calls that were made or are under way: in   *)
(* what is reserved or, before this wave called anything, in its own view.  *)
Counts ==
  /\ Len(log) + Cardinality(Running) <= option.runLimit /\ reserved <= option.runLimit
  /\ \/ Len(log) + Cardinality(Running) <= reserved
     \/ log = option.earlier /\ Running = {}

(* The calls of a batch that are left are those without an answer, unless   *)
(* the stage stops.                                                         *)
Balanced(x) ==
  /\ x.stage.left <= x.stage.open
  /\ x.pc \in {"loop", "asked"} => x.stage.open = 0
  /\ x.pc \in {"batch", "running"} /\ ~x.stage.stop => x.stage.left = x.stage.open
  /\ x.pc = "running" => x.stage.left > 0 /\ x.stage.call \in {c \in Call : c.tool # "none"}

Inv == Typed /\ Counts /\ \A b \in Wave : Balanced(st[b])

LEMMA OptionFacts ==
  ASSUME Typed
  PROVE  /\ Wave \subseteq Branches /\ IsFiniteSet(Wave) /\ option.runLimit \in Nat
         /\ option.batch \in Nat
         /\ option.earlier \in Seq(Record) /\ Len(option.earlier) <= option.runLimit
         /\ \A i \in DOMAIN option.earlier : option.earlier[i].by = "earlier"
<1>1. IsOption(option) /\ IsFiniteSet(Branches)  BY ToolStageAssumption DEF Typed
<1>2. Wave \subseteq Branches  BY <1>1 DEF IsOption, Wave
<1> QED  BY <1>1, <1>2, FS_Subset DEF IsOption

LEMMA RunningFinite == ASSUME Typed PROVE IsFiniteSet(Running) /\ Cardinality(Running) \in Nat
BY OptionFacts, FS_Subset, FS_CardinalityType DEF Running

-----------------------------------------------------------------------------
(* How a step moves one researcher.                                         *)

Becomes(b, x) ==
  x \in State /\ st' \in [Wave -> State] /\ st'[b] = x /\ \A c \in Wave \ {b} : st'[c] = st[c]

LEMMA SetTo ==
  ASSUME Typed, NEW b \in Wave, NEW x \in State, st' = [st EXCEPT ![b] = x]
  PROVE  Becomes(b, x)
BY DEF Becomes, Typed

LEMMA Moves ==
  ASSUME Typed, NEW b \in Wave, NEW pc \in Labels, NEW s \in Stages, Move(b, pc, s)
  PROVE  Becomes(b, [st[b] EXCEPT !.pc = pc, !.stage = s])
<1> DEFINE x == [st[b] EXCEPT !.pc = pc, !.stage = s]
<1>1. x \in State  BY DEF Typed, State
<1>2. st' = [st EXCEPT ![b] = x]  BY DEF Move, Typed, State
<1> HIDE DEF x
<1>3. Becomes(b, x)  BY <1>1, <1>2, SetTo
<1> QED  BY <1>3 DEF x

LEMMA Ends ==
  ASSUME Typed, NEW b \in Wave, NEW outcome \in Endings,
         st' = [st EXCEPT ![b].pc = "done", ![b].stage = Fresh, ![b].outcome = outcome], Fresh \in Stages
  PROVE  Becomes(b, [st[b] EXCEPT !.pc = "done", !.stage = Fresh, !.outcome = outcome])
<1> DEFINE f == Fresh
           x == [st[b] EXCEPT !.pc = "done", !.stage = f, !.outcome = outcome]
<1> HIDE DEF f
<1>1. x \in State  BY DEF Typed, State, Labels, f
<1>2. st' = [st EXCEPT ![b] = x]  BY DEF Typed, State, f
<1> HIDE DEF x
<1>3. Becomes(b, x)  BY <1>1, <1>2, SetTo
<1> QED  BY <1>3 DEF x, f

LEMMA FreshStage == Fresh \in Stages /\ Fresh.open = 0 /\ Fresh.left = 0
BY DEF Fresh, Stages

(* A step of a researcher who neither runs a call before it nor after it.   *)
LEMMA Quiet ==
  ASSUME Inv, NEW b \in Wave, NEW x, Becomes(b, x), st[b].pc # "running", x.pc # "running",
         Balanced(x), UNCHANGED <<option, reserved, log>>
  PROVE  Inv'
<1>1. Wave' = Wave  BY DEF Wave
<1>2. Typed'  BY <1>1 DEF Inv, Typed, Becomes
<1>3. Running' = Running  BY <1>1 DEF Running, Becomes
<1>4. Counts'  BY <1>3 DEF Inv, Counts
<1>5. (\A c \in Wave : Balanced(st[c]))'  BY <1>1 DEF Inv, Becomes, Balanced
<1> QED  BY <1>2, <1>4, <1>5 DEF Inv

LEMMA QuietMove ==
  ASSUME Inv, NEW b \in Wave, NEW pc \in Labels \ {"running"}, NEW s \in Stages, Move(b, pc, s),
         st[b].pc # "running", s.left <= s.open, pc \in {"loop", "asked"} => s.open = 0,
         pc = "batch" /\ ~s.stop => s.left = s.open, UNCHANGED <<option, reserved, log>>
  PROVE  Inv'
<1> DEFINE x == [st[b] EXCEPT !.pc = pc, !.stage = s]
<1>1. Becomes(b, x)  BY Moves DEF Inv
<1>2. x.pc = pc /\ x.stage = s  BY DEF Inv, Typed, State
<1> HIDE DEF x
<1>3. Balanced(x) /\ x.pc # "running"  BY <1>2 DEF Balanced
<1> QED  BY <1>1, <1>3, Quiet

LEMMA Restarts ==
  ASSUME Inv, NEW b \in Wave, NEW best \in {"none", "partial"}, st[b].pc # "running",
         st' = [st EXCEPT ![b].pc = "begin", ![b].attempt = @ + 1, ![b].best = best, ![b].stage = Fresh],
         UNCHANGED <<option, reserved, log>>
  PROVE  Inv'
<1> DEFINE f == Fresh
           x == [st[b] EXCEPT !.pc = "begin", !.attempt = @ + 1, !.best = best, !.stage = f]
<1>0. f \in Stages /\ f.open = 0 /\ f.left = 0  BY FreshStage
<1> HIDE DEF f
<1>1. x \in State /\ x.pc = "begin" /\ x.stage = f  BY <1>0 DEF Inv, Typed, State, Labels
<1>2. st' = [st EXCEPT ![b] = x]  BY DEF Inv, Typed, State, f
<1> HIDE DEF x
<1>3. Becomes(b, x)  BY <1>1, <1>2, SetTo DEF Inv
<1>4. Balanced(x) /\ x.pc # "running"  BY <1>0, <1>1 DEF Balanced
<1> QED  BY <1>3, <1>4, Quiet

LEMMA QuietEnd ==
  ASSUME Inv, NEW b \in Wave, NEW outcome \in Endings, st[b].pc # "running",
         st' = [st EXCEPT ![b].pc = "done", ![b].stage = Fresh, ![b].outcome = outcome],
         UNCHANGED <<option, reserved, log>>
  PROVE  Inv'
<1> DEFINE f == Fresh
           x == [st[b] EXCEPT !.pc = "done", !.stage = f, !.outcome = outcome]
<1>1. Becomes(b, x)  BY Ends, FreshStage DEF Inv
<1>2. f.open = 0 /\ f.left = 0  BY FreshStage
<1> HIDE DEF f
<1>3. x.pc = "done" /\ x.stage = f  BY DEF Inv, Typed, State
<1> HIDE DEF x
<1>4. Balanced(x) /\ x.pc # "running"  BY <1>2, <1>3 DEF Balanced
<1> QED  BY <1>1, <1>4, Quiet

LEMMA AttemptFailsKeeps ==
  ASSUME Inv, NEW b \in Wave, NEW final, AttemptFails(b, final), st[b].pc # "running",
         UNCHANGED <<option, reserved, log>>
  PROVE  Inv'
<1>0. st[b] \in State  BY DEF Inv, Typed
<1>1. CASE st[b].attempt < option.attempts /\ ~final
  <2> DEFINE f == Fresh
  <2>1. st' = [st EXCEPT ![b].pc = "begin", ![b].attempt = @ + 1, ![b].stage = f]
    BY <1>1 DEF AttemptFails
  <2> HIDE DEF f
  <2>2. st' = [st EXCEPT ![b].pc = "begin", ![b].attempt = @ + 1, ![b].best = st[b].best, ![b].stage = f]
    BY <2>1, <1>0 DEF Inv, Typed, State
  <2>3. st[b].best \in {"none", "partial"}  BY <1>0 DEF State
  <2> QED  BY <2>2, <2>3, Restarts DEF f
<1>2. CASE ~(st[b].attempt < option.attempts /\ ~final)
  <2> DEFINE o == IF st[b].best = "none" THEN "failed" ELSE st[b].best
  <2>1. o \in Endings  BY <1>0 DEF State, Endings
  <2>2. st' = [st EXCEPT ![b].pc = "done", ![b].stage = Fresh, ![b].outcome = o]
    BY <1>2 DEF AttemptFails
  <2> HIDE DEF o
  <2> QED  BY <2>1, <2>2, QuietEnd
<1> QED  BY <1>1, <1>2

LEMMA AnalysisKeeps ==
  ASSUME Inv, NEW b \in Wave, NEW s \in Stages, NEW missing \in BOOLEAN, Analysis(b, s, missing),
         st[b].pc # "running", UNCHANGED <<option, reserved, log>>
  PROVE  Inv'
<1> DEFINE a == [Fresh EXCEPT !.own = s.own, !.missing = missing]
<1>1. a \in Stages /\ a.open = 0 /\ a.left = 0  BY DEF Fresh, Stages
<1>2. Move(b, "analyze", a)  BY DEF Analysis
<1> HIDE DEF a
<1> QED  BY <1>1, <1>2, QuietMove DEF Labels

LEMMA GatherFailsKeeps ==
  ASSUME Inv, NEW b \in Wave, NEW s \in Stages, GatherFails(b, s), st[b].pc # "running",
         UNCHANGED <<option, reserved, log>>
  PROVE  Inv'
<1>1. \/ Analysis(b, s, TRUE)
      \/ AttemptFails(b, s.spent \/ \E i \in s.own : Final(log[i]))  BY DEF GatherFails
<1> QED  BY <1>1, AnalysisKeeps, AttemptFailsKeeps

LEMMA LeaveKeeps ==
  ASSUME Inv, NEW b \in Wave, NEW s \in Stages, Leave(b, s), st[b].pc # "running",
         UNCHANGED <<option, reserved, log>>
  PROVE  Inv'
BY AnalysisKeeps, GatherFailsKeeps DEF Leave

-----------------------------------------------------------------------------
(* The actions.                                                             *)

LEMMA RecordFacts ==
  ASSUME Typed, NEW i \in DOMAIN log
  PROVE  /\ log[i] \in Record /\ log[i].call \in Call /\ log[i].call.tool \in Tools
         /\ Caps(log[i]) \subseteq Capabilities
<1>1. log[i] \in Record  BY DEF Typed
<1>2. log[i].call \in Call /\ log[i].call.tool \in Tools  BY <1>1 DEF Record, Call
<1> QED  BY <1>1, <1>2 DEF Caps, Capabilities

LEMMA BeginKeeps == ASSUME Inv, NEW b \in Wave, Begin(b) PROVE Inv'
<1> PICK n \in (IF option.task[b].fresh /\ st[b].attempt > 1 THEN 0..Len(log) ELSE {Len(log)}) :
       st' = [st EXCEPT ![b].pc = "loop", ![b].since = n,
                        ![b].stage = [Fresh EXCEPT !.have = UNION {Caps(log[i]) : i \in Acquired(b, n)},
                                                   !.dead = DeadTargets(b)]]
  BY Zenon DEF Begin
<1>0. n \in Nat
  <2>1. Len(log) \in Nat  BY DEF Inv, Typed
  <2> QED  BY <2>1
<1> DEFINE h == UNION {Caps(log[i]) : i \in Acquired(b, n)}
           d == DeadTargets(b)
           s == [Fresh EXCEPT !.have = h, !.dead = d]
           x == [st[b] EXCEPT !.pc = "loop", !.since = n, !.stage = s]
<1>1. h \subseteq Capabilities
  <2>1. \A i \in Acquired(b, n) : i \in DOMAIN log  BY DEF Acquired, Mine
  <2> QED  BY <2>1, RecordFacts DEF Inv
<1>2. d \subseteq Call
  <2>1. \A j \in Visible(b) : j \in DOMAIN log  BY DEF Visible
  <2> QED  BY <2>1, RecordFacts DEF Inv, DeadTargets
<1>3. st' = [st EXCEPT ![b].pc = "loop", ![b].since = n, ![b].stage = s]  OBVIOUS
<1> HIDE DEF h, d
<1>4. s \in Stages /\ s.open = 0 /\ s.left = 0  BY <1>1, <1>2 DEF Fresh, Stages
<1> HIDE DEF s
<1>5. x \in State /\ x.pc = "loop" /\ x.stage = s  BY <1>0, <1>4 DEF Inv, Typed, State, Labels
<1>6. st' = [st EXCEPT ![b] = x]  BY <1>3 DEF Inv, Typed, State
<1> HIDE DEF x
<1>7. Becomes(b, x)  BY <1>5, <1>6, SetTo DEF Inv
<1>8. Balanced(x) /\ x.pc # "running"  BY <1>4, <1>5 DEF Balanced
<1> QED  BY <1>7, <1>8, Quiet DEF Begin

LEMMA StageFacts ==
  ASSUME Inv, NEW b \in Wave
  PROVE  st[b] \in State /\ st[b].stage \in Stages /\ Balanced(st[b])
BY DEF Inv, Typed, State

LEMMA AskKeeps == ASSUME Inv, NEW b \in Wave, Ask(b) PROVE Inv'
<1> DEFINE s == st[b].stage
<1>1. s \in Stages /\ st[b].pc = "loop" /\ s.open = 0 /\ s.left <= s.open
      /\ UNCHANGED <<option, reserved, log>>
  BY StageFacts DEF Ask, Balanced
<1>2. \/ Leave(b, s) \/ Leave(b, [s EXCEPT !.spent = TRUE]) \/ Move(b, "asked", Counted(s))
  BY DEF Ask
<1>3. [s EXCEPT !.spent = TRUE] \in Stages  BY <1>1 DEF Stages
<1>4. Counted(s) \in Stages /\ Counted(s).open = s.open /\ Counted(s).left = s.left
  BY <1>1 DEF Stages, Counted
<1> HIDE DEF s
<1> QED  BY <1>1, <1>2, <1>3, <1>4, LeaveKeeps, QuietMove DEF Labels

LEMMA AnswersKeep ==
  ASSUME Inv, NEW b \in Wave,
         BadAnswer(b) \/ CutAnswer(b) \/ EmptyAnswer(b) \/ CallsAnswer(b)
  PROVE  Inv'
<1> DEFINE s == st[b].stage
<1>1. s \in Stages /\ st[b].pc = "asked" /\ s.open = 0 /\ s.left <= s.open
      /\ UNCHANGED <<option, reserved, log>>
  BY StageFacts DEF BadAnswer, CutAnswer, EmptyAnswer, CallsAnswer, Balanced
<1>2. \/ GatherFails(b, s) \/ Leave(b, s) \/ Move(b, "loop", s)
      \/ Move(b, "loop", [s EXCEPT !.thought = TRUE]) \/ Move(b, "loop", [s EXCEPT !.wide = TRUE])
      \/ \E n \in 1..option.batch : Move(b, "batch", [s EXCEPT !.left = n, !.open = n])
  BY DEF BadAnswer, CutAnswer, EmptyAnswer, CallsAnswer
<1> HIDE DEF s
<1>3. CASE GatherFails(b, s) \/ Leave(b, s)  BY <1>1, <1>3, GatherFailsKeeps, LeaveKeeps
<1>4. CASE Move(b, "loop", s)  BY <1>1, <1>4, QuietMove DEF Labels
<1>5. CASE Move(b, "loop", [s EXCEPT !.thought = TRUE])
  <2> DEFINE y == [s EXCEPT !.thought = TRUE]
  <2>1. y \in Stages /\ y.open = s.open /\ y.left = s.left  BY <1>1 DEF Stages
  <2> HIDE DEF y
  <2> QED  BY <1>1, <1>5, <2>1, QuietMove DEF Labels, y
<1>6. CASE Move(b, "loop", [s EXCEPT !.wide = TRUE])
  <2> DEFINE y == [s EXCEPT !.wide = TRUE]
  <2>1. y \in Stages /\ y.open = s.open /\ y.left = s.left  BY <1>1 DEF Stages
  <2> HIDE DEF y
  <2> QED  BY <1>1, <1>6, <2>1, QuietMove DEF Labels, y
<1>7. ASSUME NEW n \in 1..option.batch, Move(b, "batch", [s EXCEPT !.left = n, !.open = n])
      PROVE  Inv'
  <2> DEFINE y == [s EXCEPT !.left = n, !.open = n]
  <2>0. n \in Nat  BY OptionFacts DEF Inv
  <2>1. y \in Stages /\ y.open = n /\ y.left = n  BY <1>1, <2>0 DEF Stages
  <2>2. Move(b, "batch", y)  BY <1>7
  <2> HIDE DEF y
  <2> QED  BY <1>1, <2>0, <2>1, <2>2, QuietMove DEF Labels
<1> QED  BY <1>2, <1>3, <1>4, <1>5, <1>6, <1>7

LEMMA BatchDoneKeeps == ASSUME Inv, NEW b \in Wave, BatchDone(b) PROVE Inv'
<1> DEFINE s == st[b].stage
<1>1. s \in Stages /\ st[b].pc = "batch" /\ s.left = 0 /\ UNCHANGED <<option, reserved, log>>
      /\ (~s.stop => s.open = 0)
  BY StageFacts DEF BatchDone, Balanced
<1> DEFINE y == [s EXCEPT !.finish = FALSE]
<1>2. Leave(b, s) \/ (~s.stop /\ Move(b, "loop", y))  BY DEF BatchDone
<1> HIDE DEF s
<1>3. y \in Stages /\ y.open = s.open /\ y.left = s.left  BY <1>1 DEF Stages
<1> HIDE DEF y
<1> QED  BY <1>1, <1>2, <1>3, LeaveKeeps, QuietMove DEF Labels

LEMMA AnalyzeKeeps == ASSUME Inv, NEW b \in Wave, Analyze(b) PROVE Inv'
<1>1. st[b].pc = "analyze" /\ UNCHANGED <<option, reserved, log>>  BY DEF Analyze
<1>2. PICK o \in {"complete", "accepted", "partial"} :
         \/ Publish(b, o)
         \/ st' = [st EXCEPT ![b].pc = "begin", ![b].attempt = @ + 1, ![b].best = "partial",
                             ![b].stage = Fresh]
  <2>1. \A claim, reported : Calibrate(b, claim, reported) \in {"complete", "accepted", "partial"}
    BY DEF Calibrate
  <2> QED  BY <2>1 DEF Analyze
<1>3. CASE Publish(b, o)
  <2> DEFINE f == Fresh
  <2>1. st' = [st EXCEPT ![b].pc = "done", ![b].outcome = o, ![b].stage = f]  BY <1>3 DEF Publish
  <2> HIDE DEF f
  <2>2. st' = [st EXCEPT ![b].pc = "done", ![b].stage = f, ![b].outcome = o]
    BY <2>1 DEF Inv, Typed, State
  <2> QED  BY <1>1, <2>2, QuietEnd DEF Endings, f
<1> QED  BY <1>1, <1>2, <1>3, Restarts

LEMMA AnalysisFailsKeeps == ASSUME Inv, NEW b \in Wave, AnalysisFails(b) PROVE Inv'
BY AttemptFailsKeeps DEF AnalysisFails

(* A call is taken only while the budget has room, and each taken call is   *)
(* counted in reserved.                                                     *)
LEMMA ViewFacts ==
  ASSUME Inv, NEW b \in Wave
  PROVE  /\ Used(b) \in Nat /\ reserved <= Used(b)
         /\ Len(log) + Cardinality(Running) <= Used(b)
<1>1. Typed /\ Counts  BY DEF Inv
<1>2. Len(log) \in Nat /\ DOMAIN log = 1..Len(log) /\ reserved \in Nat  BY <1>1 DEF Typed
<1>3. IsFiniteSet(1..Len(log)) /\ Cardinality(1..Len(log)) = Len(log)
  <2> DEFINE n == Len(log)
  <2>1. n \in Int /\ 1 \in Int /\ n >= 0  BY <1>2
  <2> HIDE DEF n
  <2>2. IsFiniteSet(1..n) /\ Cardinality(1..n) = IF 1 > n THEN 0 ELSE n - 1 + 1  BY <2>1, FS_Interval
  <2>3. Cardinality(1..n) = n  BY <2>1, <2>2
  <2> QED  BY <2>2, <2>3 DEF n
<1>4. Visible(b) \subseteq 1..Len(log)  BY <1>2 DEF Visible
<1>5. OwnView(b) \in Nat  BY <1>3, <1>4, FS_Subset, FS_CardinalityType DEF OwnView
<1>6. Used(b) \in Nat /\ reserved <= Used(b) /\ OwnView(b) <= Used(b)
  BY <1>2, <1>5 DEF Used, Largest
<1>7. CASE Len(log) + Cardinality(Running) <= reserved
  BY <1>1, <1>2, <1>6, <1>7, RunningFinite
<1>8. CASE log = option.earlier /\ Running = {}
  <2>1. Visible(b) = 1..Len(log)  BY <1>1, <1>2, <1>8, OptionFacts DEF Visible
  <2>2. OwnView(b) = Len(log)  BY <1>3, <2>1 DEF OwnView
  <2>3. Cardinality(Running) = 0  BY <1>8, FS_EmptySet
  <2> QED  BY <1>2, <1>6, <2>2, <2>3
<1> QED  BY <1>1, <1>6, <1>7, <1>8 DEF Counts

LEMMA TakeKeeps == ASSUME Inv, NEW b \in Wave, Take(b) PROVE Inv'
<1> DEFINE s == st[b].stage
<1>1. s \in Stages /\ st[b].pc = "batch" /\ s.left > 0 /\ s.left <= s.open
      /\ s.left \in Nat /\ s.open \in Nat /\ s.rejected \in Nat
      /\ (~s.stop => s.left = s.open) /\ UNCHANGED <<option, log>>
  BY StageFacts DEF Take, Balanced, Stages
<1>2. PICK c \in option.calls :
         \/ Stage(b, StopBatch(s)) /\ UNCHANGED reserved
         \/ Stage(b, Refuse(s)) /\ UNCHANGED reserved
         \/ Stage(b, [StopBatch(s) EXCEPT !.spent = TRUE]) /\ UNCHANGED reserved
         \/ /\ c.tool # "none" /\ ~(Used(b) >= option.runLimit)
            /\ Move(b, "running", [s EXCEPT !.call = c]) /\ reserved' = Used(b) + 1
  BY Zenon DEF Take
<1>3. c \in Call
  <2>1. IsOption(option)  BY ToolStageAssumption DEF Inv, Typed
  <2> QED  BY <2>1 DEF IsOption
<1>4. ASSUME NEW y, Stage(b, y) PROVE Move(b, "batch", y)
  BY <1>1, <1>4 DEF Stage, Move, Inv, Typed, State
<1>5. CASE Stage(b, StopBatch(s)) /\ UNCHANGED reserved
  <2> DEFINE y == StopBatch(s)
  <2>1. y \in Stages /\ y.open = s.open /\ y.left = 0 /\ y.stop  BY <1>1 DEF Stages, StopBatch
  <2>2. Move(b, "batch", y)  BY <1>4, <1>5
  <2> HIDE DEF y, s
  <2> QED  BY <1>1, <1>5, <2>1, <2>2, QuietMove DEF Labels
<1>6. CASE Stage(b, Refuse(s)) /\ UNCHANGED reserved
  <2> DEFINE y == Refuse(s)
  <2>1. Move(b, "batch", y)  BY <1>4, <1>6
  <2> HIDE DEF s
  <2>2. y \in Stages /\ y.left <= y.open /\ (~y.stop => y.left = y.open)
    <3> DEFINE rejected == s.rejected + 1
               open == s.open - 1
               stop == s.stop \/ rejected >= Rejected
               left == IF rejected >= Rejected THEN 0 ELSE s.left - 1
    <3>1. y = [s EXCEPT !.rejected = rejected, !.open = open, !.stop = stop, !.left = left]
      BY <1>1 DEF Refuse, Stages
    <3>2. rejected \in Nat /\ open \in Nat /\ left \in Nat /\ stop \in BOOLEAN  BY <1>1 DEF Stages
    <3>3. left <= open /\ (~stop => left = open)  BY <1>1, <3>2
    <3> HIDE DEF rejected, open, stop, left, y
    <3> QED  BY <1>1, <3>1, <3>2, <3>3 DEF Stages
  <2> HIDE DEF y
  <2> QED  BY <1>1, <1>6, <2>1, <2>2, QuietMove DEF Labels
<1>7. CASE Stage(b, [StopBatch(s) EXCEPT !.spent = TRUE]) /\ UNCHANGED reserved
  <2> DEFINE y == [StopBatch(s) EXCEPT !.spent = TRUE]
  <2>1. y \in Stages /\ y.open = s.open /\ y.left = 0 /\ y.stop  BY <1>1 DEF Stages, StopBatch
  <2>2. Move(b, "batch", y)  BY <1>4, <1>7
  <2> HIDE DEF y, s
  <2> QED  BY <1>1, <1>7, <2>1, <2>2, QuietMove DEF Labels
<1>8. CASE /\ c.tool # "none" /\ ~(Used(b) >= option.runLimit)
           /\ Move(b, "running", [s EXCEPT !.call = c]) /\ reserved' = Used(b) + 1
  <2> DEFINE y == [s EXCEPT !.call = c]
             x == [st[b] EXCEPT !.pc = "running", !.stage = y]
  <2>1. y \in Stages /\ y.open = s.open /\ y.left = s.left /\ y.stop = s.stop /\ y.call = c
    BY <1>1, <1>3 DEF Stages
  <2>2. Becomes(b, x)
    <3> HIDE DEF y
    <3>1. Move(b, "running", y)  BY <1>8 DEF y
    <3> QED  BY <2>1, <3>1, Moves DEF Inv, Labels
  <2> HIDE DEF y, s
  <2>3. x.pc = "running" /\ x.stage = y  BY DEF Inv, Typed, State
  <2> HIDE DEF x
  <2>4. Wave' = Wave  BY <1>1 DEF Wave
  <2>5. Typed'  BY <1>1, <1>8, <2>2, <2>4, ViewFacts DEF Inv, Typed, Becomes
  <2>6. Running' = Running \cup {b} /\ b \notin Running
    BY <1>1, <2>2, <2>3, <2>4 DEF Running, Becomes
  <2>7. Cardinality(Running') = Cardinality(Running) + 1
    BY <2>6, RunningFinite, FS_AddElement DEF Inv
  <2>8. Counts'
    <3>1. Used(b) \in Nat /\ Len(log) + Cardinality(Running) <= Used(b) /\ option.runLimit \in Nat
          /\ Len(log) \in Nat /\ Cardinality(Running) \in Nat
      BY ViewFacts, OptionFacts, RunningFinite DEF Inv, Typed
    <3> QED  BY <1>1, <1>8, <2>7, <3>1 DEF Counts
  <2>9. Balanced(x)  BY <1>1, <1>3, <1>8, <2>1, <2>3 DEF Balanced
  <2>10. (\A d \in Wave : Balanced(st[d]))'  BY <2>2, <2>4, <2>9 DEF Inv, Becomes, Balanced
  <2> QED  BY <2>5, <2>8, <2>10 DEF Inv
<1> QED  BY <1>2, <1>5, <1>6, <1>7, <1>8

LEMMA CompleteKeeps ==
  ASSUME Inv, NEW b \in Wave, NEW r \in Record, st[b].pc = "running", Complete(b, r)
  PROVE  Inv'
<1> DEFINE s == st[b].stage
           own == s.own \cup {Len(log) + 1}
           have == s.have \cup Caps(r)
           dead == s.dead \cup (IF Policy[r.call.tool].scoped /\ Final(r) THEN {r.call} ELSE {})
           finish == s.finish \/ (~Failed(r) /\ Policy[r.call.tool].transient)
           stop == s.stop \/ (Failed(r) /\ Policy[r.call.tool].cap > 0
                              /\ Ran(s, r.call.tool) + (IF r.reused \/ r.result = "raised" THEN 0 ELSE 1)
                                   >= Policy[r.call.tool].cap)
           open == s.open - 1
           left == s.left - 1
           y == [s EXCEPT !.own = own, !.have = have, !.dead = dead, !.finish = finish, !.stop = stop,
                          !.call = "none", !.open = open, !.left = left]
           x == [st[b] EXCEPT !.pc = "batch", !.stage = y]
<1>1. s \in Stages /\ s.left > 0 /\ s.left <= s.open /\ s.left \in Nat /\ s.open \in Nat
      /\ (~s.stop => s.left = s.open)
  BY StageFacts DEF Balanced, Stages
<1>2. Len(log) \in Nat /\ log \in Seq(Record)  BY DEF Inv, Typed
<1>3. r.call \in Call /\ r.call.tool \in Tools  BY DEF Record, Call
<1>4. own \subseteq Nat /\ have \subseteq Capabilities /\ dead \subseteq Call
  BY <1>1, <1>2, <1>3 DEF Stages, Caps, Capabilities
<1>5. finish \in BOOLEAN /\ stop \in BOOLEAN /\ (~stop => ~s.stop)  BY <1>1 DEF Stages
<1>6. Move(b, "batch", y) /\ log' = Append(log, r) /\ UNCHANGED <<option, reserved>>
  BY <1>1 DEF Complete, Stages
<1>0. open \in Nat /\ left \in Nat /\ left <= open /\ (~stop => left = open)  BY <1>1, <1>5
<1> HIDE DEF own, have, dead, finish, stop, open, left
<1>7. y \in Stages /\ y.left <= y.open /\ (~y.stop => y.left = y.open)
  <2> HIDE DEF s
  <2> QED  BY <1>0, <1>1, <1>4, <1>5 DEF Stages
<1> HIDE DEF y
<1>8. Becomes(b, x)  BY <1>6, <1>7, Moves DEF Inv, Labels
<1>9. x.pc = "batch" /\ x.stage = y  BY DEF Inv, Typed, State
<1> HIDE DEF x
<1>10. Wave' = Wave  BY <1>6 DEF Wave
<1>11. log' \in Seq(Record) /\ Len(log') = Len(log) + 1  BY <1>2, <1>6
<1>12. Typed'  BY <1>6, <1>8, <1>10, <1>11 DEF Inv, Typed, Becomes
<1>13. Running' = Running \ {b} /\ b \in Running  BY <1>8, <1>9, <1>10 DEF Running, Becomes
<1>14. Cardinality(Running') = Cardinality(Running) - 1
  BY <1>13, RunningFinite, FS_RemoveElement DEF Inv
<1>15. Counts'
  <2>1. Cardinality(Running) \in Nat /\ reserved \in Nat /\ option.runLimit \in Nat
    BY RunningFinite, OptionFacts DEF Inv, Typed
  <2>2. Running # {}  BY <1>13
  <2> QED  BY <1>2, <1>6, <1>11, <1>14, <2>1, <2>2 DEF Inv, Counts
<1>16. Balanced(x)  BY <1>7, <1>9 DEF Balanced
<1>17. (\A d \in Wave : Balanced(st[d]))'  BY <1>8, <1>10, <1>16 DEF Inv, Becomes, Balanced
<1> QED  BY <1>12, <1>15, <1>17 DEF Inv

LEMMA ExecuteKeeps == ASSUME Inv, NEW b \in Wave, Execute(b) PROVE Inv'
<1>1. st[b].pc = "running" /\ st[b].stage.call \in {c \in Call : c.tool # "none"}
  BY StageFacts DEF Execute, Balanced
<1>2. \A result \in Results, reused \in BOOLEAN :
        [by |-> b, call |-> st[b].stage.call, result |-> result, reused |-> reused] \in Record
  BY <1>1, OptionFacts DEF Record, Inv
<1>3. option.results \subseteq Results
  <2>1. IsOption(option)  BY ToolStageAssumption DEF Inv, Typed
  <2> QED  BY <2>1 DEF IsOption
<1>4. \E r \in Record : Complete(b, r)
  <2>1. CASE Cached(st[b].stage)
    <3>1. Complete(b, [by |-> b, call |-> st[b].stage.call, result |-> "ok", reused |-> TRUE])
      BY <2>1 DEF Execute
    <3> QED  BY <1>2, <3>1 DEF Results
  <2>2. CASE ~Cached(st[b].stage)
    <3>1. PICK result \in option.results :
            Complete(b, [by |-> b, call |-> st[b].stage.call, result |-> result, reused |-> FALSE])
      BY <2>2 DEF Execute
    <3> QED  BY <1>2, <1>3, <3>1
  <2> QED  BY <2>1, <2>2
<1> QED  BY <1>1, <1>4, CompleteKeeps

-----------------------------------------------------------------------------
(* Budget and answers: every step keeps Inv.                                *)

LEMMA InitInv == Init => Inv
<1> SUFFICES ASSUME Init PROVE Inv  OBVIOUS
<1>1. option \in Options /\ log = option.earlier /\ st = [b \in Wave |-> Start]  BY DEF Init
<1>2. IsOption(option)  BY <1>1, ToolStageAssumption
<1>3. log \in Seq(Record) /\ Len(log) \in Nat /\ Len(log) <= option.runLimit /\ option.runLimit \in Nat
  BY <1>1, <1>2 DEF IsOption
<1>4. reserved \in Nat /\ reserved <= option.runLimit  BY <1>1, <1>3 DEF Init
<1>5. Start \in State /\ Start.pc = "begin" /\ Start.stage = Fresh
  BY FreshStage DEF Start, State, Labels, Endings
<1>6. Typed  BY <1>1, <1>3, <1>4, <1>5 DEF Typed
<1>7. Running = {}  BY <1>1, <1>5 DEF Running
<1>8. Counts  BY <1>1, <1>3, <1>4, <1>7, FS_EmptySet DEF Counts
<1>9. \A b \in Wave : Balanced(st[b])  BY <1>1, <1>5, FreshStage DEF Balanced
<1> QED  BY <1>6, <1>8, <1>9 DEF Inv

LEMMA StepInv == Inv /\ [Next]_vars => Inv'
<1> SUFFICES ASSUME Inv, [Next]_vars PROVE Inv'  OBVIOUS
<1>1. CASE UNCHANGED vars
  <2>1. Wave' = Wave /\ Running' = Running  BY <1>1 DEF Wave, Running, vars
  <2> QED  BY <1>1, <2>1 DEF vars, Inv, Typed, Counts, Balanced
<1>2. ASSUME NEW b \in Wave, Step(b) PROVE Inv'
  BY <1>2, BeginKeeps, AskKeeps, AnswersKeep, TakeKeeps, ExecuteKeeps, BatchDoneKeeps, AnalyzeKeeps,
     AnalysisFailsKeeps DEF Step
<1> QED  BY <1>1, <1>2 DEF Next, Done

-----------------------------------------------------------------------------
(* What a researcher knows of its calls.                                    *)

(* The capabilities that calls of the branch proved, after position n of    *)
(* the log where its task asks for fresh data.                              *)
Proven(b, n) == UNION {Caps(log[i]) : i \in {j \in Mine(b) : option.task[b].fresh => j > n}}
Met(b, n) ==
  /\ option.task[b].required \subseteq Proven(b, n)
  /\ \A g \in option.task[b].groups : g \cap Proven(b, n) # {}

(* A stage counts only what was proved, and remembers each target that      *)
(* failed for good; an analysis is not told of a gap only if there is none. *)
Staging == {"loop", "asked", "batch", "running"}
Knows(b, x) ==
  /\ x.since <= Len(log)
  /\ x.pc \in Staging =>
       /\ x.stage.have \subseteq Proven(b, x.since)
       /\ \A i \in Mine(b) : Policy[log[i].call.tool].scoped /\ Final(log[i]) =>
                               log[i].call \in x.stage.dead
  /\ x.pc = "running" => x.stage.call \notin x.stage.dead
  /\ x.pc = "analyze" /\ ~x.stage.missing => Met(b, x.since)
  /\ x.outcome = "complete" =>
       /\ x.pc = "done" /\ Met(b, x.since)
       /\ option.task[b].fresh => Citable(b) # {}

(* The calls of a target that are under way and the transient failures it   *)
(* ends with: no more than open its circuit and then the rest of the wave;  *)
(* or nobody of this wave has called it since.                              *)
On(c) == {b \in Wave : st[b].pc = "running" /\ st[b].stage.call = c}
Circuit(c) ==
  \/ On(c) = {} /\ LastFailures(c) \subseteq DOMAIN option.earlier
  \/ Cardinality(LastFailures(c)) + Cardinality(On(c)) <= Policy[c.tool].circuit + Cardinality(Wave) - 1
Guarded(c) == c.tool \in Tools /\ Policy[c.tool].circuit > 0
Circuits == \A c \in Call : Guarded(c) => Circuit(c)

Knowing == \A b \in Wave : Knows(b, st[b])
Strong == Inv /\ Knowing /\ Circuits

LEMMA LogFacts ==
  ASSUME Typed
  PROVE  Len(log) \in Nat /\ DOMAIN log = 1..Len(log) /\ IsFiniteSet(DOMAIN log)
<1>1. Len(log) \in Nat /\ DOMAIN log = 1..Len(log)  BY DEF Typed
<1>2. \A n \in Nat : IsFiniteSet(1..n)
  <2> TAKE n \in Nat
  <2>1. n \in Int /\ 1 \in Int  OBVIOUS
  <2> QED  BY <2>1, FS_Interval
<1> QED  BY <1>1, <1>2

LEMMA FailuresFinite ==
  ASSUME Typed, NEW c
  PROVE  IsFiniteSet(LastFailures(c)) /\ Cardinality(LastFailures(c)) \in Nat
<1>1. LastFailures(c) \subseteq DOMAIN log  BY DEF LastFailures, About
<1> QED  BY <1>1, LogFacts, FS_Subset, FS_CardinalityType

LEMMA OnFinite ==
  ASSUME Typed, NEW c
  PROVE  /\ IsFiniteSet(On(c)) /\ Cardinality(On(c)) \in Nat
         /\ Cardinality(On(c)) <= Cardinality(Wave) /\ Cardinality(Wave) \in Nat
<1>1. On(c) \subseteq Wave /\ IsFiniteSet(Wave)  BY OptionFacts DEF On
<1> QED  BY <1>1, FS_Subset, FS_CardinalityType

(* A step of b that leaves the calls alone.                                 *)
LEMMA KnowingOn ==
  ASSUME Strong, Inv', NEW b \in Wave, NEW x, Becomes(b, x), UNCHANGED <<option, log>>, Knows(b, x)
  PROVE  Knowing'
<1>1. Wave' = Wave  BY DEF Wave
<1>2. \A d \in Wave : st'[d] = IF d = b THEN x ELSE st[d]  BY DEF Becomes
<1>3. \A d \in Wave, n \in Nat : Proven(d, n)' = Proven(d, n) /\ Citable(d)' = Citable(d)
  BY DEF Proven, Citable, Mine, Visible, Caps, Failed, Evidence
<1>4. ASSUME NEW d \in Wave, NEW y, Knows(d, y) PROVE Knows(d, y)'
  BY <1>4 DEF Knows, Proven, Met, Citable, Mine, Visible, Caps, Failed, Evidence, Final, Retryable
<1>5. \A d \in Wave : Knows(d, st[d])  BY DEF Strong, Knowing
<1>6. ASSUME NEW d \in Wave PROVE Knows(d, st[d])'
  <2>1. CASE d = b
    <3>1. st'[d] = x /\ Knows(d, x)'  BY <1>2, <1>4, <2>1
    <3> QED  BY <3>1 DEF Knows, Met
  <2>2. CASE d # b
    <3>1. st'[d] = st[d] /\ Knows(d, st[d])  BY <1>2, <1>5, <2>2
    <3> QED  BY <3>1 DEF Knows, Proven, Met, Citable, Mine, Visible, Caps, Failed, Evidence, Final, Retryable
  <2> QED  BY <2>1, <2>2
<1> QED  BY <1>1, <1>6 DEF Knowing

LEMMA CircuitsOn ==
  ASSUME Strong, NEW b \in Wave, NEW x, Becomes(b, x), UNCHANGED <<option, log>>,
         st[b].pc # "running", x.pc # "running"
  PROVE  Circuits'
<1>1. Wave' = Wave  BY DEF Wave
<1>2. \A c : On(c)' = On(c)  BY <1>1 DEF On, Becomes
<1>3. \A c : LastFailures(c)' = LastFailures(c)  BY DEF LastFailures, About, Retryable
<1> QED  BY <1>1, <1>2, <1>3 DEF Strong, Circuits, Guarded, Circuit

LEMMA QuietKnows ==
  ASSUME Strong, Inv', NEW b \in Wave, NEW x, Becomes(b, x), st[b].pc # "running", x.pc # "running",
         Knows(b, x), UNCHANGED <<option, reserved, log>>
  PROVE  Strong'
BY KnowingOn, CircuitsOn DEF Strong

LEMMA MoveKnows ==
  ASSUME Strong, Inv', NEW b \in Wave, NEW pc \in Labels \ {"running", "done"}, NEW s \in Stages,
         Move(b, pc, s), st[b].pc \notin {"running", "done"}, UNCHANGED <<option, reserved, log>>,
         pc \in Staging => /\ st[b].pc \in Staging
                           /\ s.have = st[b].stage.have /\ s.dead = st[b].stage.dead,
         pc = "analyze" /\ ~s.missing => Met(b, st[b].since)
  PROVE  Strong'
<1> DEFINE x == [st[b] EXCEPT !.pc = pc, !.stage = s]
<1>1. Becomes(b, x)  BY Moves DEF Strong, Inv
<1>2. x.pc = pc /\ x.stage = s /\ x.since = st[b].since /\ x.outcome = st[b].outcome
  BY DEF Strong, Inv, Typed, State
<1> HIDE DEF x
<1>3. Knows(b, st[b])  BY DEF Strong, Knowing
<1>4. Knows(b, x) /\ x.pc # "running"  BY <1>2, <1>3 DEF Knows
<1> QED  BY <1>1, <1>4, QuietKnows

LEMMA RestartKnows ==
  ASSUME Strong, Inv', NEW b \in Wave, NEW best \in {"none", "partial"},
         st[b].pc \notin {"running", "done"},
         st' = [st EXCEPT ![b].pc = "begin", ![b].attempt = @ + 1, ![b].best = best, ![b].stage = Fresh],
         UNCHANGED <<option, reserved, log>>
  PROVE  Strong'
<1> DEFINE f == Fresh
           x == [st[b] EXCEPT !.pc = "begin", !.attempt = @ + 1, !.best = best, !.stage = f]
<1>0. f \in Stages /\ Inv  BY FreshStage DEF Strong
<1> HIDE DEF f
<1>1. /\ x \in State /\ x.pc = "begin" /\ x.stage = f
      /\ x.since = st[b].since /\ x.outcome = st[b].outcome
  BY <1>0 DEF Inv, Typed, State, Labels
<1>2. st' = [st EXCEPT ![b] = x]  BY <1>0 DEF Inv, Typed, State, f
<1> HIDE DEF x
<1>3. Becomes(b, x)  BY <1>0, <1>1, <1>2, SetTo DEF Inv
<1>4. Knows(b, st[b])  BY DEF Strong, Knowing
<1>5. Knows(b, x)  BY <1>1, <1>4 DEF Knows, Staging
<1> QED  BY <1>1, <1>3, <1>5, QuietKnows

LEMMA EndKnows ==
  ASSUME Strong, Inv', NEW b \in Wave, NEW outcome \in Endings, st[b].pc # "running",
         st' = [st EXCEPT ![b].pc = "done", ![b].stage = Fresh, ![b].outcome = outcome],
         outcome = "complete" => /\ Met(b, st[b].since)
                                 /\ option.task[b].fresh => Citable(b) # {},
         UNCHANGED <<option, reserved, log>>
  PROVE  Strong'
<1> DEFINE f == Fresh
           x == [st[b] EXCEPT !.pc = "done", !.stage = f, !.outcome = outcome]
<1>1. Becomes(b, x)  BY Ends, FreshStage DEF Strong, Inv
<1> HIDE DEF f
<1>2. x.pc = "done" /\ x.outcome = outcome /\ x.since = st[b].since
  BY DEF Strong, Inv, Typed, State
<1> HIDE DEF x
<1>3. Knows(b, st[b])  BY DEF Strong, Knowing
<1>4. Knows(b, x)  BY <1>2, <1>3 DEF Knows, Staging
<1> QED  BY <1>1, <1>2, <1>4, QuietKnows

LEMMA AttemptFailsKnows ==
  ASSUME Strong, Inv', NEW b \in Wave, NEW final, AttemptFails(b, final),
         st[b].pc \notin {"running", "done"}, UNCHANGED <<option, reserved, log>>
  PROVE  Strong'
<1>0. st[b] \in State /\ Inv  BY DEF Strong, Inv, Typed
<1>1. CASE st[b].attempt < option.attempts /\ ~final
  <2> DEFINE f == Fresh
  <2>1. st' = [st EXCEPT ![b].pc = "begin", ![b].attempt = @ + 1, ![b].stage = f]
    BY <1>1 DEF AttemptFails
  <2> HIDE DEF f
  <2>2. st' = [st EXCEPT ![b].pc = "begin", ![b].attempt = @ + 1, ![b].best = st[b].best, ![b].stage = f]
    BY <2>1, <1>0 DEF Inv, Typed, State
  <2>3. st[b].best \in {"none", "partial"}  BY <1>0 DEF State
  <2> QED  BY <2>2, <2>3, RestartKnows DEF f
<1>2. CASE ~(st[b].attempt < option.attempts /\ ~final)
  <2> DEFINE o == IF st[b].best = "none" THEN "failed" ELSE st[b].best
  <2>1. o \in Endings /\ o # "complete"  BY <1>0 DEF State, Endings
  <2>2. st' = [st EXCEPT ![b].pc = "done", ![b].stage = Fresh, ![b].outcome = o]
    BY <1>2 DEF AttemptFails
  <2> HIDE DEF o
  <2> QED  BY <2>1, <2>2, EndKnows
<1> QED  BY <1>1, <1>2

LEMMA AnalysisKnows ==
  ASSUME Strong, Inv', NEW b \in Wave, NEW s \in Stages, NEW missing \in BOOLEAN, Analysis(b, s, missing),
         ~missing => Met(b, st[b].since), st[b].pc \notin {"running", "done"},
         UNCHANGED <<option, reserved, log>>
  PROVE  Strong'
<1> DEFINE a == [Fresh EXCEPT !.own = s.own, !.missing = missing]
<1>1. a \in Stages /\ a.missing = missing  BY DEF Fresh, Stages
<1>2. Move(b, "analyze", a)  BY DEF Analysis
<1> HIDE DEF a
<1> QED  BY <1>1, <1>2, MoveKnows DEF Labels, Staging

LEMMA GatherFailsKnows ==
  ASSUME Strong, Inv', NEW b \in Wave, NEW s \in Stages, GatherFails(b, s),
         st[b].pc \notin {"running", "done"}, UNCHANGED <<option, reserved, log>>
  PROVE  Strong'
<1>1. \/ Analysis(b, s, TRUE)
      \/ AttemptFails(b, s.spent \/ \E i \in s.own : Final(log[i]))  BY DEF GatherFails
<1> QED  BY <1>1, AnalysisKnows, AttemptFailsKnows

LEMMA LeaveKnows ==
  ASSUME Strong, Inv', NEW b \in Wave, NEW s \in Stages, Leave(b, s),
         st[b].pc \in Staging \ {"running"}, s.have = st[b].stage.have,
         UNCHANGED <<option, reserved, log>>
  PROVE  Strong'
<1>1. Knows(b, st[b]) /\ st[b].pc # "done"  BY DEF Strong, Knowing, Staging
<1>2. s.have \subseteq Proven(b, st[b].since)  BY <1>1 DEF Knows
<1>3. ~Unmet(b, s) => Met(b, st[b].since)
  <2> DEFINE P == Proven(b, st[b].since)
  <2>1. s.have \subseteq P  BY <1>2
  <2> HIDE DEF P
  <2>2. ~Unmet(b, s) => /\ option.task[b].required \subseteq P
                        /\ \A g \in option.task[b].groups : g \cap P # {}
    BY <2>1 DEF Unmet
  <2> QED  BY <2>2 DEF P, Met
<1> QED  BY <1>1, <1>3, AnalysisKnows, GatherFailsKnows DEF Leave

LEMMA BeginKnows == ASSUME Strong, Inv', NEW b \in Wave, Begin(b) PROVE Strong'
<1>0. Inv /\ Typed /\ st[b].pc = "begin" /\ UNCHANGED <<option, reserved, log>>
  BY DEF Strong, Inv, Begin
<1> PICK n \in (IF option.task[b].fresh /\ st[b].attempt > 1 THEN 0..Len(log) ELSE {Len(log)}) :
       st' = [st EXCEPT ![b].pc = "loop", ![b].since = n,
                        ![b].stage = [Fresh EXCEPT !.have = UNION {Caps(log[i]) : i \in Acquired(b, n)},
                                                   !.dead = DeadTargets(b)]]
  BY Zenon DEF Begin
<1>1. n \in Nat /\ n <= Len(log)  BY <1>0, LogFacts
<1> DEFINE h == UNION {Caps(log[i]) : i \in Acquired(b, n)}
           d == DeadTargets(b)
           s == [Fresh EXCEPT !.have = h, !.dead = d]
           x == [st[b] EXCEPT !.pc = "loop", !.since = n, !.stage = s]
<1>2. h \subseteq Capabilities
  <2>1. \A i \in Acquired(b, n) : i \in DOMAIN log  BY DEF Acquired, Mine
  <2> QED  BY <1>0, <2>1, RecordFacts
<1>3. d \subseteq Call
  <2>1. \A j \in Visible(b) : j \in DOMAIN log  BY DEF Visible
  <2> QED  BY <1>0, <2>1, RecordFacts DEF DeadTargets
<1>4. h \subseteq Proven(b, n)  BY DEF Acquired, Proven
<1>5. \A i \in Mine(b) : Policy[log[i].call.tool].scoped /\ Final(log[i]) => log[i].call \in d
  BY DEF DeadTargets, Mine, Visible
<1>6. st' = [st EXCEPT ![b].pc = "loop", ![b].since = n, ![b].stage = s]  OBVIOUS
<1> HIDE DEF h, d
<1>7. s \in Stages /\ s.have = h /\ s.dead = d  BY <1>2, <1>3 DEF Fresh, Stages
<1> HIDE DEF s
<1>8. x \in State /\ x.pc = "loop" /\ x.stage = s /\ x.since = n /\ x.outcome = st[b].outcome
  BY <1>0, <1>1, <1>7 DEF Typed, State, Labels
<1>9. st' = [st EXCEPT ![b] = x]  BY <1>0, <1>6 DEF Typed, State
<1> HIDE DEF x
<1>10. Becomes(b, x)  BY <1>0, <1>8, <1>9, SetTo
<1>11. Knows(b, st[b])  BY DEF Strong, Knowing
<1>12. Knows(b, x)  BY <1>0, <1>1, <1>4, <1>5, <1>7, <1>8, <1>11 DEF Knows
<1> QED  BY <1>0, <1>8, <1>10, <1>12, QuietKnows

LEMMA AskKnows == ASSUME Strong, Inv', NEW b \in Wave, Ask(b) PROVE Strong'
<1> DEFINE s == st[b].stage
           y == [s EXCEPT !.spent = TRUE]
<1>0. Inv  BY DEF Strong
<1>1. s \in Stages /\ st[b].pc = "loop" /\ UNCHANGED <<option, reserved, log>>
  BY <1>0, StageFacts DEF Ask
<1>2. Leave(b, s) \/ Leave(b, y) \/ Move(b, "asked", Counted(s))  BY DEF Ask
<1>3. y \in Stages /\ y.have = s.have  BY <1>1 DEF Stages
<1>4. Counted(s) \in Stages /\ Counted(s).have = s.have /\ Counted(s).dead = s.dead
  BY <1>1 DEF Stages, Counted
<1> HIDE DEF y
<1> QED  BY <1>1, <1>2, <1>3, <1>4, LeaveKnows, MoveKnows DEF Labels, Staging

LEMMA AnswersKnow ==
  ASSUME Strong, Inv', NEW b \in Wave,
         BadAnswer(b) \/ CutAnswer(b) \/ EmptyAnswer(b) \/ CallsAnswer(b)
  PROVE  Strong'
<1> DEFINE s == st[b].stage
<1>0. Inv  BY DEF Strong
<1>1. s \in Stages /\ st[b].pc = "asked" /\ UNCHANGED <<option, reserved, log>>
  BY <1>0, StageFacts DEF BadAnswer, CutAnswer, EmptyAnswer, CallsAnswer
<1>2. \/ GatherFails(b, s) \/ Leave(b, s) \/ Move(b, "loop", s)
      \/ Move(b, "loop", [s EXCEPT !.thought = TRUE]) \/ Move(b, "loop", [s EXCEPT !.wide = TRUE])
      \/ \E n \in 1..option.batch : Move(b, "batch", [s EXCEPT !.left = n, !.open = n])
  BY DEF BadAnswer, CutAnswer, EmptyAnswer, CallsAnswer
<1>3. ASSUME NEW pc \in {"loop", "batch"}, NEW y \in Stages, y.have = s.have, y.dead = s.dead, Move(b, pc, y)
      PROVE  Strong'
  BY <1>1, <1>3, MoveKnows DEF Labels, Staging
<1>4. CASE GatherFails(b, s) \/ Leave(b, s)
  BY <1>1, <1>4, GatherFailsKnows, LeaveKnows DEF Staging
<1>5. CASE Move(b, "loop", s)  BY <1>1, <1>3, <1>5
<1>6. CASE Move(b, "loop", [s EXCEPT !.thought = TRUE])
  <2> DEFINE y == [s EXCEPT !.thought = TRUE]
  <2>1. y \in Stages /\ y.have = s.have /\ y.dead = s.dead  BY <1>1 DEF Stages
  <2> HIDE DEF y
  <2> QED  BY <1>3, <1>6, <2>1 DEF y
<1>7. CASE Move(b, "loop", [s EXCEPT !.wide = TRUE])
  <2> DEFINE y == [s EXCEPT !.wide = TRUE]
  <2>1. y \in Stages /\ y.have = s.have /\ y.dead = s.dead  BY <1>1 DEF Stages
  <2> HIDE DEF y
  <2> QED  BY <1>3, <1>7, <2>1 DEF y
<1>8. ASSUME NEW n \in 1..option.batch, Move(b, "batch", [s EXCEPT !.left = n, !.open = n])
      PROVE  Strong'
  <2> DEFINE y == [s EXCEPT !.left = n, !.open = n]
  <2>0. n \in Nat  BY <1>0, OptionFacts DEF Inv
  <2>1. y \in Stages /\ y.have = s.have /\ y.dead = s.dead  BY <1>1, <2>0 DEF Stages
  <2>2. Move(b, "batch", y)  BY <1>8
  <2> HIDE DEF y
  <2> QED  BY <1>3, <2>1, <2>2
<1> QED  BY <1>2, <1>4, <1>5, <1>6, <1>7, <1>8

LEMMA BatchDoneKnows == ASSUME Strong, Inv', NEW b \in Wave, BatchDone(b) PROVE Strong'
<1> DEFINE s == st[b].stage
           y == [s EXCEPT !.finish = FALSE]
<1>0. Inv  BY DEF Strong
<1>1. s \in Stages /\ st[b].pc = "batch" /\ UNCHANGED <<option, reserved, log>>
  BY <1>0, StageFacts DEF BatchDone
<1>2. Leave(b, s) \/ Move(b, "loop", y)  BY DEF BatchDone
<1>3. y \in Stages /\ y.have = s.have /\ y.dead = s.dead  BY <1>1 DEF Stages
<1> HIDE DEF y
<1> QED  BY <1>1, <1>2, <1>3, LeaveKnows, MoveKnows DEF Labels, Staging

(* A result is complete only without a gap, and for fresh data only with a  *)
(* source for each criterion.                                               *)
LEMMA CompleteIsGrounded ==
  ASSUME NEW b, NEW claim, NEW reported, Calibrate(b, claim, reported) = "complete"
  PROVE  ~st[b].stage.missing /\ (option.task[b].fresh => Citable(b) # {})
<1> DEFINE status == [c \in Criteria |-> Status(b, claim, c)]
           Full == {c \in Criteria : status[c] = "met"}
<1>1. Cardinality(Full) = CriteriaCount /\ ~st[b].stage.missing
  BY DEF Calibrate
<1>2. IsFiniteSet(Criteria) /\ Cardinality(Criteria) = CriteriaCount /\ 1 \in Criteria
  <2>1. 1 \in Int /\ 2 \in Int  OBVIOUS
  <2>2. /\ IsFiniteSet(1..2) /\ Cardinality(1..2) = IF 1 > 2 THEN 0 ELSE 2 - 1 + 1
    BY <2>1, FS_Interval
  <2> QED  BY <2>2 DEF Criteria, CriteriaCount
<1>3. Full = Criteria
  <2>1. Full \subseteq Criteria  OBVIOUS
  <2> HIDE DEF Full
  <2> QED  BY <1>1, <1>2, <2>1, FS_Subset
<1>4. Status(b, claim, 1) = "met"  BY <1>2, <1>3
<1>5. option.task[b].fresh => Bound(b, claim, 1)  BY <1>4 DEF Status
<1> QED  BY <1>1, <1>5 DEF Bound

LEMMA AnalyzeKnows == ASSUME Strong, Inv', NEW b \in Wave, Analyze(b) PROVE Strong'
<1>0. Inv /\ Typed  BY DEF Strong, Inv
<1>1. st[b].pc = "analyze" /\ UNCHANGED <<option, reserved, log>>  BY DEF Analyze
<1>2. PICK o \in {"complete", "accepted", "partial"} :
         /\ \/ Publish(b, o)
            \/ st' = [st EXCEPT ![b].pc = "begin", ![b].attempt = @ + 1, ![b].best = "partial",
                                ![b].stage = Fresh]
         /\ o = "complete" => \E claim, reported : Calibrate(b, claim, reported) = "complete"
  <2>1. \A claim, reported : Calibrate(b, claim, reported) \in {"complete", "accepted", "partial"}
    BY DEF Calibrate
  <2>2. PICK outcome \in {Calibrate(b, claim, reported) : claim \in Claims, reported \in Confidences} :
          \/ Publish(b, outcome)
          \/ st' = [st EXCEPT ![b].pc = "begin", ![b].attempt = @ + 1, ![b].best = "partial",
                              ![b].stage = Fresh]
          \/ Publish(b, "partial")
    BY DEF Analyze
  <2>3. outcome \in {"complete", "accepted", "partial"}  BY <2>1
  <2>4. outcome = "complete" => \E claim, reported : Calibrate(b, claim, reported) = "complete"
    OBVIOUS
  <2>5. CASE Publish(b, "partial")  BY <2>5
  <2> QED  BY <2>2, <2>3, <2>4, <2>5
<1>3. CASE Publish(b, o)
  <2> DEFINE f == Fresh
  <2>1. st' = [st EXCEPT ![b].pc = "done", ![b].outcome = o, ![b].stage = f]  BY <1>3 DEF Publish
  <2> HIDE DEF f
  <2>2. st' = [st EXCEPT ![b].pc = "done", ![b].stage = f, ![b].outcome = o]
    BY <1>0, <2>1 DEF Typed, State
  <2>3. o = "complete" => Met(b, st[b].since) /\ (option.task[b].fresh => Citable(b) # {})
    <3>1. Knows(b, st[b])  BY DEF Strong, Knowing
    <3>2. o = "complete" => ~st[b].stage.missing /\ (option.task[b].fresh => Citable(b) # {})
      BY <1>2, CompleteIsGrounded
    <3> QED  BY <1>1, <3>1, <3>2 DEF Knows
  <2> QED  BY <1>1, <2>2, <2>3, EndKnows DEF Endings, f
<1> QED  BY <1>1, <1>2, <1>3, RestartKnows

(* A call is taken only if its target neither failed for good in this stage *)
(* nor has an open circuit.                                                 *)
LEMMA TakeKnows == ASSUME Strong, Inv', NEW b \in Wave, Take(b) PROVE Strong'
<1> DEFINE s == st[b].stage
<1>0. Inv /\ Typed /\ Wave' = Wave  BY DEF Strong, Inv, Take, Wave
<1>1. s \in Stages /\ st[b].pc = "batch" /\ UNCHANGED <<option, log>>
  BY <1>0, StageFacts DEF Take
<1>2. PICK c \in option.calls :
         \/ Stage(b, StopBatch(s)) /\ UNCHANGED reserved
         \/ Stage(b, Refuse(s)) /\ UNCHANGED reserved
         \/ Stage(b, [StopBatch(s) EXCEPT !.spent = TRUE]) /\ UNCHANGED reserved
         \/ /\ c.tool # "none" /\ c \notin s.dead /\ ~Blocked(c)
            /\ Move(b, "running", [s EXCEPT !.call = c])
  BY Zenon DEF Take
<1>3. c \in Call
  <2>1. IsOption(option)  BY <1>0, ToolStageAssumption DEF Typed
  <2> QED  BY <2>1 DEF IsOption
<1>4. ASSUME NEW pc \in {"batch", "running"}, NEW y \in Stages, Move(b, pc, y),
             y.have = s.have, y.dead = s.dead, pc = "running" => y.call \notin y.dead
      PROVE  \E x : /\ Becomes(b, x) /\ Knows(b, x) /\ x.pc = pc /\ x.stage = y
  <2> DEFINE x == [st[b] EXCEPT !.pc = pc, !.stage = y]
  <2>1. Becomes(b, x)  BY <1>0, <1>4, Moves DEF Labels
  <2>2. x.pc = pc /\ x.stage = y /\ x.since = st[b].since /\ x.outcome = st[b].outcome
    BY <1>0 DEF Typed, State
  <2> HIDE DEF x
  <2>3. Knows(b, st[b])  BY DEF Strong, Knowing
  <2>4. Knows(b, x)  BY <1>1, <1>4, <2>2, <2>3 DEF Knows, Staging
  <2> QED  BY <2>1, <2>2, <2>4
<1>5. ASSUME NEW y \in Stages, Stage(b, y), y.have = s.have, y.dead = s.dead, UNCHANGED reserved
      PROVE  Strong'
  <2>1. Move(b, "batch", y)  BY <1>0, <1>1, <1>5 DEF Stage, Move, Typed, State
  <2>2. PICK x : Becomes(b, x) /\ Knows(b, x) /\ x.pc = "batch"  BY <1>4, <1>5, <2>1
  <2> QED  BY <1>1, <1>5, <2>2, QuietKnows
<1>6. CASE Stage(b, StopBatch(s)) /\ UNCHANGED reserved
  <2>1. StopBatch(s) \in Stages /\ StopBatch(s).have = s.have /\ StopBatch(s).dead = s.dead
    BY <1>1 DEF Stages, StopBatch
  <2> QED  BY <1>5, <1>6, <2>1
<1>7. CASE Stage(b, Refuse(s)) /\ UNCHANGED reserved
  <2> DEFINE y == Refuse(s)
  <2>0. st'[b] \in State /\ st'[b].stage = y
    <3>1. st'[b] = [st[b] EXCEPT !.stage = y]  BY <1>0, <1>7 DEF Stage, Typed
    <3>2. st[b] \in State  BY <1>0 DEF Typed
    <3>3. st'[b].stage = y
      <4> HIDE DEF y
      <4> QED  BY <3>1, <3>2 DEF State
    <3> QED  BY <1>0, <3>3 DEF Inv, Typed
  <2>1. y \in Stages  BY <2>0 DEF State
  <2>2. y.have = s.have /\ y.dead = s.dead  BY <1>1 DEF Refuse, Stages
  <2> HIDE DEF y
  <2> QED  BY <1>5, <1>7, <2>1, <2>2 DEF y
<1>8. CASE Stage(b, [StopBatch(s) EXCEPT !.spent = TRUE]) /\ UNCHANGED reserved
  <2> DEFINE y == [StopBatch(s) EXCEPT !.spent = TRUE]
  <2>1. y \in Stages /\ y.have = s.have /\ y.dead = s.dead  BY <1>1 DEF Stages, StopBatch
  <2> HIDE DEF y
  <2> QED  BY <1>5, <1>8, <2>1 DEF y
<1>9. CASE /\ c.tool # "none" /\ c \notin s.dead /\ ~Blocked(c)
           /\ Move(b, "running", [s EXCEPT !.call = c])
  <2> DEFINE y == [s EXCEPT !.call = c]
  <2>1. y \in Stages /\ y.have = s.have /\ y.dead = s.dead /\ y.call = c  BY <1>1, <1>3 DEF Stages
  <2>2. Move(b, "running", y)  BY <1>9
  <2> HIDE DEF y
  <2>3. PICK x : Becomes(b, x) /\ Knows(b, x) /\ x.pc = "running" /\ x.stage = y
    BY <1>4, <1>9, <2>1, <2>2
  <2>4. Knowing'  BY <1>0, <1>1, <2>3, KnowingOn
  <2>5. \A a : LastFailures(a)' = LastFailures(a)  BY <1>1 DEF LastFailures, About, Retryable
  <2>6. \A a : a # c => On(a)' = On(a)
    BY <1>0, <1>1, <2>1, <2>3 DEF On, Becomes
  <2>7. ASSUME Guarded(c) PROVE Circuit(c)'
    <3>1. Policy[c.tool].circuit \in Nat
      BY <2>7, ToolStageAssumption DEF Guarded, IsPolicy
    <3>2. Cardinality(LastFailures(c)) < Policy[c.tool].circuit
      BY <1>0, <1>9, <2>7, <3>1, FailuresFinite DEF Blocked, Guarded
    <3>3. Cardinality(On(c)') <= Cardinality(Wave) /\ Cardinality(On(c)') \in Nat
      <4>1. On(c)' \subseteq Wave  BY <1>0 DEF On
      <4> QED  BY <1>0, <4>1, OptionFacts, FS_Subset, FS_CardinalityType
    <3>4. Cardinality(LastFailures(c)) \in Nat /\ Cardinality(Wave) \in Nat
      BY <1>0, FailuresFinite, OnFinite
    <3> QED  BY <1>0, <2>5, <3>1, <3>2, <3>3, <3>4 DEF Circuit
  <2>8. Circuits'
    <3>1. \A a \in Call : Guarded(a) /\ a # c => Circuit(a)'
      BY <1>0, <1>1, <2>5, <2>6 DEF Strong, Circuits, Circuit
    <3> QED  BY <2>7, <3>1 DEF Circuits, Guarded
  <2> QED  BY <2>4, <2>8 DEF Strong
<1> QED  BY <1>2, <1>6, <1>7, <1>8, <1>9

(* What a record appended by b changes for the others: nothing.             *)
LEMMA AppendFacts ==
  ASSUME Typed, NEW r \in Record, log' = Append(log, r)
  PROVE  /\ log' \in Seq(Record) /\ Len(log') = Len(log) + 1
         /\ DOMAIN log' = DOMAIN log \cup {Len(log) + 1} /\ Len(log) + 1 \notin DOMAIN log
         /\ log'[Len(log) + 1] = r
         /\ \A i \in DOMAIN log : log'[i] = log[i]
<1>1. log \in Seq(Record)  BY DEF Typed
<1> QED  BY <1>1

LEMMA CompleteKnows ==
  ASSUME Strong, Inv', NEW b \in Wave, NEW r \in Record, st[b].pc = "running", Complete(b, r),
         r.by = b, r.call = st[b].stage.call
  PROVE  Strong'
<1> DEFINE s == st[b].stage
           n == Len(log) + 1
           c == r.call
<1>0. Inv /\ Typed /\ Wave' = Wave /\ Len(log) \in Nat
  BY LogFacts DEF Strong, Inv, Complete, Wave
<1>1. s \in Stages  BY <1>0, StageFacts
<1>2. log' = Append(log, r) /\ UNCHANGED <<option, reserved>>  BY DEF Complete
<1>3. /\ Len(log') = n /\ DOMAIN log' = DOMAIN log \cup {n} /\ n \notin DOMAIN log
      /\ log'[n] = r /\ \A i \in DOMAIN log : log'[i] = log[i]
  BY <1>0, <1>2, AppendFacts
<1>4. PICK y : /\ Move(b, "batch", y)
               /\ y.have = s.have \cup Caps(r)
               /\ y.dead = s.dead \cup (IF Policy[c.tool].scoped /\ Final(r) THEN {c} ELSE {})
  <2> DEFINE own == s.own \cup {n}
             have == s.have \cup Caps(r)
             dead == s.dead \cup (IF Policy[c.tool].scoped /\ Final(r) THEN {c} ELSE {})
             finish == s.finish \/ (~Failed(r) /\ Policy[c.tool].transient)
             stop == s.stop \/ (Failed(r) /\ Policy[c.tool].cap > 0
                                /\ Ran(s, c.tool) + (IF r.reused \/ r.result = "raised" THEN 0 ELSE 1)
                                     >= Policy[c.tool].cap)
             y == [s EXCEPT !.own = own, !.have = have, !.dead = dead, !.finish = finish, !.stop = stop,
                            !.call = "none", !.open = s.open - 1, !.left = s.left - 1]
  <2>1. Move(b, "batch", y)  BY <1>1 DEF Complete, Stages
  <2> HIDE DEF own, have, dead, finish, stop
  <2>2. y.have = have /\ y.dead = dead  BY <1>1 DEF Stages
  <2> QED  BY <2>1, <2>2 DEF have, dead
<1>5. /\ st'[b].pc = "batch" /\ st'[b].stage = y /\ st'[b].since = st[b].since
      /\ st'[b].outcome = st[b].outcome /\ \A d \in Wave \ {b} : st'[d] = st[d]
  BY <1>0, <1>4 DEF Move, Typed, State
<1>6. /\ Mine(b)' = Mine(b) \cup {n} /\ \A d \in Wave \ {b} : Mine(d)' = Mine(d)
      /\ \A d \in Wave : Mine(d) \subseteq DOMAIN log
  <2>1. \A d : Mine(d) = {i \in DOMAIN log : log[i].by = d}  BY DEF Mine
  <2>2. \A d : Mine(d)' = {i \in DOMAIN log' : log'[i].by = d}  BY DEF Mine
  <2> QED  BY <1>3, <2>1, <2>2
<1>7. \A d \in Wave : Citable(d) # {} => Citable(d)' # {}
  <2>1. ASSUME NEW d \in Wave, NEW i \in Citable(d) PROVE i \in Citable(d)'
    BY <1>2, <1>3, <2>1 DEF Citable, Visible, Evidence
  <2> QED  BY <2>1
<1>8. \A d \in Wave, m \in Nat : Proven(d, m) \subseteq Proven(d, m)'
  <2> TAKE d \in Wave, m \in Nat
  <2>1. ASSUME NEW i \in Mine(d) PROVE i \in Mine(d)' /\ Caps(log'[i]) = Caps(log[i])
    BY <1>3, <1>6, <2>1
  <2> QED  BY <1>2, <2>1 DEF Proven, Caps, Failed
<1>9. \A d \in Wave : Knows(d, st[d]) /\ st[d].since \in Nat
  BY <1>0 DEF Strong, Knowing, Typed, State
<1>10. \A d \in Wave, m \in Nat : Met(d, m) => Met(d, m)'
  <2> TAKE d \in Wave, m \in Nat
  <2> DEFINE P == Proven(d, m)
             Q == Proven(d, m)'
  <2>1. P \subseteq Q  BY <1>8
  <2> HIDE DEF P, Q
  <2>2. option.task[d].required \subseteq P => option.task[d].required \subseteq Q  BY <2>1
  <2>3. \A g \in option.task[d].groups : g \cap P # {} => g \cap Q # {}  BY <2>1
  <2> QED  BY <1>2, <2>2, <2>3 DEF Met, P, Q
<1> HIDE DEF n
<1>11. ASSUME NEW d \in Wave \ {b} PROVE Knows(d, st[d])'
  <2>1. st'[d] = st[d] /\ Knows(d, st[d]) /\ st[d].since \in Nat  BY <1>5, <1>9
  <2> DEFINE x == st[d]
             P == Proven(d, x.since)
             Q == Proven(d, x.since)'
  <2>2. st'[d] = x /\ x.since <= Len(log')  BY <1>0, <1>3, <2>1 DEF Knows, n
  <2>3. P \subseteq Q /\ (Met(d, x.since) => Met(d, x.since)')  BY <1>8, <1>10, <2>1
  <2>4. x.pc \in Staging => x.stage.have \subseteq P  BY <2>1 DEF Knows
  <2>5. x.pc \in Staging => x.stage.have \subseteq Q
    <3> HIDE DEF P, Q
    <3> QED  BY <2>3, <2>4
  <2>6. Q = Proven(d, st[d].since)'  BY <2>2 DEF Proven
  <2>7. x.pc \in Staging => \A i \in Mine(d)' : Policy[log'[i].call.tool].scoped /\ Final(log'[i]) =>
                                                  log'[i].call \in x.stage.dead
    <3>1. Mine(d)' = Mine(d) /\ \A i \in Mine(d) : log'[i] = log[i]  BY <1>3, <1>6
    <3> QED  BY <2>1, <3>1 DEF Knows
  <2>8. Met(d, x.since) => Met(d, st[d].since)'  BY <2>2, <2>3 DEF Met, Proven
  <2> HIDE DEF x, P, Q
  <2>9. Knows(d, x)  BY <2>1 DEF x
  <2> QED  BY <1>2, <1>7, <2>2, <2>5, <2>6, <2>7, <2>8, <2>9 DEF Knows
<1>12. Knows(b, st[b])'
  <2>0. PICK m : m = st[b].since  OBVIOUS
  <2> DEFINE P == Proven(b, m)
             Q == Proven(b, m)'
  <2>1. Knows(b, st[b]) /\ m \in Nat /\ m < n
    <3>1. Knows(b, st[b]) /\ m \in Nat  BY <1>9, <2>0
    <3>2. m <= Len(log)  BY <2>0, <3>1 DEF Knows
    <3> QED  BY <1>0, <3>1, <3>2 DEF n
  <2>2. P \subseteq Q  BY <1>8, <2>1
  <2>3. Caps(r) \subseteq Q
    <3>1. n \in Mine(b)' /\ n > m
      <4>1. n \in Nat  BY <1>0 DEF n
      <4> QED  BY <1>6, <2>1, <4>1
    <3>2. Q = UNION {Caps(log'[i]) : i \in {j \in Mine(b)' : option.task[b].fresh => j > m}}
      BY <1>2 DEF Proven, Caps, Failed
    <3>3. Caps(log'[n]) \in {Caps(log'[i]) : i \in {j \in Mine(b)' : option.task[b].fresh => j > m}}
      BY <3>1
    <3> QED  BY <1>3, <3>2, <3>3
  <2>4. s.have \subseteq P  BY <2>0, <2>1 DEF Knows, Staging
  <2>5. y.have \subseteq Q
    <3> HIDE DEF P, Q
    <3> QED  BY <1>4, <2>2, <2>3, <2>4
  <2>6. st'[b].since = m  BY <1>5, <2>0
  <2>7. \A i \in Mine(b)' : Policy[log'[i].call.tool].scoped /\ Final(log'[i]) => log'[i].call \in y.dead
    <3>1. \A i \in Mine(b) : Policy[log[i].call.tool].scoped /\ Final(log[i]) => log[i].call \in s.dead
      BY <2>1 DEF Knows, Staging
    <3>2. \A i \in Mine(b) : log'[i] = log[i]  BY <1>3, <1>6
    <3> QED  BY <1>3, <1>4, <1>6, <3>1, <3>2
  <2>8. st'[b].since <= Len(log')  BY <1>0, <1>3, <2>1, <2>6 DEF n
  <2>9. st'[b].outcome # "complete"  BY <1>5, <2>1 DEF Knows
  <2>10. st'[b].stage.have \subseteq Proven(b, st[b].since)'
    <3>1. Proven(b, m)' = Proven(b, st[b].since)'  BY <2>6 DEF Proven
    <3> QED  BY <1>5, <2>5, <3>1
  <2> HIDE DEF P, Q
  <2> QED  BY <1>5, <2>7, <2>8, <2>9, <2>10 DEF Knows
<1>13. Knowing'  BY <1>0, <1>11, <1>12 DEF Knowing
<1>14. /\ LastFailures(c)' \subseteq LastFailures(c) \cup {n}
       /\ \A a : a # c => LastFailures(a)' \subseteq LastFailures(a)
  <2>1. \A a : About(a)' \subseteq About(a) \cup {n} /\ About(a) \subseteq About(a)'
    BY <1>3 DEF About
  <2>2. \A a : a # c => n \notin About(a)'  BY <1>3 DEF About
  <2>3. ASSUME NEW a, NEW i \in LastFailures(a)', i # n PROVE i \in LastFailures(a)
    <3>1. i \in About(a)  BY <2>1, <2>3 DEF LastFailures
    <3>2. \A j \in About(a) : log'[j] = log[j]  BY <1>3 DEF About
    <3> QED  BY <2>1, <2>3, <3>1, <3>2 DEF LastFailures, Retryable
  <2>4. \A a : LastFailures(a)' \subseteq About(a)'  BY DEF LastFailures
  <2> QED  BY <2>1, <2>2, <2>3, <2>4
<1>15. b \in On(c) /\ On(c)' = On(c) \ {b} /\ \A a : a # c => On(a)' = On(a)
  BY <1>0, <1>5 DEF On
<1>16. ASSUME NEW a \in Call, Guarded(a) PROVE Circuit(a)'
  <2>1. Circuit(a)  BY <1>16 DEF Strong, Circuits
  <2>2. /\ IsFiniteSet(LastFailures(a)) /\ Cardinality(LastFailures(a)) \in Nat
        /\ IsFiniteSet(On(a)) /\ Cardinality(On(a)) \in Nat /\ Cardinality(Wave) \in Nat
        /\ Policy[a.tool].circuit \in Nat
    BY <1>0, <1>16, FailuresFinite, OnFinite, ToolStageAssumption DEF Guarded, IsPolicy
  <2> DEFINE L == LastFailures(a)
             M == LastFailures(a)'
  <2>3. CASE a # c
    <3>1. M \subseteq L /\ On(a)' = On(a)  BY <1>14, <1>15, <2>3
    <3>2. IsFiniteSet(M) /\ Cardinality(M) <= Cardinality(L) /\ Cardinality(M) \in Nat
      BY <2>2, <3>1, FS_Subset, FS_CardinalityType
    <3> QED  BY <1>0, <1>2, <2>1, <2>2, <3>1, <3>2 DEF Circuit
  <2>4. CASE a = c
    <3>1. On(a)' = On(a) \ {b} /\ b \in On(a)  BY <1>15, <2>4
    <3>2. Cardinality(On(a)') = Cardinality(On(a)) - 1
      <4>1. \A S, x : IsFiniteSet(S) /\ x \in S => Cardinality(S \ {x}) = Cardinality(S) - 1
        BY FS_RemoveElement
      <4> QED  BY <2>2, <3>1, <4>1
    <3>3. M \subseteq L \cup {n}  BY <1>14, <2>4
    <3>4. IsFiniteSet(L \cup {n}) /\ Cardinality(L \cup {n}) <= Cardinality(L) + 1
          /\ Cardinality(L \cup {n}) \in Nat
      <4> HIDE DEF L
      <4>1. IsFiniteSet(L) /\ Cardinality(L) \in Nat  BY <2>2 DEF L
      <4>2. IsFiniteSet(L \cup {n}) /\ Cardinality(L \cup {n}) =
              IF n \in L THEN Cardinality(L) ELSE Cardinality(L) + 1
        BY <4>1, FS_AddElement
      <4> QED  BY <4>1, <4>2
    <3>5. Cardinality(M) <= Cardinality(L \cup {n}) /\ Cardinality(M) \in Nat
      BY <3>3, <3>4, FS_Subset, FS_CardinalityType
    <3>6. On(a) # {}  BY <3>1
    <3> HIDE DEF L, M
    <3>7. Cardinality(L) + Cardinality(On(a)) <= Policy[a.tool].circuit + Cardinality(Wave) - 1
      BY <2>1, <3>6 DEF Circuit, L
    <3>8. Cardinality(L) \in Nat  BY <2>2 DEF L
    <3>9. Cardinality(M) + Cardinality(On(a)') <= Policy[a.tool].circuit + Cardinality(Wave) - 1
      BY <2>2, <3>2, <3>4, <3>5, <3>7, <3>8
    <3> QED  BY <1>0, <3>9 DEF Circuit, M
  <2> QED  BY <2>3, <2>4
<1>17. Circuits'  BY <1>16 DEF Circuits, Guarded
<1> QED  BY <1>13, <1>17 DEF Strong

LEMMA AnalysisFailsKnows == ASSUME Strong, Inv', NEW b \in Wave, AnalysisFails(b) PROVE Strong'
BY AttemptFailsKnows DEF AnalysisFails

(* What a call ends with is a record of its own.                            *)
LEMMA ExecuteCompletes ==
  ASSUME Inv, NEW b \in Wave, Execute(b)
  PROVE  /\ st[b].pc = "running"
         /\ \E r \in Record : Complete(b, r) /\ r.by = b /\ r.call = st[b].stage.call
<1>1. st[b].pc = "running" /\ st[b].stage.call \in {c \in Call : c.tool # "none"}
  BY StageFacts DEF Execute, Balanced
<1> DEFINE R(result, reused) ==
             [by |-> b, call |-> st[b].stage.call, result |-> result, reused |-> reused]
<1>2. \A result \in Results, reused \in BOOLEAN :
        /\ R(result, reused) \in Record /\ R(result, reused).by = b
        /\ R(result, reused).call = st[b].stage.call
  BY <1>1, OptionFacts DEF Record, Inv
<1>3. option.results \subseteq Results /\ "ok" \in Results
  <2>1. IsOption(option)  BY ToolStageAssumption DEF Inv, Typed
  <2> QED  BY <2>1 DEF IsOption, Results
<1>4. \E result \in Results, reused \in BOOLEAN : Complete(b, R(result, reused))
  <2>1. CASE Cached(st[b].stage)
    <3>1. Complete(b, R("ok", TRUE))  BY <2>1 DEF Execute
    <3> QED  BY <1>3, <3>1
  <2>2. CASE ~Cached(st[b].stage)
    <3>1. PICK result \in option.results : Complete(b, R(result, FALSE))  BY <2>2 DEF Execute
    <3> QED  BY <1>3, <3>1
  <2> QED  BY <2>1, <2>2
<1> HIDE DEF R
<1> QED  BY <1>1, <1>2, <1>4

LEMMA ExecuteKnows == ASSUME Strong, Inv', NEW b \in Wave, Execute(b) PROVE Strong'
<1>1. Inv  BY DEF Strong
<1> QED  BY <1>1, ExecuteCompletes, CompleteKnows

LEMMA InitStrong == Init => Strong
<1> SUFFICES ASSUME Init PROVE Strong  OBVIOUS
<1>1. Inv /\ Typed  BY InitInv DEF Inv
<1>2. log = option.earlier /\ \A b \in Wave : st[b] = Start  BY DEF Init
<1>3. Start.pc = "begin" /\ Start.since = 0 /\ Start.outcome = "none"  BY DEF Start
<1>4. Knowing
  <2>1. 0 <= Len(log)  BY <1>1, LogFacts
  <2> QED  BY <1>2, <1>3, <2>1 DEF Knowing, Knows, Staging
<1>5. \A c : On(c) = {}  BY <1>2, <1>3 DEF On
<1>6. \A c : LastFailures(c) \subseteq DOMAIN option.earlier  BY <1>2 DEF LastFailures, About
<1>7. Circuits  BY <1>5, <1>6 DEF Circuits, Circuit
<1> QED  BY <1>1, <1>4, <1>7 DEF Strong

LEMMA StepStrong == Strong /\ [Next]_vars => Strong'
<1> SUFFICES ASSUME Strong, [Next]_vars PROVE Strong'  OBVIOUS
<1>0. Inv /\ Inv'
  <2>1. Inv  BY DEF Strong
  <2> QED  BY <2>1, StepInv
<1>1. CASE UNCHANGED vars
  <2>1. Wave' = Wave /\ UNCHANGED <<option, log, st>>  BY <1>1 DEF Wave, vars
  <2>2. \A b : Mine(b)' = Mine(b) /\ Citable(b)' = Citable(b)
    BY <2>1 DEF Mine, Citable, Visible, Evidence
  <2>3. \A b, n : Proven(b, n)' = Proven(b, n)  BY <2>1, <2>2 DEF Proven, Caps, Failed
  <2>4. Knowing'
    <3>1. ASSUME NEW b \in Wave PROVE Knows(b, st[b])'
      <4>1. Knows(b, st[b]) /\ st'[b] = st[b]  BY <2>1 DEF Strong, Knowing
      <4>2. Met(b, st[b].since)' = Met(b, st[b].since)  BY <2>1, <2>3, <4>1 DEF Met
      <4>3. \A i \in Mine(b) : (Policy[log[i].call.tool].scoped /\ Final(log[i]))'
                                = (Policy[log[i].call.tool].scoped /\ Final(log[i]))
        BY <2>1 DEF Final, Failed, Retryable
      <4> QED  BY <2>1, <2>2, <2>3, <4>1, <4>2, <4>3 DEF Knows
    <3> QED  BY <2>1, <3>1 DEF Knowing
  <2>5. \A c : On(c)' = On(c) /\ LastFailures(c)' = LastFailures(c)
    BY <2>1 DEF On, LastFailures, About, Retryable
  <2>6. Circuits'  BY <2>1, <2>5 DEF Strong, Circuits, Circuit, Guarded
  <2> QED  BY <1>0, <2>4, <2>6 DEF Strong
<1>2. ASSUME NEW b \in Wave, Step(b) PROVE Strong'
  BY <1>0, <1>2, BeginKnows, AskKnows, AnswersKnow, TakeKnows, ExecuteKnows, BatchDoneKnows,
     AnalyzeKnows, AnalysisFailsKnows DEF Step
<1> QED  BY <1>1, <1>2 DEF Next, Done

-----------------------------------------------------------------------------
(* The theorems.                                                            *)

(* Researchers that reserve side by side, each of which sees only its own   *)
(* calls, never run more calls together than the policy of the run allows.  *)
THEOREM WaveKeepsItsBudget == Spec => []BudgetHeld
<1>1. Inv => BudgetHeld  BY DEF Inv, Counts, BudgetHeld, Running
<1> QED  BY InitInv, StepInv, <1>1, PTL DEF Spec

(* Whatever is refused, stopped or cut, the model is asked again only when  *)
(* each tool call of its last answer has an answer of its own.              *)
THEOREM CallsAreAnswered == Spec => []AnsweredBeforeAsk
<1>1. Inv => AnsweredBeforeAsk  BY DEF Inv, Balanced, AnsweredBeforeAsk
<1> QED  BY InitInv, StepInv, <1>1, PTL DEF Spec

(* The circuit of a target holds across branches that check it side by      *)
(* side: once this wave adds to the failures of a target, they are at most  *)
(* those that open the circuit and the calls of the other branches that     *)
(* were under way (ToolFailureGuard.blocking_record).                       *)
THEOREM CircuitsHold == Spec => []CircuitHolds
<1>1. Strong => CircuitHolds
  <2> SUFFICES ASSUME Strong, NEW t \in Tools, NEW x \in Targets,
                      Policy[t].circuit > 0,
                      ~(LastFailures([tool |-> t, target |-> x]) \subseteq DOMAIN option.earlier)
               PROVE  Cardinality(LastFailures([tool |-> t, target |-> x]))
                        <= Policy[t].circuit + Cardinality(Wave) - 1
    BY DEF CircuitHolds
  <2> DEFINE c == [tool |-> t, target |-> x]
  <2>1. c \in Call /\ c.tool = t  BY DEF Call
  <2> HIDE DEF c
  <2>2. Guarded(c) /\ Circuit(c)  BY <2>1 DEF Guarded, Strong, Circuits
  <2>3. Cardinality(LastFailures(c)) + Cardinality(On(c)) <= Policy[t].circuit + Cardinality(Wave) - 1
    BY <2>1, <2>2 DEF Circuit, c
  <2>4. /\ Cardinality(LastFailures(c)) \in Nat /\ Cardinality(On(c)) \in Nat
        /\ Cardinality(Wave) \in Nat /\ Policy[t].circuit \in Nat
    BY FailuresFinite, OnFinite, ToolStageAssumption DEF Strong, Inv, IsPolicy
  <2>5. Cardinality(LastFailures(c)) <= Policy[t].circuit + Cardinality(Wave) - 1  BY <2>3, <2>4
  <2> QED  BY <2>5 DEF c
<1> QED  BY InitStrong, StepStrong, <1>1, PTL DEF Spec

(* A result that calibrate_task_result calls complete rests on successful   *)
(* calls of its own task for every capability the task requires, on recent  *)
(* ones and on a source to cite where it asks for fresh data, in whatever   *)
(* attempt it was reached.                                                  *)
THEOREM CompletionIsEarned == Spec => []CompleteIsEarned
<1>1. Strong => CompleteIsEarned
  BY DEF Strong, Knowing, Knows, Met, Proven, CompleteIsEarned
<1> QED  BY InitStrong, StepStrong, <1>1, PTL DEF Spec

(* A target that failed for good for a task is not executed again by it:    *)
(* each stage and each attempt begins with the targets that are dead, and a *)
(* call is checked against them before it is reserved.                      *)
THEOREM FailedTargetsStayDead == Spec => NotTriedAgain
<1> DEFINE P(b) == (/\ Len(log') > Len(log) /\ log'[Len(log')].by = b /\ ~log'[Len(log')].reused
                    /\ Policy[log'[Len(log')].call.tool].scoped)
                     => ~FailedForGood(b, log'[Len(log')].call)
<1>1. Strong /\ [Next]_vars => [\A b \in Wave : P(b)]_vars
  <2> SUFFICES ASSUME Strong, Next PROVE \A b \in Wave : P(b)  OBVIOUS
  <2>0. Inv /\ Typed /\ Len(log) \in Nat  BY LogFacts DEF Strong, Inv
  <2>1. CASE UNCHANGED log
    <3>1. ~(Len(log') > Len(log))  BY <2>0, <2>1
    <3> QED  BY <3>1
  <2>2. ASSUME NEW a \in Wave, Execute(a) PROVE \A b \in Wave : P(b)
    <3>1. PICK r \in Record : Complete(a, r) /\ r.by = a /\ r.call = st[a].stage.call
      BY <2>0, <2>2, ExecuteCompletes
    <3>2. log' = Append(log, r)  BY <3>1 DEF Complete
    <3>3. log'[Len(log')] = r  BY <2>0, <3>2, AppendFacts
    <3>4. st[a].pc = "running" /\ Knows(a, st[a])  BY <2>0, <2>2, ExecuteCompletes DEF Strong, Knowing
    <3>5. r.call \notin st[a].stage.dead  BY <3>1, <3>4 DEF Knows
    <3>6. Policy[r.call.tool].scoped => ~FailedForGood(a, r.call)
      BY <3>4, <3>5 DEF Knows, Staging, FailedForGood, Mine
    <3> QED  BY <3>1, <3>3, <3>6
  <2>3. ASSUME NEW a \in Wave, Step(a), ~Execute(a) PROVE UNCHANGED log
    <3>1. CASE Begin(a)  BY <3>1 DEF Begin
    <3>2. CASE Ask(a)  BY <3>2 DEF Ask
    <3>3. CASE BadAnswer(a)  BY <3>3 DEF BadAnswer
    <3>4. CASE CutAnswer(a)  BY <3>4 DEF CutAnswer
    <3>5. CASE EmptyAnswer(a)  BY <3>5 DEF EmptyAnswer
    <3>6. CASE CallsAnswer(a)  BY <3>6 DEF CallsAnswer
    <3>7. CASE Take(a)  BY <3>7 DEF Take
    <3>8. CASE BatchDone(a)  BY <3>8 DEF BatchDone
    <3>9. CASE Analyze(a)  BY <3>9 DEF Analyze
    <3>10. CASE AnalysisFails(a)  BY <3>10 DEF AnalysisFails
    <3> QED  BY <2>3, <3>1, <3>2, <3>3, <3>4, <3>5, <3>6, <3>7, <3>8, <3>9, <3>10 DEF Step
  <2>4. Done => UNCHANGED log  BY DEF Done, vars
  <2> QED  BY <2>1, <2>2, <2>3, <2>4 DEF Next
<1>2. [\A b \in Wave : P(b)]_vars
        => [\A b \in Wave :
              (Len(log') > Len(log) /\ log'[Len(log')].by = b /\ ~log'[Len(log')].reused
               /\ Policy[log'[Len(log')].call.tool].scoped)
                => ~FailedForGood(b, log'[Len(log')].call)]_vars
  OBVIOUS
<1> QED  BY InitStrong, StepStrong, <1>1, <1>2, PTL DEF Spec, NotTriedAgain

-----------------------------------------------------------------------------
(* The bounds of a researcher: its attempts, the stage and the analysis of  *)
(* one, the turns of a stage, the answer to a turn, the calls of the answer *)
(* and the start of a call.                                                 *)
Place(x) ==
  CASE x.pc = "begin" -> 3 [] x.pc = "analyze" -> 1 [] x.pc = "done" -> 0 [] OTHER -> 2

Phase(x) == CASE x.pc = "asked" -> 2 [] x.pc \in {"batch", "running"} -> 1 [] OTHER -> 0

Left(x) ==
  <<option.attempts - x.attempt, Place(x), option.turnLimit + 2 - x.stage.turns, Phase(x),
    x.stage.left, IF x.pc = "batch" THEN 1 ELSE 0>>

(* Every step is one of a researcher, uses up a bound of its own, and takes *)
(* nothing back from the others (gather, _researcher).                      *)
BranchesAdvance ==
  [][\E b \in Wave : /\ Below(Left(st'[b]), Left(st[b]))
                     /\ \A c \in Wave \ {b} : st'[c] = st[c]]_vars

Within(x) == x.attempt \in 1..option.attempts /\ x.stage.turns <= option.turnLimit + 2
Withins == \A b \in Wave : Within(st[b])
Advances(b) == \E x : Becomes(b, x) /\ Within(x) /\ Below(Left(x), Left(st[b]))

LEMMA BelowAt ==
  ASSUME NEW a1, NEW a2, NEW a3, NEW a4, NEW a5, NEW a6,
         NEW b1, NEW b2, NEW b3, NEW b4, NEW b5, NEW b6,
         \/ b1 < a1
         \/ b1 = a1 /\ b2 < a2
         \/ b1 = a1 /\ b2 = a2 /\ b3 < a3
         \/ b1 = a1 /\ b2 = a2 /\ b3 = a3 /\ b4 < a4
         \/ b1 = a1 /\ b2 = a2 /\ b3 = a3 /\ b4 = a4 /\ b5 < a5
         \/ b1 = a1 /\ b2 = a2 /\ b3 = a3 /\ b4 = a4 /\ b5 = a5 /\ b6 < a6
  PROVE  Below(<<b1, b2, b3, b4, b5, b6>>, <<a1, a2, a3, a4, a5, a6>>)
<1> DEFINE u == <<b1, b2, b3, b4, b5, b6>>
           v == <<a1, a2, a3, a4, a5, a6>>
<1>1. /\ u[1] = b1 /\ u[2] = b2 /\ u[3] = b3 /\ u[4] = b4 /\ u[5] = b5 /\ u[6] = b6
      /\ v[1] = a1 /\ v[2] = a2 /\ v[3] = a3 /\ v[4] = a4 /\ v[5] = a5 /\ v[6] = a6
      /\ DOMAIN v = 1..6
  OBVIOUS
<1> HIDE DEF u, v
<1>2. PICK k \in 1..6 : u[k] < v[k] /\ \A j \in 1..6 : j < k => u[j] = v[j]
  <2>1. CASE b1 < a1
    <3>1. u[1] < v[1] /\ \A j \in 1..6 : j < 1 => u[j] = v[j]  BY <1>1, <2>1
    <3> QED  BY <3>1
  <2>2. CASE b1 = a1 /\ b2 < a2
    <3>1. u[2] < v[2] /\ \A j \in 1..6 : j < 2 => u[j] = v[j]  BY <1>1, <2>2
    <3> QED  BY <3>1
  <2>3. CASE b1 = a1 /\ b2 = a2 /\ b3 < a3
    <3>1. u[3] < v[3] /\ \A j \in 1..6 : j < 3 => u[j] = v[j]  BY <1>1, <2>3
    <3> QED  BY <3>1
  <2>4. CASE b1 = a1 /\ b2 = a2 /\ b3 = a3 /\ b4 < a4
    <3>1. u[4] < v[4] /\ \A j \in 1..6 : j < 4 => u[j] = v[j]  BY <1>1, <2>4
    <3> QED  BY <3>1
  <2>5. CASE b1 = a1 /\ b2 = a2 /\ b3 = a3 /\ b4 = a4 /\ b5 < a5
    <3>1. u[5] < v[5] /\ \A j \in 1..6 : j < 5 => u[j] = v[j]  BY <1>1, <2>5
    <3> QED  BY <3>1
  <2>6. CASE b1 = a1 /\ b2 = a2 /\ b3 = a3 /\ b4 = a4 /\ b5 = a5 /\ b6 < a6
    <3>1. u[6] < v[6] /\ \A j \in 1..6 : j < 6 => u[j] = v[j]  BY <1>1, <2>6
    <3> QED  BY <3>1
  <2> QED  BY <2>1, <2>2, <2>3, <2>4, <2>5, <2>6
<1>3. Below(u, v)  BY <1>1, <1>2 DEF Below
<1> QED  BY <1>3 DEF u, v

LEMMA LimitFacts ==
  ASSUME Typed
  PROVE  option.attempts \in Nat \ {0} /\ option.turnLimit \in Nat \ {0}
<1>1. IsOption(option)  BY ToolStageAssumption DEF Typed
<1> QED  BY <1>1 DEF IsOption

LEMMA Descends ==
  ASSUME Typed, NEW x \in State, NEW y \in State,
         \/ y.attempt = x.attempt + 1
         \/ y.attempt = x.attempt /\ Place(y) < Place(x)
         \/ /\ y.attempt = x.attempt /\ Place(y) = Place(x)
            /\ \/ y.stage.turns = x.stage.turns + 1
               \/ y.stage.turns = x.stage.turns /\ Phase(y) < Phase(x)
               \/ /\ y.stage.turns = x.stage.turns /\ Phase(y) = Phase(x)
                  /\ \/ y.stage.left < x.stage.left
                     \/ y.stage.left = x.stage.left /\ y.pc = "running" /\ x.pc = "batch"
  PROVE  Below(Left(y), Left(x))
<1> DEFINE a1 == option.attempts - x.attempt           a2 == Place(x)
           a3 == option.turnLimit + 2 - x.stage.turns  a4 == Phase(x)
           a5 == x.stage.left                          a6 == IF x.pc = "batch" THEN 1 ELSE 0
           b1 == option.attempts - y.attempt           b2 == Place(y)
           b3 == option.turnLimit + 2 - y.stage.turns  b4 == Phase(y)
           b5 == y.stage.left                          b6 == IF y.pc = "batch" THEN 1 ELSE 0
<1>1. Left(x) = <<a1, a2, a3, a4, a5, a6>> /\ Left(y) = <<b1, b2, b3, b4, b5, b6>>  BY DEF Left
<1>2. /\ x.attempt \in Nat /\ y.attempt \in Nat /\ x.stage.turns \in Nat /\ y.stage.turns \in Nat
      /\ option.attempts \in Nat /\ option.turnLimit \in Nat
  BY LimitFacts DEF State, Stages
<1>3. \/ b1 < a1
      \/ b1 = a1 /\ b2 < a2
      \/ b1 = a1 /\ b2 = a2 /\ b3 < a3
      \/ b1 = a1 /\ b2 = a2 /\ b3 = a3 /\ b4 < a4
      \/ b1 = a1 /\ b2 = a2 /\ b3 = a3 /\ b4 = a4 /\ b5 < a5
      \/ b1 = a1 /\ b2 = a2 /\ b3 = a3 /\ b4 = a4 /\ b5 = a5 /\ b6 < a6
  BY <1>2
<1> HIDE DEF a1, a2, a3, a4, a5, a6, b1, b2, b3, b4, b5, b6
<1>4. Below(<<b1, b2, b3, b4, b5, b6>>, <<a1, a2, a3, a4, a5, a6>>)  BY <1>3, BelowAt
<1> QED  BY <1>1, <1>4

(* How a step of a stage, its end and the end of an attempt advance.        *)
LEMMA MoveAdvances ==
  ASSUME Inv, NEW b \in Wave, Within(st[b]), NEW pc \in Labels, NEW s \in Stages, Move(b, pc, s),
         st[b].pc \in Staging, s.turns <= option.turnLimit + 2,
         \/ pc = "analyze"
         \/ pc \in Staging /\ s.turns = st[b].stage.turns + 1
         \/ /\ pc \in Staging /\ s.turns = st[b].stage.turns
            /\ \/ st[b].pc = "asked" /\ pc # "asked"
               \/ st[b].pc = "batch" /\ pc = "loop"
               \/ /\ st[b].pc \in {"batch", "running"} /\ pc \in {"batch", "running"}
                  /\ \/ s.left < st[b].stage.left
                     \/ s.left = st[b].stage.left /\ st[b].pc = "batch" /\ pc = "running"
  PROVE  Advances(b)
<1> DEFINE x == [st[b] EXCEPT !.pc = pc, !.stage = s]
<1>0. Typed /\ st[b] \in State  BY StageFacts DEF Inv
<1>1. Becomes(b, x)  BY <1>0, Moves
<1>2. x.pc = pc /\ x.stage = s /\ x.attempt = st[b].attempt  BY <1>0 DEF State
<1> HIDE DEF x
<1>3. x \in State  BY <1>1 DEF Becomes
<1>4. Within(x)  BY <1>2 DEF Within
<1>5. Place(st[b]) = 2 /\ Place(x) \in {1, 2} /\ (pc = "analyze" => Place(x) = 1)
      /\ (pc \in Staging => Place(x) = 2)
  BY <1>2 DEF Place, Staging
<1>6. /\ st[b].pc = "asked" => Phase(st[b]) = 2
      /\ st[b].pc \in {"batch", "running"} => Phase(st[b]) = 1
      /\ pc \in {"batch", "running"} => Phase(x) = 1
      /\ pc # "asked" => Phase(x) < 2
      /\ pc = "loop" => Phase(x) = 0
  BY <1>2 DEF Phase
<1>7. Below(Left(x), Left(st[b]))
  <2>1. CASE pc = "analyze"
    <3>1. x.attempt = st[b].attempt /\ Place(x) < Place(st[b])  BY <1>2, <1>5, <2>1
    <3> QED  BY <1>0, <1>3, <3>1, Descends
  <2>2. CASE pc \in Staging /\ s.turns = st[b].stage.turns + 1
    <3>1. x.attempt = st[b].attempt /\ Place(x) = Place(st[b]) /\ x.stage.turns = st[b].stage.turns + 1
      BY <1>2, <1>5, <2>2
    <3> QED  BY <1>0, <1>3, <3>1, Descends
  <2>3. CASE /\ pc \in Staging /\ s.turns = st[b].stage.turns
             /\ \/ st[b].pc = "asked" /\ pc # "asked"
                \/ st[b].pc = "batch" /\ pc = "loop"
    <3>1. /\ x.attempt = st[b].attempt /\ Place(x) = Place(st[b])
          /\ x.stage.turns = st[b].stage.turns /\ Phase(x) < Phase(st[b])
      BY <1>2, <1>5, <1>6, <2>3
    <3> QED  BY <1>0, <1>3, <3>1, Descends
  <2>4. CASE /\ pc \in Staging /\ s.turns = st[b].stage.turns
             /\ st[b].pc \in {"batch", "running"} /\ pc \in {"batch", "running"}
             /\ \/ s.left < st[b].stage.left
                \/ s.left = st[b].stage.left /\ st[b].pc = "batch" /\ pc = "running"
    <3>1. /\ x.attempt = st[b].attempt /\ Place(x) = Place(st[b])
          /\ x.stage.turns = st[b].stage.turns /\ Phase(x) = Phase(st[b])
          /\ \/ x.stage.left < st[b].stage.left
             \/ x.stage.left = st[b].stage.left /\ st[b].pc = "batch" /\ x.pc = "running"
      BY <1>2, <1>5, <1>6, <2>4
    <3> QED  BY <1>0, <1>3, <3>1, Descends
  <2> QED  BY <2>1, <2>2, <2>3, <2>4
<1> QED  BY <1>1, <1>4, <1>7 DEF Advances

LEMMA RestartAdvances ==
  ASSUME Inv, NEW b \in Wave, Within(st[b]), NEW best \in {"none", "partial"},
         st[b].attempt < option.attempts,
         st' = [st EXCEPT ![b].pc = "begin", ![b].attempt = @ + 1, ![b].best = best, ![b].stage = Fresh]
  PROVE  Advances(b)
<1> DEFINE f == Fresh
           x == [st[b] EXCEPT !.pc = "begin", !.attempt = @ + 1, !.best = best, !.stage = f]
<1>0. f \in Stages /\ f.turns = 0  BY FreshStage DEF Fresh
<1> HIDE DEF f
<1>1. x \in State /\ x.attempt = st[b].attempt + 1 /\ x.stage = f
  BY <1>0 DEF Inv, Typed, State, Labels
<1>2. st' = [st EXCEPT ![b] = x]  BY DEF Inv, Typed, State, f
<1> HIDE DEF x
<1>3. Becomes(b, x)  BY <1>1, <1>2, SetTo DEF Inv
<1>4. Typed /\ st[b] \in State  BY StageFacts DEF Inv
<1>5. Within(x)
  <2>1. option.attempts \in Nat /\ option.turnLimit \in Nat  BY <1>4, LimitFacts
  <2> QED  BY <1>0, <1>1, <2>1 DEF Within
<1>6. Below(Left(x), Left(st[b]))  BY <1>1, <1>4, Descends
<1> QED  BY <1>3, <1>5, <1>6 DEF Advances

LEMMA EndAdvances ==
  ASSUME Inv, NEW b \in Wave, Within(st[b]), NEW outcome \in Endings, st[b].pc # "done",
         st' = [st EXCEPT ![b].pc = "done", ![b].stage = Fresh, ![b].outcome = outcome]
  PROVE  Advances(b)
<1> DEFINE f == Fresh
           x == [st[b] EXCEPT !.pc = "done", !.stage = f, !.outcome = outcome]
<1>0. Typed /\ st[b] \in State  BY StageFacts DEF Inv
<1>1. Becomes(b, x)  BY <1>0, Ends, FreshStage
<1>2. f.turns = 0  BY DEF Fresh
<1> HIDE DEF f
<1>3. x.pc = "done" /\ x.stage = f /\ x.attempt = st[b].attempt  BY <1>0 DEF State
<1> HIDE DEF x
<1>4. x \in State  BY <1>1 DEF Becomes
<1>5. Within(x)
  <2>1. option.turnLimit \in Nat  BY <1>0, LimitFacts
  <2> QED  BY <1>2, <1>3, <2>1 DEF Within
<1>6. Place(x) < Place(st[b])  BY <1>3 DEF Place
<1>7. Below(Left(x), Left(st[b]))  BY <1>0, <1>3, <1>4, <1>6, Descends
<1> QED  BY <1>1, <1>5, <1>7 DEF Advances

LEMMA AttemptFailsAdvances ==
  ASSUME Inv, NEW b \in Wave, Within(st[b]), NEW final, AttemptFails(b, final), st[b].pc # "done"
  PROVE  Advances(b)
<1>0. st[b] \in State  BY DEF Inv, Typed
<1>1. CASE st[b].attempt < option.attempts /\ ~final
  <2> DEFINE f == Fresh
  <2>1. st' = [st EXCEPT ![b].pc = "begin", ![b].attempt = @ + 1, ![b].stage = f]
    BY <1>1 DEF AttemptFails
  <2> HIDE DEF f
  <2>2. st' = [st EXCEPT ![b].pc = "begin", ![b].attempt = @ + 1, ![b].best = st[b].best, ![b].stage = f]
    BY <2>1, <1>0 DEF Inv, Typed, State
  <2>3. st[b].best \in {"none", "partial"}  BY <1>0 DEF State
  <2> QED  BY <1>1, <2>2, <2>3, RestartAdvances DEF f
<1>2. CASE ~(st[b].attempt < option.attempts /\ ~final)
  <2> DEFINE o == IF st[b].best = "none" THEN "failed" ELSE st[b].best
  <2>1. o \in Endings  BY <1>0 DEF State, Endings
  <2>2. st' = [st EXCEPT ![b].pc = "done", ![b].stage = Fresh, ![b].outcome = o]
    BY <1>2 DEF AttemptFails
  <2> HIDE DEF o
  <2> QED  BY <2>1, <2>2, EndAdvances
<1> QED  BY <1>1, <1>2

LEMMA LeavingAdvances ==
  ASSUME Inv, NEW b \in Wave, Within(st[b]), NEW s \in Stages, Leave(b, s) \/ GatherFails(b, s),
         st[b].pc \in Staging
  PROVE  Advances(b)
<1>1. ASSUME NEW missing \in BOOLEAN, Analysis(b, s, missing) PROVE Advances(b)
  <2> DEFINE a == [Fresh EXCEPT !.own = s.own, !.missing = missing]
  <2>1. a \in Stages /\ a.turns = 0  BY DEF Fresh, Stages
  <2>2. Move(b, "analyze", a)  BY <1>1 DEF Analysis
  <2> HIDE DEF a
  <2>3. a.turns <= option.turnLimit + 2  BY <2>1, LimitFacts DEF Inv
  <2> QED  BY <2>1, <2>2, <2>3, MoveAdvances DEF Labels
<1>2. ASSUME NEW final, AttemptFails(b, final) PROVE Advances(b)
  BY <1>2, AttemptFailsAdvances DEF Staging
<1>3. CASE GatherFails(b, s)
  BY <1>1, <1>2, <1>3 DEF GatherFails
<1>4. CASE Leave(b, s)
  BY <1>1, <1>3, <1>4 DEF Leave
<1> QED  BY <1>3, <1>4

(* Each action uses a bound up.                                             *)
LEMMA BeginAdvances == ASSUME Inv, NEW b \in Wave, Within(st[b]), Begin(b) PROVE Advances(b)
<1> PICK n \in (IF option.task[b].fresh /\ st[b].attempt > 1 THEN 0..Len(log) ELSE {Len(log)}) :
       st' = [st EXCEPT ![b].pc = "loop", ![b].since = n,
                        ![b].stage = [Fresh EXCEPT !.have = UNION {Caps(log[i]) : i \in Acquired(b, n)},
                                                   !.dead = DeadTargets(b)]]
  BY Zenon DEF Begin
<1>0. n \in Nat
  <2>1. Len(log) \in Nat  BY DEF Inv, Typed
  <2> QED  BY <2>1
<1> DEFINE h == UNION {Caps(log[i]) : i \in Acquired(b, n)}
           d == DeadTargets(b)
           s == [Fresh EXCEPT !.have = h, !.dead = d]
           x == [st[b] EXCEPT !.pc = "loop", !.since = n, !.stage = s]
<1>1. h \subseteq Capabilities
  <2>1. \A i \in Acquired(b, n) : i \in DOMAIN log  BY DEF Acquired, Mine
  <2> QED  BY <2>1, RecordFacts DEF Inv
<1>2. d \subseteq Call
  <2>1. \A j \in Visible(b) : j \in DOMAIN log  BY DEF Visible
  <2> QED  BY <2>1, RecordFacts DEF Inv, DeadTargets
<1>3. st' = [st EXCEPT ![b].pc = "loop", ![b].since = n, ![b].stage = s]  OBVIOUS
<1> HIDE DEF h, d
<1>4. s \in Stages /\ s.turns = 0  BY <1>1, <1>2 DEF Fresh, Stages
<1> HIDE DEF s
<1>5. x \in State /\ x.pc = "loop" /\ x.stage = s /\ x.attempt = st[b].attempt
  BY <1>0, <1>4 DEF Inv, Typed, State, Labels
<1>6. st' = [st EXCEPT ![b] = x]  BY <1>3 DEF Inv, Typed, State
<1> HIDE DEF x
<1>7. Becomes(b, x)  BY <1>5, <1>6, SetTo DEF Inv
<1>8. Typed /\ st[b] \in State  BY StageFacts DEF Inv
<1>9. Within(x)
  <2>1. option.turnLimit \in Nat  BY <1>8, LimitFacts
  <2> QED  BY <1>4, <1>5, <2>1 DEF Within
<1>10. Place(x) < Place(st[b])  BY <1>5 DEF Place, Begin
<1>11. Below(Left(x), Left(st[b]))  BY <1>5, <1>8, <1>10, Descends
<1> QED  BY <1>7, <1>9, <1>11 DEF Advances

LEMMA AskAdvances == ASSUME Inv, NEW b \in Wave, Within(st[b]), Ask(b) PROVE Advances(b)
<1> DEFINE s == st[b].stage
           y == Counted(s)
<1>1. s \in Stages /\ st[b].pc = "loop" /\ s.turns <= option.turnLimit + 2
      /\ s.turns \in Nat /\ option.turnLimit \in Nat
  BY StageFacts, LimitFacts DEF Ask, Within, Inv, Stages
<1>2. \/ Leave(b, s) \/ Leave(b, [s EXCEPT !.spent = TRUE])
      \/ s.turns # option.turnLimit + 2 /\ Move(b, "asked", y)
  BY DEF Ask
<1>3. [s EXCEPT !.spent = TRUE] \in Stages  BY <1>1 DEF Stages
<1>4. y \in Stages /\ y.turns = s.turns + 1  BY <1>1 DEF Stages, Counted
<1>5. CASE s.turns # option.turnLimit + 2 /\ Move(b, "asked", y)
  <2>1. y.turns <= option.turnLimit + 2  BY <1>1, <1>4, <1>5
  <2> HIDE DEF y
  <2> QED  BY <1>1, <1>4, <1>5, <2>1, MoveAdvances DEF Labels, Staging
<1> HIDE DEF s, y
<1> QED  BY <1>1, <1>2, <1>3, <1>5, LeavingAdvances DEF Staging

LEMMA AnswersAdvance ==
  ASSUME Inv, NEW b \in Wave, Within(st[b]),
         BadAnswer(b) \/ CutAnswer(b) \/ EmptyAnswer(b) \/ CallsAnswer(b)
  PROVE  Advances(b)
<1> DEFINE s == st[b].stage
<1>1. s \in Stages /\ st[b].pc = "asked" /\ s.turns <= option.turnLimit + 2
  BY StageFacts DEF BadAnswer, CutAnswer, EmptyAnswer, CallsAnswer, Within
<1>2. \/ GatherFails(b, s) \/ Leave(b, s) \/ Move(b, "loop", s)
      \/ Move(b, "loop", [s EXCEPT !.thought = TRUE]) \/ Move(b, "loop", [s EXCEPT !.wide = TRUE])
      \/ \E n \in 1..option.batch : Move(b, "batch", [s EXCEPT !.left = n, !.open = n])
  BY DEF BadAnswer, CutAnswer, EmptyAnswer, CallsAnswer
<1>3. ASSUME NEW pc \in {"loop", "batch"}, NEW y \in Stages, y.turns = s.turns, Move(b, pc, y)
      PROVE  Advances(b)
  BY <1>1, <1>3, MoveAdvances DEF Labels, Staging
<1> HIDE DEF s
<1>4. CASE GatherFails(b, s) \/ Leave(b, s)  BY <1>1, <1>4, LeavingAdvances DEF Staging
<1>5. CASE Move(b, "loop", s)  BY <1>1, <1>3, <1>5
<1>6. CASE Move(b, "loop", [s EXCEPT !.thought = TRUE])
  <2> DEFINE y == [s EXCEPT !.thought = TRUE]
  <2>1. y \in Stages /\ y.turns = s.turns  BY <1>1 DEF Stages
  <2> HIDE DEF y
  <2> QED  BY <1>3, <1>6, <2>1 DEF y
<1>7. CASE Move(b, "loop", [s EXCEPT !.wide = TRUE])
  <2> DEFINE y == [s EXCEPT !.wide = TRUE]
  <2>1. y \in Stages /\ y.turns = s.turns  BY <1>1 DEF Stages
  <2> HIDE DEF y
  <2> QED  BY <1>3, <1>7, <2>1 DEF y
<1>8. ASSUME NEW n \in 1..option.batch, Move(b, "batch", [s EXCEPT !.left = n, !.open = n])
      PROVE  Advances(b)
  <2> DEFINE y == [s EXCEPT !.left = n, !.open = n]
  <2>0. n \in Nat  BY OptionFacts DEF Inv
  <2>1. y \in Stages /\ y.turns = s.turns  BY <1>1, <2>0 DEF Stages
  <2>2. Move(b, "batch", y)  BY <1>8
  <2> HIDE DEF y
  <2> QED  BY <1>3, <2>1, <2>2
<1> QED  BY <1>2, <1>4, <1>5, <1>6, <1>7, <1>8

LEMMA TakeAdvances == ASSUME Inv, NEW b \in Wave, Within(st[b]), Take(b) PROVE Advances(b)
<1> DEFINE s == st[b].stage
<1>1. s \in Stages /\ st[b].pc = "batch" /\ s.left > 0 /\ s.left <= s.open
      /\ s.left \in Nat /\ s.open \in Nat /\ s.rejected \in Nat /\ s.turns <= option.turnLimit + 2
  BY StageFacts DEF Take, Balanced, Stages, Within
<1>2. PICK c \in option.calls :
         \/ Stage(b, StopBatch(s)) \/ Stage(b, Refuse(s)) \/ Stage(b, [StopBatch(s) EXCEPT !.spent = TRUE])
         \/ Move(b, "running", [s EXCEPT !.call = c])
  BY Zenon DEF Take
<1>3. c \in Call
  <2>1. IsOption(option)  BY ToolStageAssumption DEF Inv, Typed
  <2> QED  BY <2>1 DEF IsOption
<1>4. ASSUME NEW y \in Stages, Stage(b, y), y.turns = s.turns, y.left < s.left PROVE Advances(b)
  <2>1. Move(b, "batch", y)  BY <1>1, <1>4 DEF Stage, Move, Inv, Typed, State
  <2> QED  BY <1>1, <1>4, <2>1, MoveAdvances DEF Labels, Staging
<1>5. CASE Stage(b, StopBatch(s))
  <2> DEFINE y == StopBatch(s)
  <2>1. y \in Stages /\ y.turns = s.turns /\ y.left = 0  BY <1>1 DEF Stages, StopBatch
  <2>2. Stage(b, y)  BY <1>5
  <2> HIDE DEF y
  <2> QED  BY <1>1, <1>4, <2>1, <2>2
<1>6. CASE Stage(b, Refuse(s))
  <2> DEFINE y == Refuse(s)
  <2>1. Stage(b, y)  BY <1>6
  <2> HIDE DEF s
  <2>2. y \in Stages /\ y.turns = s.turns /\ y.left < s.left
    <3> DEFINE rejected == s.rejected + 1
               open == s.open - 1
               stop == s.stop \/ rejected >= Rejected
               left == IF rejected >= Rejected THEN 0 ELSE s.left - 1
    <3>1. y = [s EXCEPT !.rejected = rejected, !.open = open, !.stop = stop, !.left = left]
      BY <1>1 DEF Refuse, Stages
    <3>2. rejected \in Nat /\ open \in Nat /\ left \in Nat /\ stop \in BOOLEAN  BY <1>1 DEF Stages
    <3>3. left < s.left  BY <1>1, <3>2
    <3> HIDE DEF rejected, open, stop, left, y
    <3> QED  BY <1>1, <3>1, <3>2, <3>3 DEF Stages
  <2> HIDE DEF y
  <2> USE DEF s
  <2> QED  BY <1>4, <2>1, <2>2
<1>7. CASE Stage(b, [StopBatch(s) EXCEPT !.spent = TRUE])
  <2> DEFINE y == [StopBatch(s) EXCEPT !.spent = TRUE]
  <2>1. y \in Stages /\ y.turns = s.turns /\ y.left = 0  BY <1>1 DEF Stages, StopBatch
  <2>2. Stage(b, y)  BY <1>7
  <2> HIDE DEF y
  <2> QED  BY <1>1, <1>4, <2>1, <2>2
<1>8. CASE Move(b, "running", [s EXCEPT !.call = c])
  <2> DEFINE y == [s EXCEPT !.call = c]
  <2>1. y \in Stages /\ y.turns = s.turns /\ y.left = s.left  BY <1>1, <1>3 DEF Stages
  <2>2. Move(b, "running", y)  BY <1>8
  <2> HIDE DEF y
  <2> QED  BY <1>1, <2>1, <2>2, MoveAdvances DEF Labels, Staging
<1> QED  BY <1>2, <1>5, <1>6, <1>7, <1>8

LEMMA ExecuteAdvances == ASSUME Inv, NEW b \in Wave, Within(st[b]), Execute(b) PROVE Advances(b)
<1> PICK r \in Record : Complete(b, r)  BY ExecuteCompletes
<1> DEFINE s == st[b].stage
           own == s.own \cup {Len(log) + 1}
           have == s.have \cup Caps(r)
           dead == s.dead \cup (IF Policy[r.call.tool].scoped /\ Final(r) THEN {r.call} ELSE {})
           finish == s.finish \/ (~Failed(r) /\ Policy[r.call.tool].transient)
           stop == s.stop \/ (Failed(r) /\ Policy[r.call.tool].cap > 0
                              /\ Ran(s, r.call.tool) + (IF r.reused \/ r.result = "raised" THEN 0 ELSE 1)
                                   >= Policy[r.call.tool].cap)
           open == s.open - 1
           left == s.left - 1
           y == [s EXCEPT !.own = own, !.have = have, !.dead = dead, !.finish = finish, !.stop = stop,
                          !.call = "none", !.open = open, !.left = left]
<1>1. s \in Stages /\ st[b].pc = "running" /\ s.left > 0 /\ s.left <= s.open /\ s.left \in Nat
      /\ s.open \in Nat /\ s.turns <= option.turnLimit + 2
  BY StageFacts, ExecuteCompletes DEF Balanced, Stages, Within
<1>2. Len(log) \in Nat  BY DEF Inv, Typed
<1>3. r.call \in Call /\ r.call.tool \in Tools  BY DEF Record, Call
<1>4. own \subseteq Nat /\ have \subseteq Capabilities /\ dead \subseteq Call
  BY <1>1, <1>2, <1>3 DEF Stages, Caps, Capabilities
<1>5. finish \in BOOLEAN /\ stop \in BOOLEAN  BY <1>1 DEF Stages
<1>6. Move(b, "batch", y)  BY <1>1 DEF Complete, Stages
<1>7. open \in Nat /\ left \in Nat /\ left < s.left  BY <1>1
<1> HIDE DEF own, have, dead, finish, stop, open, left
<1>8. y \in Stages /\ y.turns = s.turns /\ y.left < s.left
  <2> HIDE DEF s
  <2> QED  BY <1>1, <1>4, <1>5, <1>7 DEF Stages
<1> HIDE DEF y
<1> QED  BY <1>1, <1>6, <1>8, MoveAdvances DEF Labels, Staging

LEMMA BatchDoneAdvances == ASSUME Inv, NEW b \in Wave, Within(st[b]), BatchDone(b) PROVE Advances(b)
<1> DEFINE s == st[b].stage
           y == [s EXCEPT !.finish = FALSE]
<1>1. s \in Stages /\ st[b].pc = "batch" /\ s.turns <= option.turnLimit + 2
  BY StageFacts DEF BatchDone, Within
<1>2. Leave(b, s) \/ Move(b, "loop", y)  BY DEF BatchDone
<1>3. y \in Stages /\ y.turns = s.turns  BY <1>1 DEF Stages
<1> HIDE DEF y
<1>4. CASE Leave(b, s)  BY <1>1, <1>4, LeavingAdvances DEF Staging
<1>5. CASE Move(b, "loop", y)  BY <1>1, <1>3, <1>5, MoveAdvances DEF Labels, Staging
<1> QED  BY <1>2, <1>4, <1>5

LEMMA AnalysisAdvances ==
  ASSUME Inv, NEW b \in Wave, Within(st[b]), Analyze(b) \/ AnalysisFails(b)
  PROVE  Advances(b)
<1>1. st[b].pc # "done"
  <2>1. CASE Analyze(b)  BY <2>1 DEF Analyze
  <2>2. CASE AnalysisFails(b)  BY <2>2 DEF AnalysisFails
  <2> QED  BY <2>1, <2>2
<1>2. CASE AnalysisFails(b)  BY <1>1, <1>2, AttemptFailsAdvances DEF AnalysisFails
<1>3. CASE Analyze(b)
  <2>1. PICK o \in {"complete", "accepted", "partial"} :
           \/ Publish(b, o)
           \/ /\ st[b].attempt < option.attempts
              /\ st' = [st EXCEPT ![b].pc = "begin", ![b].attempt = @ + 1, ![b].best = "partial",
                                  ![b].stage = Fresh]
    <3>1. \A claim, reported : Calibrate(b, claim, reported) \in {"complete", "accepted", "partial"}
      BY DEF Calibrate
    <3> QED  BY <1>3, <3>1 DEF Analyze
  <2>2. CASE Publish(b, o)
    <3> DEFINE f == Fresh
    <3>1. st' = [st EXCEPT ![b].pc = "done", ![b].outcome = o, ![b].stage = f]  BY <2>2 DEF Publish
    <3> HIDE DEF f
    <3>2. st' = [st EXCEPT ![b].pc = "done", ![b].stage = f, ![b].outcome = o]
      BY <3>1 DEF Inv, Typed, State
    <3> QED  BY <1>1, <3>2, EndAdvances DEF Endings, f
  <2> QED  BY <2>1, <2>2, RestartAdvances
<1> QED  BY <1>2, <1>3

LEMMA OptionStays == ASSUME Inv, NEW b \in Wave, Step(b) PROVE UNCHANGED option
<1>1. CASE Begin(b)  BY <1>1 DEF Begin
<1>2. CASE Ask(b)  BY <1>2 DEF Ask
<1>3. CASE BadAnswer(b)  BY <1>3 DEF BadAnswer
<1>4. CASE CutAnswer(b)  BY <1>4 DEF CutAnswer
<1>5. CASE EmptyAnswer(b)  BY <1>5 DEF EmptyAnswer
<1>6. CASE CallsAnswer(b)  BY <1>6 DEF CallsAnswer
<1>7. CASE Take(b)  BY <1>7 DEF Take
<1>8. CASE Execute(b)  BY <1>8, ExecuteCompletes DEF Complete
<1>9. CASE BatchDone(b)  BY <1>9 DEF BatchDone
<1>10. CASE Analyze(b)  BY <1>10 DEF Analyze
<1>11. CASE AnalysisFails(b)  BY <1>11 DEF AnalysisFails
<1> QED  BY <1>1, <1>2, <1>3, <1>4, <1>5, <1>6, <1>7, <1>8, <1>9, <1>10, <1>11 DEF Step

(* What BranchesEnd needs besides fairness, for any wave, tools, answers    *)
(* and limits: every step of a researcher uses up a bound of its own, from  *)
(* its attempts down to the calls of an answer, and they stay natural       *)
(* numbers (gather, _researcher).                                           *)
THEOREM BranchesAreBounded == Spec => BranchesAdvance /\ [](\A b \in Wave : Left(st[b]) \in Tuples)
<1>1. Init => Withins
  <2> SUFFICES ASSUME Init PROVE Withins  OBVIOUS
  <2>1. Typed  BY InitInv DEF Inv
  <2>2. option.attempts \in Nat \ {0} /\ option.turnLimit \in Nat  BY <2>1, LimitFacts
  <2>3. Start.attempt = 1 /\ Start.stage.turns = 0  BY DEF Start, Fresh
  <2>4. 1 \in 1..option.attempts /\ 0 <= option.turnLimit + 2  BY <2>2
  <2>5. \A b \in Wave : st[b] = Start  BY DEF Init
  <2> QED  BY <2>3, <2>4, <2>5 DEF Withins, Within
<1> DEFINE Lessens == \E b \in Wave : /\ Below(Left(st'[b]), Left(st[b]))
                                      /\ \A c \in Wave \ {b} : st'[c] = st[c]
<1>2. Inv /\ Withins /\ [Next]_vars => Withins' /\ [Lessens]_vars
  <2> SUFFICES ASSUME Inv, Withins, [Next]_vars PROVE Withins' /\ [Lessens]_vars  OBVIOUS
  <2>1. CASE UNCHANGED vars
    BY <2>1 DEF vars, Withins, Within, Wave
  <2>2. ASSUME NEW b \in Wave, Step(b) PROVE Withins' /\ Lessens
    <3>1. Within(st[b])  BY DEF Withins
    <3>2. Advances(b)
      BY <2>2, <3>1, BeginAdvances, AskAdvances, AnswersAdvance, TakeAdvances, ExecuteAdvances,
         BatchDoneAdvances, AnalysisAdvances DEF Step
    <3>3. PICK x : Becomes(b, x) /\ Within(x) /\ Below(Left(x), Left(st[b]))  BY <3>2 DEF Advances
    <3>4. st'[b] = x /\ \A c \in Wave \ {b} : st'[c] = st[c]  BY <3>3 DEF Becomes
    <3>5. UNCHANGED option  BY <2>2, OptionStays
    <3>6. Wave' = Wave  BY <3>5 DEF Wave
    <3>7. Withins'
      <4>1. \A c \in Wave : Within(st'[c])  BY <3>3, <3>4 DEF Withins
      <4> QED  BY <3>5, <3>6, <4>1 DEF Withins, Within
    <3> QED  BY <3>3, <3>4, <3>7
  <2> HIDE DEF Lessens
  <2> QED  BY <2>1, <2>2 DEF Next, Done
<1>3. Inv /\ Withins => \A b \in Wave : Left(st[b]) \in Tuples
  <2> SUFFICES ASSUME Inv, Withins, NEW b \in Wave PROVE Left(st[b]) \in Tuples  OBVIOUS
  <2>1. /\ st[b].attempt \in 1..option.attempts /\ st[b].stage.turns <= option.turnLimit + 2
        /\ st[b].stage.turns \in Nat /\ st[b].stage.left \in Nat
        /\ option.attempts \in Nat /\ option.turnLimit \in Nat
    BY StageFacts, LimitFacts DEF Withins, Within, Inv, Stages
  <2>2. option.attempts - st[b].attempt \in Nat /\ option.turnLimit + 2 - st[b].stage.turns \in Nat
    BY <2>1
  <2>3. Place(st[b]) \in Nat /\ Phase(st[b]) \in Nat  BY DEF Place, Phase
  <2> QED  BY <2>1, <2>2, <2>3 DEF Left, Tuples
<1>4. [Lessens]_vars => [\E b \in Wave : /\ Below(Left(st'[b]), Left(st[b]))
                                        /\ \A c \in Wave \ {b} : st'[c] = st[c]]_vars
  OBVIOUS
<1> QED  BY InitInv, StepInv, <1>1, <1>2, <1>3, <1>4, PTL DEF Spec, BranchesAdvance
=============================================================================
