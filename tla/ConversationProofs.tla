-------------------------- MODULE ConversationProofs --------------------------
(***************************************************************************)
(* Theorems about Conversations, for any number of turns, crashes and      *)
(* failures of PostgreSQL: the tables, the tasks and the runs agree, and   *)
(* a deletion removes only runs that were shown to who confirmed it.       *)
(***************************************************************************)
EXTENDS Conversations, TLAPS

Data == [state : {"open", "deleting", "gone"}, active : Turns \cup {NoTurn},
         report : Turns \cup {NoTurn}, turn : [Turns -> Turn]]
Screen == [fresh : BOOLEAN, runs : SUBSET Turns]
Runs == [Turns -> RunStatus \cup {"none", "gone"}]

(* What the tables d and the statuses r of the runs owe each other.         *)
Agree(d, r) ==
  /\ d \in Data
  /\ d.state # "gone" => \A t \in Turns : d.turn[t].linked <=> r[t] # "none"
  /\ d.state = "open" =>
       \A t \in Turns : /\ d.turn[t].status \in Unfinished <=> d.active = t
                        /\ d.turn[t].ends <= 1
                        /\ d.turn[t].ends # 0 => d.turn[t].status \in Final
                        /\ d.turn[t].linked => d.turn[t].status # "none"
  /\ d.report # NoTurn => d.turn[d.report].status = "completed"

(* e is d after a turn moved on: nothing is linked, and no request begins.  *)
Moved(d, e) ==
  /\ e.state = d.state /\ Linked(e) = Linked(d)
  /\ \A t \in Turns : e.turn[t].status = "routing" => d.turn[t].status = "routing"

Halting(t) == [op |-> "halt", turn |-> t]

Typed ==
  /\ seen \in Screen
  /\ run \in Runs /\ live \subseteq Turns /\ lock \subseteq Turns /\ up \in BOOLEAN
  /\ route \in [Turns -> {"none", "created", "asking", "answering", "stopped"}]

(* A task belongs to a run that is under way; a launch finds the run as it  *)
(* was reserved.                                                            *)
Working ==
  /\ \A t \in live : run[t] \in {"pending", "running"}
  /\ \A t \in Turns : holder = [op |-> "launch", turn |-> t] => run[t] = "pending" /\ t \notin live

(* A request that is under way has a task, or is being stopped.             *)
Asking ==
  up /\ data.state = "open" =>
    \A t \in Turns : /\ data.turn[t].status = "routing" => route[t] # "none" \/ holder = Halting(t)
                     /\ route[t] = "stopped" => holder = Halting(t)

Silent == live = {} /\ holder = Free /\ \A t \in Turns : route[t] = "none"

Down == ~up => Silent /\ lock = {}
Gone == data.state = "gone" => Silent /\ \A t \in Turns : run[t] \in {"none", "gone"}
Shown == data.state = "open" /\ seen.fresh => seen.runs = Linked(data)

Inv == Typed /\ Agree(data, run) /\ Working /\ Asking /\ Down /\ Gone /\ Shown

-----------------------------------------------------------------------------
(* What finish and _sync leave of the tables.                               *)

LEMMA FinishedAgrees ==
  ASSUME NEW d, NEW r, Agree(d, r), NEW t \in Turns, NEW s \in Final
  PROVE  /\ Agree(Finished(d, t, s), r) /\ Moved(d, Finished(d, t, s))
         /\ d.state = "open" => Finished(d, t, s).turn[t].status # "routing"
<1>1. CASE d.state # "open" \/ d.turn[t].status \in Final
  BY <1>1 DEF Finished, Moved, Final
<1>2. CASE d.state = "open" /\ d.turn[t].status \notin Final
  <2> DEFINE x == d.turn[t]
             n == x.ends + 1
             y == [x EXCEPT !.status = s, !.ends = n]
             a == IF d.active = t THEN NoTurn ELSE d.active
             p == IF s = "completed" /\ x.linked THEN t ELSE d.report
             e == [d EXCEPT !.turn = [d.turn EXCEPT ![t] = y], !.active = a, !.report = p]
  <2>0. d \in Data /\ x \in Turn /\ x.ends = 0  BY <1>2 DEF Agree, Data, Turn
  <2>1. Finished(d, t, s) = e  BY <1>2, <2>0 DEF Finished, Data, Turn
  <2>2. n = 1  BY <2>0
  <2> HIDE DEF n
  <2>3. y \in Turn /\ y.status = s /\ y.ends = 1 /\ y.linked = x.linked
    BY <2>0, <2>2 DEF Turn, TurnStatus
  <2> HIDE DEF y
  <2>4. /\ a \in Turns \cup {NoTurn} /\ p \in Turns \cup {NoTurn}
        /\ a = (IF d.active = t THEN NoTurn ELSE d.active)
        /\ p = d.report \/ (p = t /\ s = "completed")
    BY <2>0 DEF Data
  <2> HIDE DEF a, p
  <2>5. /\ e \in Data /\ e.state = "open" /\ e.active = a /\ e.report = p
        /\ e.turn[t] = y /\ \A u \in Turns \ {t} : e.turn[u] = d.turn[u]
    BY <1>2, <2>0, <2>3, <2>4 DEF Data
  <2> HIDE DEF e
  <2>6. s \notin Unfinished /\ s # "routing" /\ s # "none"  BY DEF Final, Unfinished
  <2>7. Moved(d, e)  BY <1>2, <2>3, <2>5, <2>6 DEF Moved, Linked
  <2>8. \A u \in Turns : e.turn[u].linked <=> r[u] # "none"
    BY <1>2, <2>3, <2>5 DEF Agree
  <2>9. \A u \in Turns : /\ e.turn[u].status \in Unfinished <=> e.active = u
                         /\ e.turn[u].ends <= 1
                         /\ e.turn[u].ends # 0 => e.turn[u].status \in Final
                         /\ e.turn[u].linked => e.turn[u].status # "none"
    BY <1>2, <2>3, <2>4, <2>5, <2>6, ConversationsAssumption DEF Agree
  <2>10. e.report # NoTurn => e.turn[e.report].status = "completed"
    BY <1>2, <2>0, <2>3, <2>4, <2>5 DEF Agree, Data, Final
  <2> QED  BY <2>1, <2>3, <2>5, <2>6, <2>7, <2>8, <2>9, <2>10 DEF Agree
<1> QED  BY <1>1, <1>2

LEMMA SyncedAgrees ==
  ASSUME NEW d, NEW r \in Runs, Agree(d, r)
  PROVE  /\ Agree(Synced(d, r), r) /\ Moved(d, Synced(d, r))
         /\ d.state = "open" /\ d.active # NoTurn /\ d.active \in Linked(d) =>
              \A t \in Turns : Synced(d, r).turn[t].status # "routing"
<1> DEFINE t == d.active
<1>1. CASE d.state # "open" \/ t = NoTurn \/ t \notin Linked(d)
  BY <1>1 DEF Synced, Moved
<1>2. CASE ~(d.state # "open" \/ t = NoTurn \/ t \notin Linked(d))
  <2>0. d \in Data /\ t \in Turns /\ d.state = "open" /\ t \in Linked(d) /\ r[t] # "none"
    BY <1>2 DEF Agree, Data, Linked
  <2>1. \A u \in Turns \ {t} : d.turn[u].status # "routing"
    BY <2>0 DEF Agree, Unfinished
  <2>2. CASE r[t] \in Final
    <3>1. Synced(d, r) = Finished(d, t, r[t])  BY <2>0, <2>2, <1>2 DEF Synced
    <3> QED  BY <2>0, <2>1, <2>2, <3>1, FinishedAgrees DEF Moved
  <2>3. CASE r[t] = "gone"
    <3>1. Synced(d, r) = Finished(d, t, "failed") /\ "failed" \in Final
      BY <2>0, <2>3, <1>2 DEF Synced, Final
    <3> QED  BY <2>0, <2>1, <3>1, FinishedAgrees DEF Moved
  <2>4. CASE r[t] \notin Final /\ r[t] # "gone"
    <3> DEFINE s == IF r[t] = "pending" THEN "running" ELSE r[t]
               y == [d.turn[t] EXCEPT !.status = s]
               e == [d EXCEPT !.turn = [d.turn EXCEPT ![t] = y]]
    <3>1. s \in Unfinished /\ s # "routing" /\ s # "none"
      BY <2>0, <2>4 DEF Runs, RunStatus, Unfinished, Final
    <3>2. Synced(d, r) = e  BY <1>2, <2>0, <2>4 DEF Synced, Data
    <3> HIDE DEF s
    <3>3. y \in Turn /\ y.status = s /\ y.ends = d.turn[t].ends /\ y.linked = d.turn[t].linked
      BY <2>0, <3>1 DEF Data, Turn, TurnStatus
    <3> HIDE DEF y
    <3>4. /\ e \in Data /\ e.state = "open" /\ e.active = t /\ e.report = d.report
          /\ e.turn[t] = y /\ \A u \in Turns \ {t} : e.turn[u] = d.turn[u]
      BY <2>0, <3>3 DEF Data
    <3> HIDE DEF e
    <3>5. d.turn[t].status \in Unfinished /\ d.turn[t].status \notin Final /\ d.turn[t].ends = 0
      BY <2>0 DEF Agree, Data, Turn, Unfinished, Final
    <3>6. Moved(d, e) /\ \A u \in Turns : e.turn[u].status # "routing"
      BY <2>0, <2>1, <3>1, <3>3, <3>4 DEF Moved, Linked
    <3>7. \A u \in Turns : e.turn[u].linked <=> r[u] # "none"
      BY <2>0, <3>3, <3>4 DEF Agree
    <3>8. \A u \in Turns : /\ e.turn[u].status \in Unfinished <=> e.active = u
                           /\ e.turn[u].ends <= 1
                           /\ e.turn[u].ends # 0 => e.turn[u].status \in Final
                           /\ e.turn[u].linked => e.turn[u].status # "none"
      BY <2>0, <3>1, <3>3, <3>4, <3>5 DEF Agree
    <3>9. e.report # NoTurn => e.turn[e.report].status = "completed"
      BY <2>0, <3>4, <3>5 DEF Agree, Data, Final
    <3> QED  BY <3>2, <3>4, <3>6, <3>7, <3>8, <3>9 DEF Agree
  <2> QED  BY <2>2, <2>3, <2>4
<1> QED  BY <1>1, <1>2

(* The statuses of the runs may change as long as no run appears.           *)
LEMMA RunsAgree ==
  ASSUME NEW d, NEW r, NEW q, Agree(d, r), \A t \in Turns : q[t] # "none" <=> r[t] # "none"
  PROVE  Agree(d, q)
BY DEF Agree

(* What a client was shown is of no use once the tables passed it.          *)
LEMMA SavedShown ==
  ASSUME Typed, Shown, NEW d, Saved(d)
  PROVE  Shown' /\ data' = d /\ seen' \in Screen
<1> DEFINE b == seen.fresh /\ d = data
<1>1. seen' = [seen EXCEPT !.fresh = b] /\ data' = d /\ b \in BOOLEAN  BY DEF Saved, Typed
<1>2. seen'.runs = seen.runs /\ seen'.fresh = b /\ seen' \in Screen
  BY <1>1 DEF Typed, Screen
<1>3. Shown'  BY <1>1, <1>2 DEF Shown, Linked
<1> QED  BY <1>1, <1>2, <1>3

LEMMA NoOpIsFree == Free.op = "free" /\ \A t \in Turns : Free # Halting(t) /\ Free # [op |-> "launch", turn |-> t]
BY DEF Free, Halting

LEMMA InitInv == Init => Inv
<1> SUFFICES ASSUME Init PROVE Inv  OBVIOUS
<1>1. Typed  BY DEF Init, Typed, Runs, Screen
<1>2. Agree(data, run)
  <2>1. NewTurn \in Turn /\ NewTurn.status \notin Unfinished /\ NewTurn.ends = 0 /\ ~NewTurn.linked
    BY DEF NewTurn, Turn, Unfinished
  <2>2. data \in Data /\ data.report = NoTurn /\ data.active = NoTurn /\ data.state = "open"
        /\ \A t \in Turns : data.turn[t] = NewTurn
    BY <2>1 DEF Init, Data
  <2>3. \A t \in Turns : run[t] = "none" /\ t # NoTurn  BY ConversationsAssumption DEF Init
  <2> QED  BY <2>1, <2>2, <2>3 DEF Agree
<1>3. Working /\ Asking  BY NoOpIsFree DEF Init, Working, Asking, NewTurn
<1>4. Down /\ Gone /\ Shown  BY DEF Init, Down, Gone, Shown
<1> QED  BY <1>1, <1>2, <1>3, <1>4 DEF Inv

-----------------------------------------------------------------------------
(* Messages and their routing.                                              *)

LEMMA PollInv == ASSUME Inv, Poll PROVE Inv'
<1> DEFINE e == Synced(data, run)
<1>0. /\ data' = e /\ seen' = [fresh |-> TRUE, runs |-> Linked(data')] /\ data.state # "gone"
      /\ UNCHANGED <<run, live, lock, up, route, holder>>
  BY DEF Poll, postgres, memory
<1>1. Agree(e, run) /\ Moved(data, e)  BY SyncedAgrees DEF Inv, Typed
<1> HIDE DEF e
<1>2. Typed' /\ Agree(data, run)' /\ Working' /\ Down'
  BY <1>0, <1>1 DEF Inv, Typed, Working, Down, Silent, Linked, Screen
<1>3. Asking'  BY <1>0, <1>1 DEF Inv, Asking, Moved
<1>4. Gone' /\ Shown'  BY <1>0, <1>1 DEF Gone, Shown, Moved
<1> QED  BY <1>2, <1>3, <1>4 DEF Inv

LEMMA SendInv == ASSUME Inv, NEW t \in Turns, NEW base \in Turns \cup {NoTurn}, Send(t, base) PROVE Inv'
<1> DEFINE y == [NewTurn EXCEPT !.status = "routing", !.asked = base]
           z == [data.turn[data.active] EXCEPT !.status = "cancelled"]
           w == [u \in Turns |-> IF u = t THEN y ELSE IF u = data.active THEN z ELSE data.turn[u]]
           e == [data EXCEPT !.turn = w, !.active = t]
<1>0. /\ data.state = "open" /\ data.turn[t].status = "none" /\ holder = Free /\ up
      /\ data.active # NoTurn => data.turn[data.active].status = "awaiting_confirmation"
      /\ route' = [route EXCEPT ![t] = "created"] /\ UNCHANGED <<run, live, lock, up, holder>>
  BY DEF Send, Serving
<1>1. Saved(e)
  <2>1. w = [u \in Turns |->
               IF u = t THEN [NewTurn EXCEPT !.status = "routing", !.asked = base]
               ELSE IF u = data.active THEN [data.turn[u] EXCEPT !.status = "cancelled"]
               ELSE data.turn[u]]
    OBVIOUS
  <2> QED  BY <2>1 DEF Send
<1>2. data \in Data /\ data.turn \in [Turns -> Turn] /\ run \in Runs  BY DEF Inv, Agree, Typed, Data
<1>3. y \in Turn /\ y.status = "routing" /\ ~y.linked /\ y.ends = 0
  BY DEF NewTurn, Turn, TurnStatus, Unfinished
<1>4. data.active # NoTurn => /\ z \in Turn /\ z.status = "cancelled"
                              /\ z.linked = data.turn[data.active].linked /\ z.ends = data.turn[data.active].ends
  BY <1>2 DEF Data, Turn, TurnStatus, Final
<1> HIDE DEF y, z
<1>5. w \in [Turns -> Turn]  BY <1>2, <1>3, <1>4, ConversationsAssumption
<1>6. w[t] = y /\ \A u \in Turns \ {t} : w[u] = IF u = data.active THEN z ELSE data.turn[u]
  OBVIOUS
<1> HIDE DEF w
<1>7. e \in Data /\ e.turn = w /\ e.active = t /\ e.state = "open" /\ e.report = data.report
  BY <1>0, <1>2, <1>5 DEF Data
<1> HIDE DEF e
<1>8. ~data.turn[t].linked /\ data.turn[t].status \notin Unfinished /\ data.active # t
      /\ \A u \in Turns : u # data.active => data.turn[u].status \notin Unfinished
  BY <1>0 DEF Inv, Agree, Unfinished
<1>9. Agree(e, run)
  <2>1. \A u \in Turns : e.turn[u].linked <=> run[u] # "none"
    BY <1>0, <1>3, <1>4, <1>6, <1>7, <1>8, ConversationsAssumption DEF Inv, Agree
  <2>2. \A u \in Turns : /\ e.turn[u].status \in Unfinished <=> e.active = u
                         /\ e.turn[u].ends <= 1
                         /\ e.turn[u].ends # 0 => e.turn[u].status \in Final
                         /\ e.turn[u].linked => e.turn[u].status # "none"
    <3> "routing" \in Unfinished /\ "cancelled" \notin Unfinished /\ "cancelled" \in Final
      BY DEF Unfinished, Final
    <3> TAKE u \in Turns
    <3>1. CASE u = t  BY <3>1, <1>3, <1>6, <1>7
    <3>2. CASE u # t /\ u = data.active
      BY <3>2, <1>0, <1>4, <1>6, <1>7, ConversationsAssumption DEF Inv, Agree
    <3>3. CASE u # t /\ u # data.active
      BY <3>3, <1>0, <1>6, <1>7, <1>8 DEF Inv, Agree
    <3> QED  BY <3>1, <3>2, <3>3
  <2>3. e.report # NoTurn => e.turn[e.report].status = "completed"
    BY <1>0, <1>2, <1>6, <1>7 DEF Inv, Agree, Data
  <2> QED  BY <1>7, <2>1, <2>2, <2>3 DEF Agree
<1>10. Shown' /\ data' = e /\ seen' \in Screen  BY <1>1, SavedShown DEF Inv
<1>11. Typed' /\ Working' /\ Down' /\ Gone'
  <2>1. Typed'  BY <1>0, <1>10 DEF Inv, Typed
  <2>2. Working'  BY <1>0 DEF Inv, Working
  <2> QED  BY <1>0, <1>7, <1>10, <2>1, <2>2 DEF Inv, Down, Gone
<1>12. Asking'
  BY <1>0, <1>2, <1>3, <1>4, <1>6, <1>7, <1>8, <1>10, NoOpIsFree, ConversationsAssumption
     DEF Inv, Typed, Asking, Unfinished
<1> QED  BY <1>0, <1>9, <1>10, <1>11, <1>12 DEF Inv

(* A step of the routing task of t, whatever it writes.                     *)
LEMMA RoutedInv ==
  ASSUME Inv, NEW t \in Turns, NEW phase \in {"none", "asking", "answering"},
         route[t] # "none", Routed(t, phase), Routing, Shown', seen' \in Screen,
         Agree(data', run), data'.state = data.state,
         \A u \in Turns \ {t} : data'.turn[u].status = "routing" => data.turn[u].status = "routing",
         data.state = "open" /\ data'.turn[t].status = "routing" =>
           phase # "none" \/ holder = Halting(t)
  PROVE  Inv'
<1>0. /\ UNCHANGED <<run, live, lock, up, holder>> /\ route' = [route EXCEPT ![t] = phase]
  BY DEF Routed, Routing
<1>1. route[t] # "none" /\ up /\ data.state # "gone"  BY DEF Inv, Down, Gone, Silent
<1>2. Typed'  BY <1>0 DEF Inv, Typed
<1>3. Working'  BY <1>0 DEF Inv, Working
<1>4. Asking'
  <2>1. \A u \in Turns : route'[u] = IF u = t THEN phase ELSE route[u]  BY <1>0 DEF Inv, Typed
  <2> QED  BY <1>0, <1>1, <2>1 DEF Inv, Asking
<1>5. Down' /\ Gone'  BY <1>0, <1>1 DEF Down, Gone
<1> QED  BY <1>0, <1>2, <1>3, <1>4, <1>5 DEF Inv

LEMMA FinishesInv ==
  ASSUME Inv, NEW t \in Turns, NEW s \in Final, route[t] # "none",
         Routed(t, "none"), Routing, Saved(Finished(data, t, s))
  PROVE  Inv'
<1> DEFINE e == Finished(data, t, s)
<1>1. /\ Agree(e, run) /\ Moved(data, e)
      /\ data.state = "open" => e.turn[t].status # "routing"
  BY FinishedAgrees DEF Inv
<1> HIDE DEF e
<1>2. Saved(e)  BY DEF e
<1>3. Shown' /\ data' = e /\ seen' \in Screen  BY <1>2, SavedShown DEF Inv
<1> QED  BY <1>1, <1>3, RoutedInv DEF Moved

(* A task that writes nothing.                                              *)
LEMMA PassesInv ==
  ASSUME Inv, NEW t \in Turns, NEW phase \in {"none", "asking", "answering"}, route[t] # "none",
         Routed(t, phase), Routing, UNCHANGED <<data, seen>>,
         data.state = "open" /\ data.turn[t].status = "routing" => phase # "none" \/ holder = Halting(t)
  PROVE  Inv'
<1>1. Shown' /\ seen' \in Screen /\ Agree(data', run)
  BY DEF Inv, Shown, Linked, Typed
<1> QED  BY <1>1, RoutedInv

LEMMA DecidedAgrees ==
  ASSUME Inv, NEW t \in Turns, NEW action \in Actions, NEW base \in Turns \cup {NoTurn},
         data.state = "open", data.active = t, data.turn[t].status = "routing"
  PROVE  LET e == Decided(t, action, base) IN
         /\ Agree(e, run) /\ e.state = data.state
         /\ \A u \in Turns \ {t} : e.turn[u] = data.turn[u]
         /\ action # "answer" => e.turn[t].status # "routing"
<1> DEFINE s == CASE action = "clarify" -> "awaiting_clarification"
                  [] action = "answer" -> "routing"
                  [] OTHER -> "awaiting_confirmation"
           y == [data.turn[t] EXCEPT !.action = action, !.base = base, !.status = s]
           a == IF action = "clarify" THEN NoTurn ELSE data.active
           e == [data EXCEPT !.turn = [data.turn EXCEPT ![t] = y], !.active = a]
<1>0. data \in Data /\ data.turn[t] \in Turn  BY DEF Inv, Agree, Data
<1>1. Decided(t, action, base) = e
  <2>1. Decided(t, action, base) =
          [data EXCEPT !.turn[t].action = action, !.turn[t].base = base, !.turn[t].status = s,
                       !.active = IF action = "clarify" THEN NoTurn ELSE @]
    BY DEF Decided
  <2> HIDE DEF s
  <2> DEFINE w == [[[data.turn EXCEPT ![t].action = action] EXCEPT ![t].base = base] EXCEPT ![t].status = s]
  <2>2. w = [data.turn EXCEPT ![t] = y]  BY <1>0 DEF Data, Turn
  <2>3. Decided(t, action, base) = [[data EXCEPT !.turn = w] EXCEPT !.active = a]
    BY <1>0, <2>1 DEF Data
  <2> HIDE DEF w, y
  <2> QED  BY <1>0, <2>2, <2>3 DEF Data
<1>2. /\ s \in TurnStatus /\ s # "none" /\ s \notin Final
      /\ s \in Unfinished <=> action # "clarify" /\ action \in Actions
      /\ action # "answer" => s # "routing"
  BY DEF TurnStatus, Unfinished, Final, Actions
<1> HIDE DEF s
<1>3. /\ y \in Turn /\ y.status = s /\ y.ends = data.turn[t].ends /\ y.linked = data.turn[t].linked
  BY <1>0, <1>2 DEF Turn
<1> HIDE DEF y
<1>4. a \in Turns \cup {NoTurn} /\ a = (IF action = "clarify" THEN NoTurn ELSE t)
  BY <1>0 DEF Data
<1> HIDE DEF a
<1>5. /\ e \in Data /\ e.state = "open" /\ e.active = a /\ e.report = data.report
      /\ e.turn[t] = y /\ \A u \in Turns \ {t} : e.turn[u] = data.turn[u]
  BY <1>0, <1>3, <1>4 DEF Data
<1> HIDE DEF e
<1>6. data.turn[t].ends = 0 /\ \A u \in Turns \ {t} : data.turn[u].status \notin Unfinished
  BY <1>0 DEF Inv, Agree, Data, Turn, Final
<1>7. \A u \in Turns : e.turn[u].linked <=> run[u] # "none"
  BY <1>3, <1>5 DEF Inv, Agree
<1>8. \A u \in Turns : /\ e.turn[u].status \in Unfinished <=> e.active = u
                       /\ e.turn[u].ends <= 1
                       /\ e.turn[u].ends # 0 => e.turn[u].status \in Final
                       /\ e.turn[u].linked => e.turn[u].status # "none"
  BY <1>2, <1>3, <1>4, <1>5, <1>6, ConversationsAssumption DEF Inv, Agree
<1>9. e.report # NoTurn => e.turn[e.report].status = "completed"
  BY <1>0, <1>5 DEF Inv, Agree, Data
<1> QED  BY <1>1, <1>2, <1>3, <1>5, <1>7, <1>8, <1>9 DEF Agree

LEMMA TaskInv == ASSUME Inv, NEW t \in Turns, Task(t) PROVE Inv'
<1>1. CASE Read(t)
  <2>1. CASE Routed(t, "asking") /\ UNCHANGED <<data, seen>>
    BY <1>1, <2>1, PassesInv DEF Read
  <2>2. CASE Routed(t, "none") /\ Saved(Finished(data, t, "failed"))
    BY <1>1, <2>2, FinishesInv DEF Read, Final
  <2> QED  BY <1>1, <2>1, <2>2 DEF Read
<1>2. CASE Decide(t)
  <2>0. route[t] # "none" /\ Routing  BY <1>2 DEF Decide
  <2>1. CASE Routed(t, "none") /\ Saved(Finished(data, t, "failed"))
    BY <2>0, <2>1, FinishesInv DEF Final
  <2>2. ASSUME NEW action \in Actions, NEW base \in Turns \cup {NoTurn},
               IF data.state # "open" \/ data.active # t \/ data.turn[t].status # "routing"
               THEN Routed(t, "none") /\ UNCHANGED <<data, seen>>
               ELSE /\ Routed(t, IF action = "answer" THEN "answering" ELSE "none")
                    /\ Saved(Decided(t, action, base))
        PROVE  Inv'
    <3>1. CASE data.state # "open" \/ data.active # t \/ data.turn[t].status # "routing"
      <4>1. ~(data.state = "open" /\ data.turn[t].status = "routing")
        BY <3>1 DEF Inv, Agree, Unfinished
      <4> QED  BY <2>0, <2>2, <3>1, <4>1, PassesInv
    <3>2. CASE ~(data.state # "open" \/ data.active # t \/ data.turn[t].status # "routing")
      <4> DEFINE e == Decided(t, action, base)
                 phase == IF action = "answer" THEN "answering" ELSE "none"
      <4>1. /\ Agree(e, run) /\ e.state = data.state
            /\ \A u \in Turns \ {t} : e.turn[u] = data.turn[u]
            /\ action # "answer" => e.turn[t].status # "routing"
        BY <3>2, DecidedAgrees
      <4>2. Saved(e) /\ Routed(t, phase)  BY <2>2, <3>2
      <4> HIDE DEF e
      <4>3. Shown' /\ data' = e /\ seen' \in Screen  BY <4>2, SavedShown DEF Inv
      <4> QED  BY <2>0, <4>1, <4>2, <4>3, RoutedInv
    <3> QED  BY <3>1, <3>2
  <2> QED  BY <1>2, <2>1, <2>2 DEF Decide
<1>3. CASE Answer(t)
  BY <1>3, FinishesInv DEF Answer, Final
<1>4. CASE Ended(t)
  <2>1. data.state = "open" => holder = Halting(t)
    BY <1>4 DEF Ended, Inv, Asking, Down, Silent
  <2> QED  BY <1>4, <2>1, PassesInv DEF Ended
<1> QED  BY <1>1, <1>2, <1>3, <1>4 DEF Task

-----------------------------------------------------------------------------
(* Confirmation and stops.                                                  *)

LEMMA ConfirmInv == ASSUME Inv, NEW t \in Turns, Confirm(t) PROVE Inv'
<1> DEFINE y == [data.turn[t] EXCEPT !.linked = TRUE, !.status = "running"]
           e == [data EXCEPT !.turn = [data.turn EXCEPT ![t] = y]]
<1>0. /\ data.state = "open" /\ data.active = t /\ data.turn[t].status = "awaiting_confirmation"
      /\ ~data.turn[t].linked /\ holder = Free /\ up
      /\ run' = [run EXCEPT ![t] = "pending"] /\ holder' = [op |-> "launch", turn |-> t]
      /\ UNCHANGED <<live, lock, up, route>>
  BY DEF Confirm, Serving
<1>1. data \in Data /\ data.turn[t] \in Turn /\ run \in Runs  BY DEF Inv, Agree, Data, Typed
<1>2. Saved(e)
  <2>1. [data EXCEPT !.turn[t].linked = TRUE, !.turn[t].status = "running"] = e
    BY <1>1 DEF Data, Turn
  <2> QED  BY <2>1 DEF Confirm
<1>3. y \in Turn /\ y.status = "running" /\ y.linked /\ y.ends = data.turn[t].ends
  BY <1>1 DEF Turn, TurnStatus, Unfinished
<1> HIDE DEF y
<1>4. /\ e \in Data /\ e.state = "open" /\ e.active = t /\ e.report = data.report
      /\ e.turn[t] = y /\ \A u \in Turns \ {t} : e.turn[u] = data.turn[u]
  BY <1>0, <1>1, <1>3 DEF Data
<1> HIDE DEF e
<1>5. run' \in Runs /\ run'[t] = "pending" /\ \A u \in Turns \ {t} : run'[u] = run[u]
  BY <1>0, <1>1 DEF Runs, RunStatus
<1>6. Agree(e, run')
  <2>1. data.turn[t].ends = 0  BY <1>0, <1>1 DEF Inv, Agree, Turn, Final
  <2>2. \A u \in Turns : e.turn[u].linked <=> run'[u] # "none"
    BY <1>0, <1>3, <1>4, <1>5 DEF Inv, Agree
  <2>3. "running" \in Unfinished  BY DEF Unfinished
  <2>4. \A u \in Turns : /\ e.turn[u].status \in Unfinished <=> e.active = u
                         /\ e.turn[u].ends <= 1
                         /\ e.turn[u].ends # 0 => e.turn[u].status \in Final
                         /\ e.turn[u].linked => e.turn[u].status # "none"
    BY <1>0, <1>3, <1>4, <2>1, <2>3 DEF Inv, Agree
  <2>5. e.report # NoTurn => e.turn[e.report].status = "completed"
    BY <1>0, <1>1, <1>4 DEF Inv, Agree, Data
  <2> QED  BY <1>4, <2>2, <2>4, <2>5 DEF Agree
<1>7. Shown' /\ data' = e /\ seen' \in Screen  BY <1>2, SavedShown DEF Inv
<1>8. run[t] = "none" /\ t \notin live  BY <1>0 DEF Inv, Agree, Working
<1>9. Typed'  BY <1>0, <1>5, <1>7 DEF Inv, Typed
<1>10. Working'  BY <1>0, <1>5, <1>8 DEF Inv, Working
<1>11. Asking'
  BY <1>0, <1>3, <1>4, <1>7, NoOpIsFree DEF Inv, Asking
<1> QED  BY <1>0, <1>4, <1>6, <1>7, <1>9, <1>10, <1>11 DEF Inv, Down, Gone

(* A run changes, and the tables follow it.                                 *)
LEMMA FollowsRun ==
  ASSUME Inv, run' \in Runs, \A t \in Turns : run'[t] # "none" <=> run[t] # "none",
         Saved(Synced(data, run'))
  PROVE  Agree(data', run') /\ Moved(data, data') /\ Shown' /\ seen' \in Screen
<1>1. Agree(data, run')  BY RunsAgree DEF Inv
<1> DEFINE e == Synced(data, run')
<1>2. Agree(e, run') /\ Moved(data, e)  BY <1>1, SyncedAgrees
<1> HIDE DEF e
<1>3. Shown' /\ data' = e /\ seen' \in Screen
  <2>1. Saved(e)  BY DEF e
  <2> QED  BY <2>1, SavedShown DEF Inv
<1> QED  BY <1>2, <1>3

LEMMA LaunchInv == ASSUME Inv, NEW t \in Turns, Launch(t) PROVE Inv'
<1>0. /\ holder = [op |-> "launch", turn |-> t] /\ holder' = Free
      /\ UNCHANGED <<lock, up, route>> /\ Saved(Synced(data, run'))
      /\ \/ live' = live \cup {t} /\ run' = run
         \/ live' = live /\ \E s \in {"failed", "interrupted"} : run' = [run EXCEPT ![t] = s]
  BY DEF Launch, Saved
<1>1. run[t] = "pending" /\ t \notin live /\ up /\ data.state # "gone"
  BY <1>0, NoOpIsFree DEF Inv, Working, Down, Gone, Silent
<1>2. run' \in Runs /\ \A u \in Turns : run'[u] # "none" <=> run[u] # "none"
  BY <1>0, <1>1 DEF Inv, Typed, Runs, RunStatus, Final
<1>3. Agree(data', run') /\ Moved(data, data') /\ Shown' /\ seen' \in Screen
  BY <1>0, <1>2, FollowsRun
<1>4. Typed'  BY <1>0, <1>2, <1>3 DEF Inv, Typed
<1>5. Working'
  <2>1. \A u \in live' : run'[u] \in {"pending", "running"}
    BY <1>0, <1>1 DEF Inv, Working, Typed, Runs
  <2> QED  BY <1>0, <2>1, NoOpIsFree DEF Working
<1>6. Asking'  BY <1>0, <1>3, NoOpIsFree DEF Inv, Asking, Moved, Halting
<1> QED  BY <1>0, <1>1, <1>3, <1>4, <1>5, <1>6 DEF Inv, Down, Gone, Moved

LEMMA StopInv == ASSUME Inv, NEW t \in Turns, Stop(t) PROVE Inv'
<1>0. /\ holder = Free /\ up /\ data.state # "gone" /\ UNCHANGED <<run, live, lock, up>>
  BY DEF Stop, Serving
<1>1. data.state = "open" => \A u \in Turns : route[u] # "stopped"
  BY <1>0, NoOpIsFree DEF Inv, Asking
<1>2. data'.state = data.state => Gone'  BY <1>0 DEF Gone
<1>3. CASE Saved(Synced(data, run)) /\ holder' = [op |-> "cancel", turn |-> t] /\ UNCHANGED route
  <2>1. Agree(data', run') /\ Moved(data, data') /\ Shown' /\ seen' \in Screen
    BY <1>0, <1>3, FollowsRun DEF Inv, Typed
  <2>2. Typed' /\ Working'  BY <1>0, <1>3, <2>1 DEF Inv, Typed, Working
  <2>3. Asking'  BY <1>0, <1>1, <1>3, <2>1, NoOpIsFree DEF Inv, Asking, Moved
  <2> QED  BY <1>0, <1>2, <2>1, <2>2, <2>3 DEF Inv, Down, Moved
<1>4. CASE /\ route[t] # "none" /\ holder' = Halting(t) /\ route' = [route EXCEPT ![t] = "stopped"]
           /\ UNCHANGED <<data, seen>>
  <2>1. Typed' /\ Working'  BY <1>0, <1>4 DEF Inv, Typed, Working, Halting
  <2>2. Agree(data', run') /\ Shown'  BY <1>0, <1>4 DEF Inv, Shown, Linked
  <2>3. Asking'  BY <1>0, <1>1, <1>4, NoOpIsFree DEF Inv, Typed, Asking
  <2> QED  BY <1>0, <1>2, <1>4, <2>1, <2>2, <2>3 DEF Inv, Down
<1>5. CASE Saved(Finished(data, t, "cancelled")) /\ UNCHANGED <<holder, route>>
  <2> DEFINE e == Finished(data, t, "cancelled")
  <2>1. Agree(e, run) /\ Moved(data, e)  BY FinishedAgrees DEF Inv, Final
  <2>2. Saved(e)  BY <1>5
  <2> HIDE DEF e
  <2>3. Shown' /\ data' = e /\ seen' \in Screen  BY <2>2, SavedShown DEF Inv
  <2>4. Typed' /\ Working'  BY <1>0, <1>5, <2>3 DEF Inv, Typed, Working
  <2>5. Asking'  BY <1>0, <1>5, <2>1, <2>3 DEF Inv, Asking, Moved
  <2> QED  BY <1>0, <1>2, <2>1, <2>3, <2>4, <2>5 DEF Inv, Down, Moved
<1> QED  BY <1>3, <1>4, <1>5 DEF Stop, Halting

LEMMA HaltedInv == ASSUME Inv, NEW t \in Turns, Halted(t) PROVE Inv'
<1> DEFINE e == Finished(data, t, "cancelled")
<1>0. /\ holder = Halting(t) /\ route[t] = "none" /\ holder' = Free
      /\ UNCHANGED <<run, live, lock, up, route>> /\ Saved(e)
  BY DEF Halted, Halting
<1>1. /\ Agree(e, run) /\ Moved(data, e)
      /\ data.state = "open" => e.turn[t].status # "routing"
  BY FinishedAgrees DEF Inv, Final
<1>2. data.state # "gone" /\ up  BY <1>0, NoOpIsFree DEF Inv, Gone, Down, Silent
<1> HIDE DEF e
<1>3. Shown' /\ data' = e /\ seen' \in Screen  BY <1>0, SavedShown DEF Inv
<1>4. Typed' /\ Working'  BY <1>0, <1>3, NoOpIsFree DEF Inv, Typed, Working
<1>5. Asking'
  <2>1. \A u \in Turns : Halting(t) = Halting(u) => u = t  BY DEF Halting
  <2> QED  BY <1>0, <1>1, <1>3, <2>1 DEF Inv, Asking, Moved
<1> QED  BY <1>0, <1>1, <1>2, <1>3, <1>4, <1>5 DEF Inv, Down, Gone, Moved

LEMMA CancelRunInv == ASSUME Inv, NEW t \in Turns, CancelRun(t) PROVE Inv'
<1>0. /\ holder = [op |-> "cancel", turn |-> t] /\ holder' = Free
      /\ UNCHANGED <<lock, up, route>> /\ Saved(Synced(data, run'))
      /\ \/ run' = run /\ live' = live
         \/ Waiting(t) /\ run' = [run EXCEPT ![t] = "cancelled"] /\ live' = live \ {t}
  BY DEF CancelRun, Saved
<1>1. up /\ data.state # "gone"  BY <1>0, NoOpIsFree DEF Inv, Down, Gone, Silent
<1>2. run' \in Runs /\ \A u \in Turns : run'[u] # "none" <=> run[u] # "none"
  BY <1>0 DEF Inv, Typed, Runs, RunStatus, Final, Waiting
<1>3. Agree(data', run') /\ Moved(data, data') /\ Shown' /\ seen' \in Screen
  BY <1>0, <1>2, FollowsRun
<1>4. Typed'  BY <1>0, <1>2, <1>3 DEF Inv, Typed
<1>5. Working'
  <2>1. \A u \in live' : run'[u] \in {"pending", "running"}
    BY <1>0 DEF Inv, Working, Typed, Runs
  <2> QED  BY <1>0, <2>1, NoOpIsFree DEF Working
<1>6. Asking'  BY <1>0, <1>3, NoOpIsFree DEF Inv, Asking, Moved, Halting
<1> QED  BY <1>0, <1>1, <1>3, <1>4, <1>5, <1>6 DEF Inv, Down, Gone, Moved

-----------------------------------------------------------------------------
(* Deletion.                                                                *)

LEMMA DeleteInv == ASSUME Inv, Delete PROVE Inv'
<1> DEFINE e == [data EXCEPT !.state = "deleting"]
<1>0. /\ up /\ data.state # "gone" /\ Saved(e) /\ UNCHANGED <<run, live, lock, up>>
      /\ route' = [t \in Turns |-> IF route[t] = "none" THEN "none" ELSE "stopped"]
      /\ holder' = [op |-> "delete", turn |-> NoTurn]
  BY DEF Delete, Serving
<1>1. e \in Data /\ e.state = "deleting" /\ e.turn = data.turn /\ e.report = data.report
  BY DEF Inv, Agree, Data
<1> HIDE DEF e
<1>2. Shown' /\ data' = e /\ seen' \in Screen  BY <1>0, SavedShown DEF Inv
<1>3. Agree(data', run')  BY <1>0, <1>1, <1>2 DEF Inv, Agree
<1>4. Typed' /\ Working'  BY <1>0, <1>2 DEF Inv, Typed, Working
<1> QED  BY <1>0, <1>1, <1>2, <1>3, <1>4 DEF Inv, Asking, Down, Gone

LEMMA PurgeInv == ASSUME Inv, Purge PROVE Inv'
<1> DEFINE runs == {t \in Linked(data) : run[t] # "gone"}
<1>0. /\ holder.op = "delete" /\ holder' = Free /\ (\A t \in Turns : route[t] = "none")
      /\ UNCHANGED <<lock, up, route>>
  BY DEF Purge
<1>1. up /\ data.state # "gone"  BY <1>0, NoOpIsFree DEF Inv, Down, Gone, Silent
<1>2. \A t \in Turns : t \in Linked(data) <=> run[t] # "none"  BY <1>1 DEF Inv, Agree, Linked
<1>3. CASE /\ run' = [t \in Turns |-> IF t \in runs THEN "gone" ELSE run[t]]
           /\ live' = live \ runs /\ Saved(Emptied)
  <2>1. Emptied \in Data /\ Emptied.state = "gone" /\ Emptied.report = NoTurn
    <3>1. NewTurn \in Turn  BY DEF NewTurn, Turn
    <3> DEFINE w == [t \in Turns |-> NewTurn]
    <3>2. w \in [Turns -> Turn]  BY <3>1
    <3>3. Emptied = [data EXCEPT !.state = "gone", !.active = NoTurn, !.report = NoTurn, !.turn = w]
      BY DEF Emptied
    <3> HIDE DEF w
    <3> QED  BY <3>2, <3>3 DEF Inv, Agree, Data
  <2>2. Shown' /\ data' = Emptied /\ seen' \in Screen  BY <1>3, SavedShown DEF Inv
  <2>3. \A t \in Turns : run'[t] \in {"none", "gone"}  BY <1>2, <1>3
  <2>4. run' \in Runs  BY <1>3 DEF Inv, Typed, Runs
  <2>5. live' = {}  BY <1>2, <1>3 DEF Inv, Typed, Working
  <2>6. Typed'  BY <1>0, <2>2, <2>4, <2>5 DEF Inv, Typed
  <2>7. Working'  BY <1>0, <2>5, NoOpIsFree DEF Working
  <2>8. Agree(data', run')  BY <2>1, <2>2 DEF Agree
  <2> QED  BY <1>0, <1>1, <2>1, <2>2, <2>3, <2>5, <2>6, <2>7, <2>8
              DEF Inv, Asking, Down, Gone, Silent
<1>4. CASE /\ \E stopped \in SUBSET {t \in runs : Waiting(t) /\ Cancellable(t)} :
                /\ run' = [t \in Turns |-> IF t \in stopped THEN "cancelled" ELSE run[t]]
                /\ live' = live \ stopped
           /\ UNCHANGED <<data, seen>>
  <2> PICK stopped \in SUBSET {t \in runs : Waiting(t) /\ Cancellable(t)} :
             /\ run' = [t \in Turns |-> IF t \in stopped THEN "cancelled" ELSE run[t]]
             /\ live' = live \ stopped
    BY <1>4
  <2>1. \A t \in stopped : run[t] # "none"  BY DEF Waiting, RunStatus, Final
  <2>2. run' \in Runs /\ \A t \in Turns : run'[t] # "none" <=> run[t] # "none"
    BY <2>1 DEF Inv, Typed, Runs, RunStatus, Final
  <2>3. Agree(data', run')  BY <1>4, <2>2, RunsAgree DEF Inv
  <2>4. Typed'  BY <1>0, <1>4, <2>2 DEF Inv, Typed
  <2>5. Working'
    <3>1. \A t \in live' : run'[t] \in {"pending", "running"}  BY DEF Inv, Typed, Working
    <3> QED  BY <1>0, <3>1, NoOpIsFree DEF Working
  <2>6. Asking'
    <3>1. \A t \in Turns : holder # Halting(t)  BY <1>0 DEF Halting
    <3> QED  BY <1>0, <1>4, <3>1 DEF Inv, Asking
  <2>7. Shown'  BY <1>4 DEF Inv, Shown, Linked
  <2> QED  BY <1>0, <1>1, <1>4, <2>3, <2>4, <2>5, <2>6, <2>7 DEF Inv, Down, Gone
<1> QED  BY <1>3, <1>4 DEF Purge

-----------------------------------------------------------------------------
(* The runs and the process.                                                *)

LEMMA RunInv == ASSUME Inv, NEW t \in Turns, Run(t) PROVE Inv'
<1>0. /\ UNCHANGED <<data, up, route, holder, seen>> /\ lock' \in {lock, lock \cup {t}, lock \ {t}}
      /\ up /\ lock' \subseteq Turns
  BY DEF Run, RunMoves, Command, Commanded, CancelDirectly, DeleteRun, Alone, Reachable,
         Inv, Typed, Down, Silent
<1>1. \/ run' = run /\ live' = live
      \/ /\ run' = [run EXCEPT ![t] = "running"] /\ live' = live \cup {t}
         /\ run[t] \in {"pending", "waiting_approval", "interrupted"}
         /\ t \in live \/ run[t] # "pending"
      \/ /\ live' = live \ {t} /\ \E s \in RunStatus : run' = [run EXCEPT ![t] = s]
         /\ run[t] \in RunStatus
         /\ t \in live \/ holder # [op |-> "launch", turn |-> t]
      \/ live' = live /\ run' = [run EXCEPT ![t] = "gone"] /\ run[t] \in Final
  <2>1. CASE RunMoves(t)  BY <2>1 DEF RunMoves, RunStatus
  <2>2. CASE Command(t) \/ Commanded(t) \/ CancelDirectly(t) \/ DeleteRun(t)
    BY <2>2 DEF Command, Commanded, CancelDirectly, DeleteRun, Reachable, Waiting, RunStatus, Final
  <2> QED  BY <2>1, <2>2 DEF Run
<1>2. run' \in Runs /\ (\A u \in Turns : run'[u] # "none" <=> run[u] # "none")
      /\ (\A u \in Turns \ {t} : run'[u] = run[u]) /\ live' \subseteq Turns
  BY <1>1 DEF Inv, Typed, Runs, RunStatus, Final
<1>3. Typed'  BY <1>0, <1>2 DEF Inv, Typed
<1>4. Agree(data', run')  BY <1>0, <1>2, RunsAgree DEF Inv
<1>5. Working'
  <2>1. \A u \in live' : run'[u] \in {"pending", "running"}
    BY <1>1, <1>2 DEF Inv, Typed, Runs, Working, Final
  <2>2. ASSUME holder = [op |-> "launch", turn |-> t] PROVE run' = run /\ live' = live
    BY <1>1, <2>2 DEF Inv, Working, Final
  <2> QED  BY <1>0, <1>1, <1>2, <2>1, <2>2 DEF Inv, Working
<1>6. Gone'
  BY <1>0, <1>1, <1>2 DEF Inv, Gone, Silent, RunStatus, Final
<1> QED  BY <1>0, <1>3, <1>4, <1>5, <1>6 DEF Inv, Asking, Down, Shown, Linked

LEMMA CrashInv == ASSUME Inv, Crash PROVE Inv'
<1>0. /\ up' = FALSE /\ live' = {} /\ lock' = {} /\ holder' = Free /\ route' = [t \in Turns |-> "none"]
      /\ UNCHANGED <<data, run, seen>>
  BY DEF Crash, tables
<1>1. Typed'  BY <1>0 DEF Inv, Typed
<1>2. Working' /\ Asking'  BY <1>0, NoOpIsFree DEF Working, Asking
<1>3. Down' /\ Gone'  BY <1>0 DEF Inv, Down, Silent, Gone
<1>4. Agree(data', run') /\ Shown'  BY <1>0 DEF Inv, Shown, Linked
<1> QED  BY <1>1, <1>2, <1>3, <1>4 DEF Inv

LEMMA StartInv == ASSUME Inv, Start PROVE Inv'
<1> DEFINE e == TurnsReconciled(run')
           t == data.active
<1>0. /\ ~up /\ up' /\ Silent /\ lock = {} /\ Saved(e) /\ UNCHANGED <<live, lock, route, holder>>
      /\ \E s \in {"waiting_approval", "interrupted", "failed", "completed"} : run' = Reconciled(s)
  BY DEF Start, Inv, Down
<1>1. /\ run' \in Runs
      /\ \A u \in Turns : /\ run'[u] # "none" <=> run[u] # "none"
                          /\ run[u] \in {"none", "gone"} => run'[u] = run[u]
  BY <1>0 DEF Reconciled, Waiting, Inv, Typed, Runs, RunStatus, Final
<1>2. Agree(data, run')  BY <1>1, RunsAgree DEF Inv
<1>3. /\ Agree(e, run') /\ Moved(data, e)
      /\ data.state = "open" => \A u \in Turns : e.turn[u].status # "routing"
  <2>1. CASE t # NoTurn /\ t \notin Linked(data) /\ data.turn[t].status = "routing"
    <3>1. e = Finished(data, t, "failed") /\ t \in Turns /\ "failed" \in Final
      BY <2>1, <1>2 DEF TurnsReconciled, Agree, Data, Final
    <3>2. data.state = "open" => \A u \in Turns \ {t} : data.turn[u].status # "routing"
      BY <1>2 DEF Agree, Unfinished
    <3> QED  BY <1>2, <3>1, <3>2, FinishedAgrees DEF Moved
  <2>2. CASE ~(t # NoTurn /\ t \notin Linked(data) /\ data.turn[t].status = "routing")
    <3>1. e = Synced(data, run')  BY <2>2 DEF TurnsReconciled
    <3>2. /\ Agree(e, run') /\ Moved(data, e)
          /\ data.state = "open" /\ t # NoTurn /\ t \in Linked(data) =>
               \A u \in Turns : e.turn[u].status # "routing"
      BY <1>1, <1>2, <3>1, SyncedAgrees
    <3>3. ASSUME data.state = "open", t = NoTurn \/ t \notin Linked(data)
          PROVE  \A u \in Turns : data.turn[u].status # "routing"
      BY <2>2, <3>3, <1>2, ConversationsAssumption DEF Agree, Unfinished
    <3> QED  BY <3>2, <3>3 DEF Moved
  <2> QED  BY <2>1, <2>2
<1> HIDE DEF e
<1>4. Shown' /\ data' = e /\ seen' \in Screen  BY <1>0, SavedShown DEF Inv
<1>5. Typed' /\ Working'  BY <1>0, <1>1, <1>4, NoOpIsFree DEF Inv, Typed, Working, Silent
<1>6. Asking'  BY <1>0, <1>3, <1>4 DEF Asking, Silent, Moved
<1>7. Gone'  BY <1>0, <1>1, <1>3, <1>4 DEF Inv, Gone, Silent, Moved
<1> QED  BY <1>0, <1>3, <1>4, <1>5, <1>6, <1>7 DEF Inv, Down

LEMMA StepInv == Inv /\ [Next]_vars => Inv'
<1>1. ASSUME Inv, UNCHANGED vars PROVE Inv'
  BY <1>1 DEF vars, tables, memory, Inv, Typed, Working, Asking, Down, Silent, Gone, Shown, Linked
<1> QED
  BY <1>1, PollInv, DeleteInv, PurgeInv, CrashInv, StartInv, SendInv, ConfirmInv, StopInv, TaskInv,
     LaunchInv, HaltedInv, CancelRunInv, RunInv
     DEF Next, Operation

LEMMA Invariance == Spec => []Inv
BY InitInv, StepInv, PTL DEF Spec

(* For any number of turns, crashes and failures: the unfinished turn is    *)
(* the active one, a turn has a run exactly if it is linked to one and is   *)
(* answered at most once, a request shown as under way has a task or is     *)
(* being stopped, and a deletion leaves no run and no task                  *)
(* (conversations/storage.py, ConversationService._sync).                   *)
THEOREM TablesAndRunsAgree == Spec => []TurnsAgree
<1>1. Inv => TurnsAgree
  <2> SUFFICES ASSUME Inv PROVE TurnsAgree  OBVIOUS
  <2>1. data.state = "open" =>
          \A t \in Turns : /\ data.turn[t].status \in Unfinished <=> data.active = t
                           /\ data.turn[t].linked <=> run[t] # "none"
                           /\ data.turn[t].ends <= 1
    BY DEF Inv, Agree
  <2>2. data.state = "open" =>
          \A t \in Turns : up /\ data.turn[t].status = "routing" =>
                             route[t] # "none" \/ holder = [op |-> "halt", turn |-> t]
    BY DEF Inv, Asking, Halting
  <2>3. data.report # NoTurn => data.turn[data.report].status = "completed"  BY DEF Inv, Agree
  <2>4. data.state = "gone" =>
          live = {} /\ \A t \in Turns : run[t] \in {"none", "gone"} /\ route[t] = "none"
    BY DEF Inv, Gone, Silent
  <2> QED  BY <2>1, <2>2, <2>3, <2>4 DEF TurnsAgree
<1> QED  BY <1>1, Invariance, PTL

LEMMA OnlyDeleteDeletes ==
  ASSUME Inv, Next, data.state = "open", data'.state = "deleting"
  PROVE  Delete
<1>0. data \in Data  BY DEF Inv, Agree
<1>1. ASSUME NEW t \in Turns, NEW s \in Final PROVE ~Saved(Finished(data, t, s))
  BY FinishedAgrees DEF Inv, Saved, Moved
<1>2. ASSUME NEW r \in Runs, \A t \in Turns : r[t] # "none" <=> run[t] # "none"
      PROVE  Synced(data, r).state = "open"
  BY <1>2, RunsAgree, SyncedAgrees DEF Inv, Moved
<1>3. ASSUME NEW t \in Turns, Task(t) PROVE FALSE
  <2>1. UNCHANGED data \/ (\E s \in Final : Saved(Finished(data, t, s)))
        \/ \E action \in Actions, base \in Turns \cup {NoTurn} :
             data.active = t /\ data.turn[t].status = "routing" /\ Saved(Decided(t, action, base))
    BY <1>3 DEF Task, Read, Decide, Answer, Ended, Final
  <2> QED  BY <1>1, <2>1, DecidedAgrees DEF Saved
<1>4. ASSUME NEW t \in Turns, Launch(t) \/ CancelRun(t) PROVE FALSE
  <2>1. /\ data' = Synced(data, run')
        /\ \/ run' = run
           \/ (run[t] \in RunStatus \ Final \/ holder = [op |-> "launch", turn |-> t])
              /\ \E s \in {"failed", "interrupted", "cancelled"} : run' = [run EXCEPT ![t] = s]
    BY <1>4 DEF Launch, CancelRun, Waiting
  <2>2. run' \in Runs /\ \A u \in Turns : run'[u] # "none" <=> run[u] # "none"
    BY <2>1 DEF Inv, Typed, Working, Runs, RunStatus, Final
  <2> QED  BY <1>2, <2>1, <2>2
<1>5. ASSUME NEW t \in Turns, Halted(t) \/ Stop(t) PROVE FALSE
  <2>1. UNCHANGED data \/ Saved(Finished(data, t, "cancelled")) \/ data' = Synced(data, run)
    BY <1>5 DEF Halted, Stop, Saved
  <2>2. run \in Runs  BY DEF Inv, Typed
  <2> QED  BY <1>1, <1>2, <2>1, <2>2 DEF Final
<1>6. ASSUME NEW t \in Turns, Confirm(t) \/ (\E base \in Turns \cup {NoTurn} : Send(t, base)) \/ Run(t)
      PROVE  FALSE
  BY <1>0, <1>6 DEF Confirm, Send, Saved, Data, Run, RunMoves, Command, Commanded, CancelDirectly,
                    DeleteRun, Alone
<1>7. CASE Poll
  BY <1>2, <1>7 DEF Poll, Inv, Typed
<1>8. CASE Purge
  BY <1>0, <1>8 DEF Purge, Saved, Emptied, Data
<1>9. CASE Crash \/ Start
  <2>1. CASE Crash  BY <2>1 DEF Crash, tables
  <2>2. CASE Start
    <3>1. run' \in Runs /\ \A t \in Turns : run'[t] # "none" <=> run[t] # "none"
      BY <2>2 DEF Start, Reconciled, Waiting, Inv, Typed, Runs, RunStatus, Final
    <3>2. \/ data' = Finished(data, data.active, "failed") /\ data.active \in Turns
          \/ data' = Synced(data, run')
      BY <1>0, <2>2 DEF Start, Saved, TurnsReconciled, Data
    <3> QED  BY <1>2, <3>1, <3>2, FinishedAgrees DEF Inv, Moved, Final
  <2> QED  BY <1>9, <2>1, <2>2
<1> QED  BY <1>3, <1>4, <1>5, <1>6, <1>7, <1>8, <1>9 DEF Next, Operation

(* A deletion begins only with exactly the runs that were shown to who      *)
(* confirmed it, whatever tasks, runs, crashes and other clients did since  *)
(* (ConversationStore.begin_delete).                                        *)
THEOREM DeletionsAreConfirmed == Spec => DeletionConfirmed
<1> DEFINE Confirmed == data.state = "open" /\ data'.state = "deleting" => seen.runs = Linked(data)
<1>1. Inv /\ [Next]_vars => [Confirmed]_vars
  <2> SUFFICES ASSUME Inv, Next, data.state = "open", data'.state = "deleting"
               PROVE  seen.runs = Linked(data)
    OBVIOUS
  <2>1. Delete  BY OnlyDeleteDeletes
  <2> QED  BY <2>1 DEF Delete, Deletable, Inv, Shown
<1> QED  BY <1>1, Invariance, PTL DEF Spec, DeletionConfirmed
=============================================================================
