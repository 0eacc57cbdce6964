----------------------------- MODULE MCToolStage -----------------------------
(* An instance of ToolStage for TLC: a page reader with a circuit and an    *)
(* itinerary tool with a cap, two researchers, one wave after another.      *)
EXTENDS ToolStage, TLC

PolicyDef ==
  [fetch |-> [caps |-> {"page"}, evidence |-> "web", scoped |-> TRUE, cached |-> TRUE,
              transient |-> FALSE, circuit |-> 2, cap |-> 0],
   itinerary |-> [caps |-> {"route"}, evidence |-> "web", scoped |-> TRUE, cached |-> FALSE,
                  transient |-> TRUE, circuit |-> 0, cap |-> 1]]

Called(t, result) ==
  [by |-> "earlier", call |-> [tool |-> t, target |-> "x"], result |-> result, reused |-> FALSE]
TaskOf(required, groups, fresh) == [required |-> required, groups |-> groups, fresh |-> fresh]
Reader == TaskOf({"page"}, {}, TRUE)
Router == TaskOf({"route"}, {}, FALSE)
Either == TaskOf({}, {{"page", "route"}}, FALSE)
Both == TaskOf({"page", "route"}, {}, TRUE)

Option(tasks, before, tries, turn, run, d, p) ==
  [task |-> tasks, earlier |-> before, attempts |-> tries, turnLimit |-> turn, runLimit |-> run,
   durable |-> d, partial |-> p]
Bounds(tools, n, outcomes, cut) ==
  [calls |-> {c \in Call : c.tool \in tools}, batch |-> n, results |-> outcomes, cuts |-> cut]

(* One researcher with several calls in a stage; one whose answers are cut; *)
(* two at the last units of the budget; two at a failing page.              *)
One(t, before, p) ==
  Option([b \in {"b1"} |-> t], before, 2, 2, 3, TRUE, p)
    @@ Bounds({"fetch", "itinerary", "none"}, 2, Results, FALSE)
Read == <<Called("fetch", "ok")>>
Alone == {One(Both, << >>, TRUE), One(Router, << >>, FALSE), One(Either, Read, FALSE), One(Reader, Read, TRUE)}
Cut ==
  {Option([b \in {"b1"} |-> t], << >>, 2, 1, 2, FALSE, FALSE) @@ Bounds({"fetch", "none"}, 1, Results, TRUE) :
     t \in {Reader, Either}}
Last ==
  {Option([b1 |-> Reader, b2 |-> Either], <<Called("itinerary", "terminal")>>, 1, 2, 3, d, FALSE)
     @@ Bounds({"fetch"}, 2, {"ok", "terminal"}, FALSE) : d \in BOOLEAN}
Failing ==
  {Option([b1 |-> Reader, b2 |-> Reader], <<Called("fetch", "transient")>>, 1, 2, 4, TRUE, FALSE)
     @@ Bounds({"fetch"}, 1, {"ok", "transient"}, FALSE)}
OptionsDef == Alone \cup Cut \cup Last \cup Failing
=============================================================================
