--------------------------- MODULE MCReportReview ---------------------------
(* An instance of ReportReview for TLC: scenarios let the critic, the       *)
(* quality gate and the other operations answer anything in turn.           *)
EXTENDS ReportReview, TLC

Task(id, deps, repairs, fit) == [id |-> id, deps |-> deps, repairs |-> repairs, fit |-> fit]
PlanDef == {Task("t1", {}, {}, TRUE), Task("t2", {"t1"}, {}, TRUE)}
Outcome(a, b) == [t1 |-> a, t2 |-> b]

Located(severity, code, scope, places) == [Issue(severity, code) EXCEPT !.scope = scope, !.at = places]
About(severity, code, t) == [Issue(severity, code) EXCEPT !.task = t]

Critique(decision, issues, new, reason) ==
  [kind |-> "critique", formed |-> TRUE, envelope |-> TRUE, decision |-> decision,
   issues |-> issues, new |-> new, reason |-> reason]
Repair(fit) == Task("t3", {"t1"}, {"t2"}, fit)
Accepts == Critique("accept", {}, {}, "none")
Doubts == Critique("accept", {About("critical", "contradiction", "t2")}, {}, "none")
Critiques ==
  {Accepts, Doubts, [Accepts EXCEPT !.formed = FALSE], [Doubts EXCEPT !.envelope = FALSE],
   Critique("supplement", {}, {Repair(TRUE)}, "none"),
   Critique("supplement", {About("critical", "missing", "t2")}, {Repair(TRUE)}, "none"),
   Critique("supplement", {About("critical", "missing", "t2")}, {Task("t3", {}, {}, TRUE)}, "none"),
   Critique("supplement", {About("warning", "thin", "t1")}, {Task("t3", {"lost"}, {}, TRUE)}, "none"),
   Critique("supplement", {}, {Repair(FALSE)}, "none"),
   Critique("replan", {About("critical", "dependency_dead_end", "t2")}, {}, "dependency_dead_end")}

Quality(decision, score, issues, gap) ==
  [kind |-> "quality", formed |-> TRUE, decision |-> decision, score |-> score,
   issues |-> issues, gap |-> gap]
Good == Quality("accept", 80, {}, FALSE)
Complaints ==
  {{}, {Located("critical", "claim", "core", {"S"})}, {Located("critical", "claim", "core", {})},
   {Located("critical", "claim", "local", {"L"})}, {Located("critical", "claim", "local", {"B"})},
   {Located("critical", "presentation_style", "local", {"B"})},
   {[Issue("critical", "claim") EXCEPT !.quote = {"B"}]}, {Issue("critical", "claim")},
   {Issue("info", FreshCode)}, {Located("info", "claim", "local", {"L"})},
   {Issue("info", CitationCode)}}
Verdicts(issues) ==
  {Good} \cup {Quality(d, 80, issues, FALSE) : d \in {"accept", "revise", "replan"}}

Written1(usable, sloppy, dangling) == [usable |-> usable, sloppy |-> sloppy, dangling |-> dangling]
Fine == Written1(TRUE, FALSE, {})
Texts == {Fine, Written1(TRUE, TRUE, {"B"}), Written1(FALSE, TRUE, {})}

Base ==
  [start |-> "critic", partial |-> TRUE, relaxed |-> TRUE, required |-> 0, fresh |-> FALSE,
   update |-> FALSE, tasks |-> PlanDef, results |-> {Outcome("complete", "accepted")},
   critiques |-> {Accepts}, verdicts |-> {Good}, drafts |-> {Fine}, plans |-> {}, analyses |-> {},
   routes |-> {}, replies |-> {}, reports |-> {"r1", "r2"}, selected |-> "none"]

Critic ==
  {[Base EXCEPT !.relaxed = r, !.required = n, !.critiques = Critiques,
                !.results = {Outcome("complete", x) : x \in {"accepted", "legacy", "partial", "failed"}}
                              \cup {Outcome("failed", "blocked")}] :
     r \in BOOLEAN, n \in {0, 1}}
  \cup {[Base EXCEPT !.partial = FALSE, !.critiques = Critiques]}

Judges(answers, r, f, u) ==
  [Base EXCEPT !.relaxed = r, !.fresh = f, !.update = u, !.critiques = {Doubts},
               !.verdicts = answers, !.drafts = Texts]
Gate ==
  {Judges(Verdicts(i), r, FALSE, FALSE) : i \in Complaints, r \in BOOLEAN}
  \cup {Judges(Verdicts({Issue("info", FreshCode)}), r, TRUE, FALSE) : r \in BOOLEAN}
  \cup {Judges({Good, Quality("accept", 80, {}, TRUE), Quality("accept", 55, {}, FALSE),
                Quality("revise", 55, {Located("info", "claim", "local", {"L"})}, TRUE),
                [Good EXCEPT !.formed = FALSE]}, r, FALSE, TRUE) : r \in BOOLEAN}

Analyses ==
  {[Base EXCEPT !.start = "analysis",
      !.analyses = {[kind |-> "analysis", formed |-> b, findings |-> f, refs |-> r, status |-> s] :
                      b \in BOOLEAN, f \in {<<Placeholder>>, <<"f", "g">>, <<Placeholder, "f", "g">>,
                                            <<"f", Placeholder, "g">>},
                      r \in SUBSET (1..3), s \in {"met", "unmet"}}]}

Plans ==
  {[Base EXCEPT !.start = "plan",
      !.plans = {[kind |-> "plan", formed |-> b, size |-> n, capable |-> c, repairs |-> r] :
                   b \in BOOLEAN, n \in 1..3, c \in BOOLEAN, r \in BOOLEAN}]}

Routes ==
  {[Base EXCEPT !.start = "route", !.selected = s,
      !.routes = {[kind |-> "route", formed |-> b, action |-> a, base |-> r, asks |-> q] :
                    b \in BOOLEAN, a \in {"clarify", "answer", "research", "revise"},
                    r \in {"r1", "r2", "r3", "none"}, q \in BOOLEAN}] : s \in {"r1", "none"}}
Replies ==
  {[Base EXCEPT !.start = "answer",
      !.replies = {[kind |-> "answer", formed |-> b, dangling |-> d, links |-> l] :
                     b \in BOOLEAN, d \in BOOLEAN, l \in BOOLEAN}]}

OptionsDef == Routes \cup Replies \cup Critic \cup Gate \cup Analyses \cup Plans
=============================================================================
