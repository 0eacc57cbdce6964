---------------------------- MODULE ReportReview ----------------------------
(***************************************************************************)
(* The judging half of a research run: the critic reviews the research,    *)
(* the synthesizer writes, the quality gate judges each draft and the      *)
(* finalizer publishes (agents/workflow.py), over the model gateway with   *)
(* all its failures, the acceptance rules of agents/task_quality.py, the   *)
(* deterministic checks of agents/report_quality.py and report_update.py,  *)
(* and the limited publications of agents/report_publication.py and        *)
(* report_delivery.py.                                                     *)
(* A draft has three paragraphs that matter: "S" stands for the summary    *)
(* and the conclusion, "B" for the body, "L" for the declared limitations. *)
(* An issue has a severity, a code, a scope, the paragraphs it names (at), *)
(* the body paragraph its message quotes (quote) and the task it is about. *)
(***************************************************************************)
EXTENDS ModelGateway

CONSTANTS Options,        \* configurations, requests and inputs
          Codes,          \* what a review may call an issue, and
          TaskIds,        \* the tasks it may say it is about
          Threshold,      \* quality_threshold
          MaxSupplements, \* supplement rounds
          MaxRevisions    \* revisions of a report

VARIABLES option,     \* the configuration of this run
          node,       \* the node of the graph that is due
          tasks,      \* the plan, supplements included
          results,    \* task id -> outcome of its research
          rounds,     \* supplement rounds used
          critique,   \* issues of the last decision of the critic
          degraded,   \* the critic was skipped (critic_output_degraded)
          drafts,     \* draft_versions
          verdicts,   \* quality_history: one verdict for each draft judged
          revisions,  \* revision_count
          ending,     \* what the nodes ask of the finalizer
          published   \* what the finalizer published

vars == <<req, option, node, tasks, results, rounds, critique, degraded,
          drafts, verdicts, revisions, ending, published>>

research == <<tasks, results, rounds, critique, degraded>>
report   == <<drafts, verdicts, revisions>>

NoTask == "none"
Body   == {"S", "B"}
Places == Body \cup {"L"}

(* Codes with a meaning for the program.                                    *)
GapCode          == "report_update_missing_content"
FreshCode        == "report_missing_fresh_evidence"
CitationCode     == "report_unknown_citation"
CoreInvariants   == {FreshCode, GapCode}
NonBlockingCodes == {"presentation_style", "report_missing_sections"}
Omissions        == NonBlockingCodes \cup {GapCode}

Rank == [info |-> 0, warning |-> 1, critical |-> 2]

(* What a reviewer may answer and a writer may write.                       *)
Complaint ==
  [severity : DOMAIN Rank, code : Codes \cup CoreInvariants \cup NonBlockingCodes \cup {CitationCode},
   scope : {"core", "local", "presentation", "unknown"}, at : SUBSET Places,
   quote : SUBSET Places, task : TaskIds \cup {NoTask}]

Verdict ==
  [kind : {"quality"}, formed : BOOLEAN, decision : {"accept", "revise", "replan"},
   score : 0..100, issues : SUBSET Complaint, gap : BOOLEAN]

Manuscript == [usable : BOOLEAN, sloppy : BOOLEAN, dangling : SUBSET Places]

(* Callers of the gateway that are modelled in Workflow, ToolStage and      *)
(* Conversations: here they only ask and take the answer.                   *)
Elsewhere == {"plan", "analysis", "route", "answer"}

(* The inputs of a run: each kind of request has answers of its own.        *)
IsOption(o) ==
  /\ {o.partial, o.relaxed, o.fresh, o.update} \subseteq BOOLEAN
  /\ o.start \in {"critic"} \cup Elsewhere /\ o.required \in Nat
  /\ o.verdicts \subseteq Verdict /\ o.drafts \subseteq Manuscript
  /\ \A c \in o.critiques : c.kind = "critique"
  /\ \A c \in o.plans : c.kind = "plan"
  /\ o.analyses \subseteq Analysis
  /\ \A c \in o.routes : c.kind = "route"
  /\ \A c \in o.replies : c.kind = "answer"

ASSUME ReviewAssumption ==
  /\ {Threshold, MaxSupplements, MaxRevisions} \subseteq Nat
  /\ \A o \in Options : IsOption(o)

ReportFirst == option.partial /\ option.relaxed

Init ==
  /\ option \in Options
  /\ node = option.start
  /\ tasks = option.tasks
  /\ results \in option.results
  /\ rounds = 0 /\ critique = {} /\ degraded = FALSE
  /\ drafts = <<>> /\ verdicts = <<>> /\ revisions = 0
  /\ ending = [requested |-> "none", warned |-> FALSE, fatal |-> FALSE,
               fallback |-> FALSE, withhold |-> FALSE]
  /\ published = None
  /\ req = NoRequest

----------------------------------------------------------------------------
(* A node asks the gateway; the request runs, and the node takes its reply  *)
(* up.  The tools these nodes call first are optional (_tool_stage): their  *)
(* failures are history once a report is accepted.                          *)
Asks ==
  CASE node = "critic"      -> "critique"
    [] node = "synthesizer" -> IF revisions = 0 THEN "synthesize" ELSE "revise"
    [] node = "quality_gate" -> "quality"
    [] OTHER                -> node

Ask ==
  /\ node \in {"critic", "synthesizer", "quality_gate"} \cup Elsewhere
  /\ req.reply = "taken"
  /\ req' = Request(Asks)
  /\ UNCHANGED <<option, node, research, report, ending, published>>

Reply(kinds) == req.reply \in kinds /\ req' = [NoRequest EXCEPT !.raw = req.raw]

(* _fatal_update: with reports first, an error of the provider leads to a   *)
(* limited report, of a structured output to one without conclusions.       *)
FatalUpdate(cause) ==
  /\ node' = "finalizer"
  /\ ending' = IF ReportFirst /\ cause \in {"provider", "structured"}
               THEN [ending EXCEPT !.requested = "warnings", !.fallback = TRUE,
                                   !.withhold = cause = "structured"]
               ELSE [ending EXCEPT !.requested = "failed", !.fatal = TRUE]

----------------------------------------------------------------------------
(* The critic.  Outcomes of research: complete; accepted and partial, with  *)
(* the gaps taken or not; legacy without an explicit acceptance; failed;    *)
(* and blocked by a failed dependency.                                      *)
Ids == {t.id : t \in tasks}

Failures == {i \in Ids : results[i] \in {"failed", "blocked"}}

(* repaired_task_ids over the results of certain tasks.                     *)
RepairedBy(ids) ==
  UNION {t.repairs : t \in {u \in tasks : u.id \in ids /\ results[u.id] = "complete" /\ u.fit}}

Repaired == RepairedBy(Ids)

Criticals(c) == {i \in c.issues : i.severity = "critical"}

RoundPending == rounds < option.required

(* CritiqueDecision.validate_route_payload                                  *)
RoutePayload(c) ==
  /\ (c.decision = "supplement") = (c.new # {})
  /\ (c.decision = "replan") = (c.reason # "none")

(* validate_for: the facts the workflow owns.                               *)
FitsContext(c) ==
  /\ RoundPending => c.decision = "supplement"
  /\ c.decision = "supplement" => rounds < MaxSupplements /\ \A t \in c.new : t.id \notin Ids
  /\ c.decision = "replan" =>
       /\ c.reason \in {i.code : i \in Criticals(c)}
       /\ c.reason = "dependency_dead_end" => \E i \in Ids : results[i] = "blocked"

(* validate_local_repairs: fit says that a task keeps the criteria and the  *)
(* navigation of what it repairs.                                           *)
LocalRepairs(c) ==
  c.decision = "supplement" =>
    /\ \A t \in c.new : t.fit /\ t.deps \cap Failures = {} /\ t.repairs \subseteq Ids
    /\ {i.task : i \in Criticals(c)} \cap Ids
         \subseteq Repaired \cup UNION {t.repairs : t \in c.new}

(* formed stands for the counts of the policy as well.                      *)
CritiqueObeys(c) ==
  c.formed /\ c.envelope /\ RoutePayload(c) /\ FitsContext(c) /\ LocalRepairs(c)

CriticAnswers ==
  /\ \E c \in option.critiques : Candidate(c, CritiqueObeys(c), c)
  /\ UNCHANGED <<option, node, research, report, ending, published>>

(* execution_accepted, and what it adds up to with the repairs.             *)
ExecutionAccepted == {i \in Ids : results[i] \in {"complete", "accepted", "legacy"}}

(* accept_noncritical_supplement: an optional improvement is not researched.*)
Optional(c) ==
  /\ option.partial /\ c.decision = "supplement" /\ ~RoundPending
  /\ Ids \subseteq ExecutionAccepted \cup Repaired
  /\ Criticals(c) = {}

(* PlanLineage.with_supplement rebuilds the plan.                           *)
IsPlan(T) == \A t \in T : t.deps \subseteq {u.id : u \in T}

(* Reports first, a demand for a new plan leads to a limited report; when   *)
(* the tool calls or the new plans are used up, so does every demand.       *)
CriticDecides ==
  /\ node = "critic" /\ Reply({"value"})
  /\ LET c == req.value
         supplement == c.decision = "supplement" /\ ~Optional(c)
     IN IF supplement /\ ~IsPlan(tasks \cup c.new)
        THEN FatalUpdate("internal") /\ UNCHANGED research
        ELSE /\ critique' = c.issues
             /\ \/ /\ supplement /\ node' = "research"
                   /\ tasks' = tasks \cup c.new /\ rounds' = rounds + 1
                   /\ UNCHANGED ending
                \/ /\ c.decision = "replan" /\ ~ReportFirst /\ node' = "planner"
                   /\ UNCHANGED <<tasks, rounds, ending>>
                \/ /\ node' = "synthesizer"
                   /\ ending' = [ending EXCEPT !.warned = supplement \/ c.decision = "replan"]
                   /\ UNCHANGED <<tasks, rounds>>
             /\ UNCHANGED <<results, degraded>>
  /\ UNCHANGED <<option, report, published>>

(* The supplement is researched, by modules of their own.                   *)
Supplemented ==
  /\ node = "research" /\ node' = "critic"
  /\ \E outcomes \in [{i \in Ids : i \notin DOMAIN results} -> {"complete", "accepted", "partial"}] :
       results' = [i \in Ids |-> IF i \in DOMAIN results THEN results[i] ELSE outcomes[i]]
  /\ UNCHANGED <<req, option, tasks, rounds, critique, degraded, report, ending, published>>

(* The flag of a candidate (candidate_safety) is set once its issues are    *)
(* found well formed; the review may fall back when every answer was a      *)
(* candidate that broke the contract and every flag is set.                 *)
Flag(c) == c.envelope /\ c.decision \in {"accept", "supplement"} /\ Criticals(c) = {}

Candidates == {k \in DOMAIN req.seen : req.seen[k].kind = "critique"}

FallbackSafeAtLast ==                                            \* mutant
  Candidates = DOMAIN req.seen /\ Flag(Last(req.seen))

FallbackSafe == Candidates = DOMAIN req.seen /\ \A k \in Candidates : Flag(req.seen[k])

(* can_degrade_critic_review: explicit acceptance only.                     *)
MayDegrade ==
  LET accepted == {i \in Ids : results[i] \in {"complete", "accepted"}}
  IN ~RoundPending /\ Ids \subseteq accepted \cup RepairedBy(accepted)

CriticFails ==
  /\ node = "critic" /\ Reply({"structured", "provider", "network"})
  /\ IF req.reply = "structured" /\ option.partial /\ FallbackSafe /\ MayDegrade
     THEN node' = "synthesizer" /\ degraded' = TRUE /\ UNCHANGED ending
     ELSE FatalUpdate(req.reply) /\ UNCHANGED degraded
  /\ UNCHANGED <<option, tasks, results, rounds, critique, report, published>>
----------------------------------------------------------------------------
(* The synthesizer writes a draft: dangling names the paragraphs with a     *)
(* number that is not in the catalogue, sloppy one without its sections.    *)
Writes(op) ==
  /\ req.op = op /\ \E d \in option.drafts : Text(d)
  /\ UNCHANGED <<option, node, research, report, ending, published>>
Synthesizes == Writes("synthesize")
Revises == Writes("revise")

Written ==
  /\ node = "synthesizer" /\ Reply({"value"})
  /\ drafts' = Append(drafts, req.value)
  /\ node' = "quality_gate"
  /\ UNCHANGED <<option, research, verdicts, revisions, ending, published>>

WriterFails ==
  /\ node = "synthesizer" /\ Reply({"provider", "network"})
  /\ FatalUpdate(req.reply)
  /\ UNCHANGED <<option, research, report, published>>

----------------------------------------------------------------------------
(* The quality gate.                                                        *)
Draft == Last(drafts)

Paragraphs(d) == IF d.usable THEN Places ELSE {}

Issue(severity, code) ==
  [severity |-> severity, code |-> code, scope |-> "unknown", at |-> {}, quote |-> {}, task |-> NoTask]

CoveredAdvised(c) ==                                             \* mutant
  IF option.update /\ c.gap
  THEN [c EXCEPT !.issues = {i \in @ : i.code # GapCode} \cup {Issue("warning", GapCode)}]
  ELSE c

(* validate_update_coverage: an update that lost content is not accepted.   *)
Covered(c) ==
  IF option.update /\ c.gap
  THEN [c EXCEPT !.issues = {i \in @ : i.code # GapCode} \cup {Issue("warning", GapCode)},
                 !.decision = IF @ = "accept" THEN "revise" ELSE @]
  ELSE c

(* QualityDecision, and its validate_for_execution.                         *)
Acceptable(c) == c.decision = "accept" => c.score >= 50 /\ Criticals(c) = {}

Concrete(c) ==
  /\ c.decision # "accept" => c.issues # {}
  /\ c.decision = "replan" => Criticals(c) # {}

(* validate_review_locations                                                *)
WellPlaced(c) ==
  \A i \in c.issues : i.at \subseteq Paragraphs(Draft) /\ (i.scope = "local" => i.at # {})

QualityObeys(c) ==
  /\ c.formed /\ Acceptable(c) /\ Concrete(c) /\ WellPlaced(c)
  /\ Covered(c).decision = "accept" => c.score >= Threshold

QualityAnswers ==
  /\ \E c \in option.verdicts : Candidate(c, QualityObeys(c), Covered(c))
  /\ UNCHANGED <<option, node, research, report, ending, published>>

(* calibrate_review_scope: a located local issue is no critical one.        *)
Scaled(i) ==
  IF i.code \in CoreInvariants \/ i.scope # "local" \/ i.at = {} THEN i
  ELSE IF i.at \subseteq {"L"} THEN [i EXCEPT !.severity = "info"]
  ELSE [i EXCEPT !.severity = IF @ = "critical" THEN "warning" ELSE @]

Calibrated(c) ==
  LET scaled == [c EXCEPT !.issues = {Scaled(i) : i \in @}]
  IN IF ~option.relaxed THEN c
     ELSE IF c.decision = "replan" /\ Criticals(scaled) = {}
     THEN [scaled EXCEPT !.decision = "revise"] ELSE scaled

(* audit_report: the deterministic checks.                                  *)
Audit(d) ==
  LET style == IF option.relaxed THEN "info" ELSE "warning"
  IN {i \in {Issue(style, "report_missing_sections")} : d.sloppy}
       \cup {i \in {Issue("warning", CitationCode)} : d.dangling # {}}
       \cup {i \in {Issue("critical", FreshCode)} : option.fresh}

Same(a, i) == a.code = i.code /\ a.task = i.task

(* The stronger one of two issues of one code stays.  The code replaces the *)
(* first weaker one only; any other it leaves blocks no more than the one   *)
(* that replaced the first: it is not critical, and of the same code.       *)
Merged(issues, audit) ==
  LET stronger(a, i) == Rank[a.severity] > Rank[i.severity]
  IN {i \in issues : ~\E a \in audit : Same(a, i) /\ stronger(a, i)}
       \cup {a \in audit : \A i \in issues : Same(a, i) => stronger(a, i)}

NonBlocking(i) ==
  /\ i.severity # "critical" /\ i.code \notin CoreInvariants
  /\ \/ i.code \in NonBlockingCodes
     \/ i.scope = "local" /\ i.severity = "info" /\ i.at # {} /\ i.at \subseteq {"L"}

(* apply_report_audit: a check that fails overrules an acceptance, and only *)
(* what blocks nothing may be accepted although a revision was asked for.   *)
Audited(c) ==
  LET audit  == Audit(Draft)
      merged == Merged(c.issues, audit)
      good   == /\ option.relaxed /\ c.decision = "revise" /\ c.score >= Threshold
                /\ merged # {} /\ \A i \in merged : NonBlocking(i)
      route  == IF good THEN "accept" ELSE c.decision
      blocks == \E a \in audit : ~(option.relaxed /\ NonBlocking(a))
  IN IF audit = {} /\ ~option.relaxed THEN c
     ELSE [c EXCEPT !.issues = merged,
                    !.decision = CASE \E i \in merged : i.severity = "critical" -> "replan"
                                   [] OTHER -> IF blocks /\ route = "accept" THEN "revise" ELSE route]

(* limit_to_report_repair                                                   *)
Limited(c) ==
  IF ReportFirst /\ c.decision = "replan" THEN [c EXCEPT !.decision = "revise"] ELSE c

Finish(requested) ==
  /\ node' = "finalizer"
  /\ ending' = [ending EXCEPT !.requested = requested]
  /\ UNCHANGED revisions

(* The score of what is accepted was compared with the threshold on the way.*)
QualityDecides ==
  /\ node = "quality_gate" /\ Reply({"value"})
  /\ LET v == Limited(Audited(Calibrated(req.value))) IN
       /\ verdicts' = Append(verdicts, v)
       /\ \/ v.decision = "accept" /\ Finish("completed")
          \/ /\ v.decision = "revise" /\ revisions < MaxRevisions
             /\ node' = "synthesizer" /\ revisions' = revisions + 1
             /\ UNCHANGED ending
          \/ v.decision = "revise" /\ revisions = MaxRevisions /\ Finish("warnings")
          \/ v.decision = "replan" /\ Finish("warnings")
          \/ v.decision = "replan" /\ node' = "planner" /\ UNCHANGED <<revisions, ending>>
  /\ UNCHANGED <<option, research, drafts, published>>

QualityFails ==
  /\ node = "quality_gate" /\ Reply({"structured", "provider", "network"})
  /\ FatalUpdate(req.reply)
  /\ UNCHANGED <<option, research, report, published>>

----------------------------------------------------------------------------
(* The finalizer.                                                           *)

(* locate_issue_paragraphs: explicit places, or the body it quotes.         *)
Locate(i, d) == (IF i.at # {} THEN i.at ELSE i.quote) \cap Paragraphs(d)

IssuesOf(k) == IF k \in DOMAIN verdicts THEN verdicts[k].issues ELSE critique

WithheldAsAsked(k) == ending.withhold                            \* mutant

(* A manuscript nobody judged is published without its conclusions.         *)
Withheld(k) == ending.withhold \/ k \notin DOMAIN verdicts

Marked(k) ==
  UNION {Locate(i, drafts[k]) : i \in {j \in IssuesOf(k) : j.severity # "info" /\ j.code \notin Omissions}}

Restricted(k) ==
  \/ Withheld(k)
  \/ \E i \in IssuesOf(k) :
       /\ i.severity = "critical" /\ i.code \notin Omissions
       /\ i.scope = "core" \/ (i.scope = "unknown" /\ Locate(i, drafts[k]) = {})

(* build_warning_publication: what stays in the body; the rest is moved to  *)
(* the limitations.                                                         *)
WarningPublication(k) ==
  [status |-> "warnings", draft |-> k, listed |-> {},
   confirmed |-> Body \ (Marked(k) \cup drafts[k].dangling
                           \cup (IF Restricted(k) THEN {"S"} ELSE {}))]

(* build_delivery_report, without a usable manuscript: the tasks whose      *)
(* supported findings are listed; without a source nothing recent is.       *)
DeliveryReport ==
  LET blocked == {i.task : i \in {j \in IssuesOf(0) : j.severity = "critical"}}
      told == {i \in Ids \ Repaired : results[i] \notin {"failed", "blocked"} /\ ~option.fresh}
  IN [status |-> "warnings", draft |-> 0, confirmed |-> {},
      listed |-> IF ending.withhold \/ NoTask \in blocked THEN {} ELSE told \ blocked]

(* _task_gap_warnings                                                       *)
Gaps == {i \in Ids \ Repaired : results[i] \in {"failed", "blocked", "partial"}}

Plain ==
  [status |-> IF ending.fatal THEN "failed"
              ELSE IF ending.requested = "warnings" \/ ending.warned \/ Gaps # {} THEN "warnings"
              ELSE "completed",
   draft |-> Len(drafts), listed |-> {},
   confirmed |-> IF drafts = <<>> THEN {} ELSE Body]

(* Reports first, a report that was not accepted is published with limits:  *)
(* the last usable manuscript, or the findings alone.                       *)
Finalize ==
  LET rejected == ending.requested = "warnings" /\ verdicts # <<>> /\ Last(verdicts).decision # "accept"
      limited  == ReportFirst /\ ~ending.fatal /\ (ending.fallback \/ rejected)
      usable   == {k \in DOMAIN drafts : drafts[k].usable}
  IN /\ node = "finalizer" /\ node' = "end"
     /\ \/ ~limited /\ published' = Plain
        \/ limited /\ usable = {} /\ published' = DeliveryReport
        \/ /\ limited
           /\ \E k \in usable : (\A j \in usable : j <= k) /\ published' = WarningPublication(k)
     /\ UNCHANGED <<req, option, research, report, ending>>

----------------------------------------------------------------------------
(* The requests of the other callers.                                       *)
PlanAnswers ==
  /\ \E c \in option.plans : Candidate(c, PlanObeys(c), c)
  /\ UNCHANGED <<option, node, research, report, ending, published>>

RouteAnswers ==
  /\ \E c \in option.routes : Candidate(c, RouteObeys(c, option.reports, option.selected), c)
  /\ UNCHANGED <<option, node, research, report, ending, published>>

AnswerAnswers ==
  /\ \E c \in option.replies : Candidate(c, AnswerObeys(c), c)
  /\ UNCHANGED <<option, node, research, report, ending, published>>

AnalysisAnswers ==
  /\ \E c \in option.analyses : Candidate(c, AnalysisObeys(c), Normalised(c))
  /\ UNCHANGED <<option, node, research, report, ending, published>>

Returns ==
  /\ node \in Elsewhere
  /\ Reply({"value", "structured", "provider", "network"})
  /\ node' = "end"
  /\ UNCHANGED <<option, research, report, ending, published>>

Breaks ==
  /\ \/ Dropped \/ Refused(TRUE) \/ Refused(FALSE) \/ Unreadable
     \/ \E kind \in DOMAIN Spoilt : SpoiltAnswer(kind)
  /\ UNCHANGED <<option, node, research, report, ending, published>>

Step ==
  \/ Ask \/ Breaks
  \/ CriticAnswers \/ CriticDecides \/ CriticFails \/ Supplemented
  \/ Synthesizes \/ Revises \/ Written \/ WriterFails
  \/ QualityAnswers \/ QualityDecides \/ QualityFails \/ Finalize
  \/ PlanAnswers \/ AnalysisAnswers \/ RouteAnswers \/ AnswerAnswers \/ Returns

Ended == node \in {"end", "planner"}

Next == Step \/ (Ended /\ UNCHANGED vars)

(* An HTTP attempt has a timeout, and a node that can run is run.           *)
Spec == Init /\ [][Next]_vars /\ WF_vars(Step)

----------------------------------------------------------------------------
(* Properties.                                                              *)

(* The review is skipped only when each answer of its request, and not only *)
(* the last, was well-formed, wanted no new plan and named no critical gap, *)
(* all research is accepted or repaired and no ordered round is missing.    *)
FallbackIsSafe ==
  [](degraded =>
       /\ \A i \in Ids : results[i] \in {"complete", "accepted"} \/ i \in Repaired
       /\ rounds >= option.required)
    /\ [][(~degraded /\ degraded') =>
            \A k \in DOMAIN req.seen :
              /\ req.seen[k].kind = "critique" /\ req.seen[k].decision # "replan"
              /\ \A i \in req.seen[k].issues : i.severity # "critical"]_vars

(* A run that completes without a warning has a last draft whose review     *)
(* gave it a passing score and named no critical issue but a local one of   *)
(* the limitations or of the presentation; no citation dangles, recent data *)
(* have sources, and an update kept the content of its base.                *)
CoreIssueBlocks ==
  (node = "end" /\ published # None /\ published.status = "completed") =>
    LET raw == req.raw
    IN /\ raw.kind = "quality" /\ raw.score >= Threshold /\ published.draft = Len(verdicts)
       /\ \A i \in Criticals(raw) :
            /\ option.relaxed /\ i.scope = "local"
            /\ i.at \subseteq {"L"} \/ i.code \in NonBlockingCodes
       /\ Draft.dangling = {} /\ ~option.fresh /\ ~(option.update /\ raw.gap)

(* What a limited report still asserts was judged: conclusions by a verdict *)
(* on this very draft without a critical core issue, no paragraph a critical*)
(* issue points at, no finding of a task with one, no dangling citation.    *)
PublishedAsReviewed ==
  (node = "end" /\ ReportFirst /\ published # None /\ published.status # "failed") =>
    LET k == published.draft
        disputes(issues) == {i \in issues : i.severity = "critical" /\ i.code \notin Omissions}
    IN /\ "S" \in published.confirmed =>
            /\ k \in DOMAIN verdicts
            /\ \A i \in disputes(verdicts[k].issues) : i.scope # "core"
       /\ k > 0 => published.confirmed
                     \cap (drafts[k].dangling
                              \cup UNION {i.at : i \in disputes(IssuesOf(k))}) = {}
       /\ \A i \in IssuesOf(0) : i.severity = "critical" => i.task \notin published.listed
       /\ published.listed \cap {i \in Ids : results[i] \in {"failed", "blocked"}} = {}

(* Every review ends: retries, repairs, supplements and revisions are all   *)
(* bounded, whatever the provider answers.                                  *)
ReviewEnds == <>Ended
=============================================================================
