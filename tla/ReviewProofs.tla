---------------------------- MODULE ReviewProofs ----------------------------
(***************************************************************************)
(* Proofs about ReportReview: what a report that completes was accepted    *)
(* for, what a limited report may still assert, when the critic may be     *)
(* skipped, that the clean-up of an analysis keeps its support, and that   *)
(* each step uses up a bound, for any answers, failures and bounds.        *)
(*                                                                         *)
(* The argument.  What the rules make of a verdict is followed through the *)
(* four rewritings of the code once (Accepted).  The rest is bookkeeping:  *)
(* the request in progress belongs to the node that is due (Requested),    *)
(* each draft was judged before the next one (Counted), and what leads to  *)
(* the finalizer says what the last verdict was (Closing).  That nothing   *)
(* goes on for ever rests on what is left of six bounds, which every step  *)
(* lessens in the order of Descent (Left).                                 *)
(***************************************************************************)
EXTENDS ReportReview, Descent, FiniteSetTheorems, SequenceTheorems, WellFoundedInduction, TLAPS

Slots  == {"op", "chats", "tries", "failures", "seen", "reply", "value", "raw"}
Asking == {"critic", "synthesizer", "quality_gate"} \cup Elsewhere

Ending == [requested : {"none", "completed", "warnings", "failed"}, warned : BOOLEAN,
           fatal : BOOLEAN, fallback : BOOLEAN, withhold : BOOLEAN]

Typed ==
  /\ option \in Options /\ rounds \in Nat /\ degraded \in BOOLEAN
  /\ node \in Asking \cup {"research", "finalizer", "end", "planner"}
  /\ drafts \in Seq(Manuscript) /\ verdicts \in Seq(Verdict)
  /\ ending \in Ending
  /\ DOMAIN req = Slots

(* The request in progress is that of the node, and its value was accepted. *)
Requested ==
  /\ req.reply # "taken" => node \in Asking /\ req.op = Asks
  /\ req.reply = "value" /\ req.op = "quality" =>
       \E c \in option.verdicts : QualityObeys(c) /\ req.value = Covered(c) /\ req.raw = c
  /\ req.reply = "value" /\ req.op \in TextOps => req.value \in option.drafts

(* Drafts are judged one by one, in their order.                            *)
Counted ==
  /\ node \in {"critic", "research"} \cup Elsewhere => drafts = <<>> /\ verdicts = <<>>
  /\ node = "synthesizer" => Len(drafts) = Len(verdicts)
  /\ node = "quality_gate" => Len(drafts) = Len(verdicts) + 1

(* What an accepted answer of the quality gate, and the verdict made of it, *)
(* have to be.                                                              *)
Earned(c, v) ==
  /\ v.decision = "accept"
  /\ c.kind = "quality" /\ c.score >= Threshold
  /\ \A i \in Criticals(c) :
       /\ option.relaxed /\ i.scope = "local"
       /\ i.at \subseteq {"L"} \/ i.code \in NonBlockingCodes
  /\ Draft.dangling = {} /\ ~option.fresh /\ ~(option.update /\ c.gap)
  /\ option.relaxed => Criticals(v) = {}

Closing ==
  /\ node \notin {"finalizer", "end"} =>
       ending.requested = "none" /\ ~ending.fatal /\ ~ending.fallback /\ published = None
  /\ node = "finalizer" =>
       /\ published = None /\ ending.requested # "none"
       /\ ending.requested = "failed" => ending.fatal
       /\ ending.requested = "completed" =>
            verdicts # <<>> /\ Len(drafts) = Len(verdicts) /\ Earned(req.raw, Last(verdicts))
       /\ ending.requested = "warnings" /\ ~ending.fallback =>
            verdicts # <<>> /\ Last(verdicts).decision # "accept"

Skipped ==
  degraded =>
    /\ node \notin {"critic", "research"} \cup Elsewhere
    /\ \A i \in Ids : results[i] \in {"complete", "accepted"} \/ i \in Repaired
    /\ rounds >= option.required

Inv ==
  /\ Typed /\ Requested /\ Counted /\ Closing /\ Skipped
  /\ CoreIssueBlocks /\ PublishedAsReviewed

LEMMA OptionFacts ==
  ASSUME Typed
  PROVE  /\ option.partial \in BOOLEAN /\ option.relaxed \in BOOLEAN /\ option.fresh \in BOOLEAN
         /\ option.update \in BOOLEAN /\ option.required \in Nat
         /\ option.start \in {"critic"} \cup Elsewhere
         /\ option.verdicts \subseteq Verdict /\ option.drafts \subseteq Manuscript
         /\ Threshold \in Nat
         /\ \A c \in option.critiques \cup option.plans \cup option.analyses \cup option.routes
                        \cup option.replies : c.kind \notin {"quality"} \cup TextOps
<1>1. IsOption(option) /\ Threshold \in Nat  BY ReviewAssumption DEF Typed
<1>2. \A c \in Analysis : c.kind = "analysis"  BY DEF Analysis
<1> QED  BY <1>1, <1>2 DEF Typed, IsOption, Elsewhere, TextOps

-----------------------------------------------------------------------------
(* The rewritings of a verdict.                                             *)

LEMMA IssueType ==
  ASSUME NEW severity \in DOMAIN Rank,
         NEW code \in CoreInvariants \cup NonBlockingCodes \cup {CitationCode}
  PROVE  Issue(severity, code) \in Complaint
BY DEF Issue, Complaint

LEMMA CoveredType ==
  ASSUME NEW c \in Verdict
  PROVE  /\ Covered(c) \in Verdict /\ Covered(c).score = c.score
         /\ ~(option.update /\ c.gap) => Covered(c) = c
         /\ option.update /\ c.gap =>
              Covered(c).decision # "accept" /\ Issue("warning", GapCode) \in Covered(c).issues
<1>1. Issue("warning", GapCode) \in Complaint
  BY IssueType DEF CoreInvariants, Rank
<1> DEFINE issues == {i \in c.issues : i.code # GapCode} \cup {Issue("warning", GapCode)}
           decision == IF c.decision = "accept" THEN "revise" ELSE c.decision
<1>2. issues \in SUBSET Complaint /\ Issue("warning", GapCode) \in issues
  BY <1>1 DEF Verdict, Complaint
<1>3. decision \in {"revise", "replan"}  BY DEF Verdict
<1>4. Covered(c) = IF option.update /\ c.gap THEN [c EXCEPT !.issues = issues, !.decision = decision] ELSE c
  BY DEF Covered, Verdict
<1> HIDE DEF issues, decision
<1> DEFINE one == [c EXCEPT !.issues = issues]
           two == [one EXCEPT !.decision = decision]
<1>5. one \in Verdict /\ one.score = c.score /\ one.issues = issues  BY <1>2 DEF Verdict
<1>6. Covered(c) = IF option.update /\ c.gap THEN two ELSE c  BY <1>4
<1> HIDE DEF one
<1>7. two \in Verdict /\ two.score = one.score /\ two.issues = one.issues /\ two.decision = decision
  BY <1>3, <1>5 DEF Verdict
<1> HIDE DEF two
<1>8. "accept" \notin {"revise", "replan"}  OBVIOUS
<1> QED  BY <1>2, <1>3, <1>5, <1>6, <1>7, <1>8

LEMMA ScaledType ==
  ASSUME NEW i \in Complaint
  PROVE  /\ Scaled(i) \in Complaint /\ Scaled(i).code = i.code /\ Scaled(i).scope = i.scope
         /\ Scaled(i).at = i.at
         /\ i.code \in CoreInvariants => Scaled(i) = i
         /\ i.severity = "critical" /\ Scaled(i).severity # "critical" =>
              /\ i.code \notin CoreInvariants /\ i.scope = "local"
              /\ i.at \subseteq {"L"} \/ Scaled(i).severity = "warning"
BY DEF Scaled, Complaint, Rank

LEMMA CalibratedType ==
  ASSUME Typed, NEW c \in Verdict
  PROVE  /\ Calibrated(c) \in Verdict /\ Calibrated(c).score = c.score
         /\ ~option.relaxed => Calibrated(c) = c
         /\ option.relaxed => Calibrated(c).issues = {Scaled(i) : i \in c.issues}
         /\ Calibrated(c).decision = "accept" => c.decision = "accept"
<1> DEFINE scaled == {Scaled(i) : i \in c.issues}
<1>1. scaled \in SUBSET Complaint  BY ScaledType DEF Verdict, Complaint
<1> DEFINE s == [c EXCEPT !.issues = scaled]
<1>2. s \in Verdict /\ s.score = c.score /\ s.issues = scaled /\ s.decision = c.decision
  BY <1>1 DEF Verdict, Complaint
<1>3. Calibrated(c) = IF ~option.relaxed THEN c
                      ELSE IF c.decision = "replan" /\ Criticals(s) = {}
                      THEN [s EXCEPT !.decision = "revise"] ELSE s
  BY DEF Calibrated
<1> HIDE DEF s, scaled
<1>4. [s EXCEPT !.decision = "revise"] \in Verdict
      /\ [s EXCEPT !.decision = "revise"].score = s.score
      /\ [s EXCEPT !.decision = "revise"].issues = s.issues
      /\ [s EXCEPT !.decision = "revise"].decision = "revise"
  BY <1>2 DEF Verdict
<1> QED  BY <1>2, <1>3, <1>4 DEF scaled

(* The deterministic checks, and what merging does to the strongest issues. *)
LEMMA AuditType ==
  ASSUME Typed, NEW d \in Manuscript
  PROVE  /\ Audit(d) \subseteq Complaint
         /\ option.fresh => Issue("critical", FreshCode) \in Audit(d)
         /\ d.dangling # {} => Issue("warning", CitationCode) \in Audit(d)
         /\ \A a \in Audit(d) : a.code # GapCode
         /\ \A a \in Audit(d) : a.severity = "critical" => a.code = FreshCode
<1>1. /\ Issue("info", "report_missing_sections") \in Complaint
      /\ Issue("warning", "report_missing_sections") \in Complaint
      /\ Issue("warning", CitationCode) \in Complaint
      /\ Issue("critical", FreshCode) \in Complaint
  BY IssueType DEF NonBlockingCodes, CoreInvariants, Rank
<1>2. \A s \in {"info", "warning", "critical"}, c \in {"report_missing_sections", CitationCode, FreshCode} :
        Issue(s, c).code = c /\ Issue(s, c).severity = s
  BY DEF Issue
<1>3. /\ GapCode # "report_missing_sections" /\ GapCode # CitationCode /\ GapCode # FreshCode
      /\ FreshCode # CitationCode
  BY DEF GapCode, CitationCode, FreshCode
<1> QED  BY <1>1, <1>2, <1>3 DEF Audit

LEMMA MergedStays ==
  ASSUME Typed, NEW issues \in SUBSET Complaint, NEW audit \in SUBSET Complaint
  PROVE  /\ Merged(issues, audit) \subseteq Complaint
         /\ \A i \in issues : i.severity = "critical" => i \in Merged(issues, audit)
         /\ \A i \in issues : (\A a \in audit : a.code # i.code) => i \in Merged(issues, audit)
         /\ \A i \in issues : i.severity = "warning" /\ (\A a \in audit : a.severity # "critical") =>
               i \in Merged(issues, audit)
         /\ (\E a \in audit : a.severity = "critical") =>
               \E i \in Merged(issues, audit) : i.severity = "critical"
<1> DEFINE stronger(a, i) == Rank[a.severity] > Rank[i.severity]
<1>1. Merged(issues, audit) = {i \in issues : ~\E a \in audit : Same(a, i) /\ stronger(a, i)}
                               \cup {a \in audit : \A i \in issues : Same(a, i) => stronger(a, i)}
  BY DEF Merged
<1>2. \A a \in Complaint, i \in Complaint :
        /\ i.severity = "critical" => ~stronger(a, i)
        /\ i.severity = "warning" => (stronger(a, i) => a.severity = "critical")
        /\ a.severity = "critical" => (stronger(a, i) \/ i.severity = "critical")
  BY DEF Complaint, Rank
<1> HIDE DEF stronger
<1> QED  BY <1>1, <1>2 DEF Same

(* An answer is accepted only when nothing was found that blocks.           *)
LEMMA Accepted ==
  ASSUME Typed, drafts # <<>>, NEW c \in Verdict, QualityObeys(c)
  PROVE  LET v == Limited(Audited(Calibrated(Covered(c))))
         IN /\ v \in Verdict
            /\ v.decision = "accept" => Earned(c, v)
<1> DEFINE b == Covered(c)
           e == Calibrated(b)
           audit == Audit(Draft)
           merged == Merged(e.issues, audit)
           f == Audited(e)
           v == Limited(f)
<1>draft. Draft \in Manuscript  BY DEF Typed, Draft, Last
<1>option. /\ option.relaxed \in BOOLEAN /\ option.fresh \in BOOLEAN /\ option.update \in BOOLEAN
           /\ c.gap \in BOOLEAN /\ Threshold \in Nat
  BY OptionFacts DEF Verdict
<1>b. /\ b \in Verdict /\ b.score = c.score
      /\ ~(option.update /\ c.gap) => b = c
      /\ option.update /\ c.gap => b.decision # "accept" /\ Issue("warning", GapCode) \in b.issues
  BY CoveredType
<1>e. /\ e \in Verdict /\ e.score = c.score
      /\ ~option.relaxed => e = b
      /\ option.relaxed => e.issues = {Scaled(i) : i \in b.issues}
      /\ e.decision = "accept" => b.decision = "accept"
  BY <1>b, CalibratedType
<1>a. /\ audit \subseteq Complaint
      /\ option.fresh => Issue("critical", FreshCode) \in audit
      /\ Draft.dangling # {} => Issue("warning", CitationCode) \in audit
      /\ \A a \in audit : a.code # GapCode
      /\ \A a \in audit : a.severity = "critical" => a.code = FreshCode
  BY <1>draft, AuditType
<1>issues. e.issues \subseteq Complaint /\ b.issues \subseteq Complaint /\ c.issues \subseteq Complaint
  BY <1>e, <1>b DEF Verdict
<1> HIDE DEF b, e, audit
<1>m. /\ merged \subseteq Complaint
      /\ \A i \in e.issues : i.severity = "critical" => i \in merged
      /\ \A i \in e.issues : (\A a \in audit : a.code # i.code) => i \in merged
      /\ \A i \in e.issues : i.severity = "warning" /\ (\A a \in audit : a.severity # "critical") =>
            i \in merged
      /\ (\E a \in audit : a.severity = "critical") => \E i \in merged : i.severity = "critical"
  BY <1>a, <1>issues, MergedStays
<1> DEFINE good == /\ option.relaxed /\ e.decision = "revise" /\ e.score >= Threshold
                   /\ merged # {} /\ \A i \in merged : NonBlocking(i)
           route == IF good THEN "accept" ELSE e.decision
           blocks == \E a \in audit : ~(option.relaxed /\ NonBlocking(a))
           decision == IF \E i \in merged : i.severity = "critical" THEN "replan"
                       ELSE IF blocks /\ route = "accept" THEN "revise" ELSE route
<1>f. f = IF audit = {} /\ ~option.relaxed THEN e
          ELSE [e EXCEPT !.issues = merged, !.decision = decision]
  BY DEF Audited, audit
<1> HIDE DEF merged
<1>route. route \in {"accept", "revise", "replan"}  BY <1>e DEF Verdict
<1>good. good => option.relaxed /\ e.score >= Threshold /\ \A i \in merged : NonBlocking(i)
  OBVIOUS
<1>accept. route = "accept" => good \/ e.decision = "accept"  OBVIOUS
<1>blocks. ~blocks => \A a \in audit : option.relaxed /\ NonBlocking(a)  OBVIOUS
<1> HIDE DEF good, route, blocks
<1>decision. /\ decision \in {"accept", "revise", "replan"}
             /\ decision = "accept" => /\ \A i \in merged : i.severity # "critical"
                                       /\ route = "accept" /\ ~blocks
  BY <1>route
<1> HIDE DEF decision
<1>type. /\ f \in Verdict
         /\ ~(audit = {} /\ ~option.relaxed) => f.decision = decision /\ f.issues = merged
  BY <1>f, <1>e, <1>m, <1>decision DEF Verdict
<1> HIDE DEF f
<1>v. v \in Verdict /\ (v.decision = "accept" => v = f)
  BY <1>type DEF Limited, Verdict
<1> HIDE DEF v
<1>earned. ASSUME v.decision = "accept" PROVE Earned(c, v)
  <2>1. CASE audit = {} /\ ~option.relaxed
    <3>1. v = b /\ b.decision = "accept"  BY <1>v, <1>f, <1>e, <1>earned, <2>1
    <3>2. ~(option.update /\ c.gap) /\ v = c /\ c.decision = "accept"  BY <1>b, <3>1
    <3>3. c.score >= Threshold /\ Criticals(c) = {}
      BY <3>1, <3>2 DEF QualityObeys, Acceptable, b
    <3>4. c.kind = "quality"  BY DEF Verdict
    <3>5. Draft.dangling = {} /\ ~option.fresh  BY <2>1, <1>a
    <3> QED  BY <2>1, <3>2, <3>3, <3>4, <3>5, <1>earned DEF Earned
  <2>2. CASE ~(audit = {} /\ ~option.relaxed)
    <3>1. /\ v.issues = merged /\ \A i \in merged : i.severity # "critical"
          /\ good \/ e.decision = "accept"
          /\ \A a \in audit : option.relaxed /\ NonBlocking(a)
      BY <1>v, <1>type, <1>earned, <1>decision, <1>accept, <1>blocks, <2>2
    <3>2. \A a \in audit : a.severity # "critical"  BY <1>m, <3>1
    <3>3. ~option.fresh
      <4>1. Issue("critical", FreshCode).severity = "critical"  BY DEF Issue
      <4> QED  BY <4>1, <3>2, <1>a
    <3>4. Draft.dangling = {}
      <4>1. ~NonBlocking(Issue("warning", CitationCode))
        BY DEF NonBlocking, Issue, NonBlockingCodes, CitationCode
      <4> QED  BY <4>1, <3>1, <1>a
    <3>5. ~(option.update /\ c.gap)
      <4> SUFFICES ASSUME option.update /\ c.gap PROVE FALSE  OBVIOUS
      <4> DEFINE lost == Issue("warning", GapCode)
      <4>1. b.decision # "accept" /\ lost \in b.issues  BY <1>b
      <4>2. good /\ option.relaxed  BY <4>1, <3>1, <1>e, <1>good
      <4>3. lost.code = GapCode /\ GapCode \in CoreInvariants  BY DEF Issue, CoreInvariants
      <4>4. Scaled(lost) = lost  BY <4>3 DEF Scaled
      <4>5. lost \in e.issues  BY <4>1, <4>2, <4>4, <1>e
      <4>6. lost \in merged  BY <4>3, <4>5, <1>a, <1>m
      <4> QED  BY <4>2, <4>3, <4>6, <1>good DEF NonBlocking
    <3>6. b = c  BY <3>5, <1>b
    <3>7. c.score >= Threshold
      <4>1. CASE good  BY <4>1, <1>good, <1>e
      <4>2. CASE e.decision = "accept"
        BY <4>2, <3>6, <1>e DEF QualityObeys, b
      <4> QED  BY <3>1, <4>1, <4>2
    <3>8. ASSUME NEW i \in Criticals(c)
          PROVE  /\ option.relaxed /\ i.scope = "local"
                 /\ i.at \subseteq {"L"} \/ i.code \in NonBlockingCodes
      <4>1. c.decision # "accept"  BY DEF QualityObeys, Acceptable
      <4>2. good /\ option.relaxed  BY <4>1, <3>1, <3>6, <1>e, <1>good
      <4>3. i \in b.issues /\ i \in Complaint /\ i.severity = "critical"
        BY <3>6, <1>issues DEF Criticals
      <4>4. Scaled(i) \in e.issues /\ Scaled(i) \in Complaint  BY <4>2, <4>3, <1>e, <1>issues
      <4>5. Scaled(i).severity # "critical"  BY <4>4, <1>m, <3>1
      <4>6. i.scope = "local" /\ (i.at \subseteq {"L"} \/ Scaled(i).severity = "warning")
        BY <4>3, <4>5, ScaledType
      <4>7. ASSUME Scaled(i).severity = "warning" PROVE i.code \in NonBlockingCodes
        <5>1. Scaled(i) \in merged  BY <4>4, <4>7, <3>2, <1>m
        <5>2. NonBlocking(Scaled(i))  BY <5>1, <4>2, <1>good
        <5>3. Scaled(i).code = i.code  BY <4>3, ScaledType
        <5> QED  BY <5>2, <5>3, <4>7 DEF NonBlocking
      <4> QED  BY <4>2, <4>6, <4>7
    <3>9. c.kind = "quality"  BY DEF Verdict
    <3>10. Criticals(v) = {}  BY <3>1 DEF Criticals
    <3> QED  BY <3>3, <3>4, <3>5, <3>7, <3>8, <3>9, <3>10, <1>earned DEF Earned
  <2> QED  BY <2>1, <2>2
<1> QED  BY <1>v, <1>earned DEF v, f, e, b

-----------------------------------------------------------------------------
(* What a request does.                                                     *)

LEMMA RequestType ==
  ASSUME NEW op
  PROVE  /\ DOMAIN Request(op) = Slots /\ Request(op).op = op /\ Request(op).reply = "none"
BY DEF Request, Slots

LEMMA FailedRequest ==
  ASSUME DOMAIN req = Slots, req.reply = "none", NEW bucket, NEW answer
  PROVE  LET r == Failed(req, bucket, answer)
         IN DOMAIN r = Slots /\ r.op = req.op /\ r.reply \in {"none", "structured"}
<1> DEFINE chatted == Chatted(req)
<1>1. DOMAIN chatted = Slots /\ chatted.op = req.op /\ chatted.reply = "none"
  BY DEF Chatted, Slots
<1> DEFINE failures == [chatted.failures EXCEPT ![bucket] = @ + 1]
           seen == IF req.op = "critique" THEN Append(chatted.seen, answer) ELSE chatted.seen
           next == [chatted EXCEPT !.failures = failures, !.seen = seen]
<1>2. Failed(req, bucket, answer) = IF next.failures[bucket] >= 2 \/ next.chats = MaxJsonChats
                                    THEN [next EXCEPT !.reply = "structured"] ELSE next
  BY DEF Failed
<1> HIDE DEF chatted, failures, seen
<1>3. DOMAIN next = Slots /\ next.op = req.op /\ next.reply = "none"  BY <1>1 DEF Slots
<1> HIDE DEF next
<1>4. DOMAIN [next EXCEPT !.reply = "structured"] = Slots
      /\ [next EXCEPT !.reply = "structured"].op = req.op
      /\ [next EXCEPT !.reply = "structured"].reply = "structured"
  BY <1>3 DEF Slots
<1> QED  BY <1>2, <1>3, <1>4

Breaking ==
  Dropped \/ Refused(TRUE) \/ Refused(FALSE) \/ Unreadable \/ \E kind \in DOMAIN Spoilt : SpoiltAnswer(kind)

Broke ==
  /\ req.reply = "none" /\ DOMAIN req' = Slots /\ req'.op = req.op
  /\ req'.reply \in {"none", "structured", "provider", "network"}

LEMMA BrokenRequest ==
  ASSUME DOMAIN req = Slots, Breaking
  PROVE  Broke
<1> USE DEF Broke
<1>1. ASSUME NEW reply
      PROVE  LET r == [req EXCEPT !.reply = reply]
             IN DOMAIN r = Slots /\ r.op = req.op /\ r.reply = reply
  BY DEF Slots
<1>2. DOMAIN Retried = Slots /\ Retried.op = req.op /\ Retried.reply = req.reply
  BY DEF Retried, Slots
<1>3. CASE Dropped  BY <1>1, <1>2, <1>3 DEF Dropped, Pending, Ends
<1>4. ASSUME NEW transient, Refused(transient) PROVE Broke
  BY <1>1, <1>2, <1>4 DEF Refused, Pending, Ends
<1>5. CASE Unreadable  BY <1>1, <1>5 DEF Unreadable, Pending, Ends
<1>6. ASSUME NEW kind, SpoiltAnswer(kind) PROVE Broke
  <2>1. CASE req.op \in JsonOps
    BY <1>6, <2>1, FailedRequest DEF SpoiltAnswer, Pending
  <2>2. CASE req.op \notin JsonOps
    BY <1>6, <2>2 DEF SpoiltAnswer, Pending, Chatted, Slots
  <2> QED  BY <2>1, <2>2
<1> QED  BY <1>3, <1>4, <1>5, <1>6 DEF Breaking

LEMMA CandidateRequest ==
  ASSUME DOMAIN req = Slots, NEW c, NEW obeys, NEW value, Candidate(c, obeys, value)
  PROVE  /\ req.reply = "none" /\ DOMAIN req' = Slots /\ req'.op = req.op /\ req.op = c.kind
         /\ \/ req'.reply \in {"none", "structured"}
            \/ req'.reply = "value" /\ obeys /\ req'.value = value /\ req'.raw = c
<1>1. LET r == [Request(req.op) EXCEPT !.reply = "value", !.value = value, !.raw = c]
      IN DOMAIN r = Slots /\ r.op = req.op /\ r.reply = "value" /\ r.value = value /\ r.raw = c
  BY DEF Request, Slots
<1> QED  BY <1>1, FailedRequest DEF Candidate, Pending

LEMMA TextRequest ==
  ASSUME DOMAIN req = Slots, NEW d, Text(d)
  PROVE  /\ req.reply = "none" /\ DOMAIN req' = Slots /\ req'.op = req.op /\ req.op \in TextOps
         /\ req'.reply = "value" /\ req'.value = d
BY DEF Text, Pending, Request, Slots

LEMMA ReplyRequest ==
  ASSUME DOMAIN req = Slots, NEW kinds, Reply(kinds)
  PROVE  /\ req.reply \in kinds /\ DOMAIN req' = Slots /\ req'.reply = "taken" /\ req'.raw = req.raw
BY DEF Reply, NoRequest, Request, Slots

(* As long as only the request moves, its answers are what has to be shown. *)
State == <<option, node, research, report, ending, published>>

LEMMA OnlyTheRequest ==
  ASSUME Inv, UNCHANGED State, node \in Asking, DOMAIN req' = Slots, req'.op = Asks,
         req'.reply = "value" /\ req'.op = "quality" =>
            \E c \in option.verdicts : QualityObeys(c) /\ req'.value = Covered(c) /\ req'.raw = c,
         req'.reply = "value" /\ req'.op \in TextOps => req'.value \in option.drafts
  PROVE  Inv'
<1> USE DEF State, research, report
<1>1. Asks' = Asks  BY DEF Asks
<1>2. \A c : Covered(c)' = Covered(c) /\ QualityObeys(c)' = QualityObeys(c)
  BY DEF Covered, QualityObeys, Acceptable, Concrete, WellPlaced, Draft, Criticals
<1>3. Typed'  BY DEF Inv, Typed, Slots
<1>4. Requested'  BY <1>1, <1>2 DEF Requested
<1>5. Counted'  BY DEF Inv, Counted
<1>6. node \notin {"finalizer", "end"}  BY DEF Asking, Elsewhere
<1>7. Closing'  BY <1>6 DEF Inv, Closing
<1>8. Skipped'
  BY DEF Inv, Skipped, Ids, Repaired, RepairedBy
<1>9. CoreIssueBlocks' /\ PublishedAsReviewed'
  BY <1>6 DEF CoreIssueBlocks, PublishedAsReviewed
<1> QED  BY <1>3, <1>4, <1>5, <1>7, <1>8, <1>9 DEF Inv

-----------------------------------------------------------------------------
(* The steps.                                                               *)

LEMMA InitInv == Init => Inv
<1> SUFFICES ASSUME Init PROVE Inv  OBVIOUS
<1>1. option \in Options /\ IsOption(option) /\ node = option.start  BY ReviewAssumption DEF Init
<1>2. node \in {"critic"} \cup Elsewhere  BY <1>1 DEF IsOption
<1>3. DOMAIN NoRequest = Slots /\ NoRequest.reply = "taken"  BY DEF NoRequest, Request, Slots
<1>4. drafts = <<>> /\ verdicts = <<>>  BY DEF Init
<1>5. Typed
  <2>1. drafts \in Seq(Manuscript) /\ verdicts \in Seq(Verdict)  BY <1>4
  <2>2. DOMAIN req = Slots  BY <1>3 DEF Init
  <2>3. option \in Options /\ rounds \in Nat /\ degraded \in BOOLEAN /\ node \in Asking
    BY <1>1, <1>2 DEF Init, Asking
  <2>4. ending \in Ending  BY DEF Init, Ending
  <2> QED  BY <2>1, <2>2, <2>3, <2>4 DEF Typed
<1>6. Requested  BY <1>3 DEF Init, Requested
<1>7. Counted /\ Closing  BY <1>2, <1>4 DEF Init, Counted, Closing, Elsewhere
<1>8. Skipped /\ CoreIssueBlocks /\ PublishedAsReviewed
  BY <1>2 DEF Init, Skipped, CoreIssueBlocks, PublishedAsReviewed, Elsewhere
<1> QED  BY <1>5, <1>6, <1>7, <1>8 DEF Inv

Answering ==
  \/ Ask \/ Breaks
  \/ CriticAnswers \/ Synthesizes \/ Revises \/ QualityAnswers
  \/ PlanAnswers \/ AnalysisAnswers \/ RouteAnswers \/ AnswerAnswers

LEMMA AnsweringInv ==
  ASSUME Inv, Answering
  PROVE  Inv'
<1> USE DEF State
<1>1. DOMAIN req = Slots /\ (req.reply # "taken" => node \in Asking /\ req.op = Asks)
  BY DEF Inv, Typed, Requested
<1>2. \A c \in option.critiques \cup option.plans \cup option.analyses \cup option.routes
                 \cup option.replies : c.kind \notin {"quality"} \cup TextOps
  BY OptionFacts DEF Inv
<1>3. "quality" \notin TextOps  BY DEF TextOps
<1>4. CASE Ask
  <2>1. node \in Asking /\ req' = Request(Asks) /\ UNCHANGED State  BY <1>4 DEF Ask, Asking
  <2>2. DOMAIN req' = Slots /\ req'.op = Asks /\ req'.reply = "none"  BY <2>1, RequestType
  <2> QED  BY <2>1, <2>2, OnlyTheRequest
<1>5. CASE Breaks
  <2>1. UNCHANGED State /\ Breaking  BY <1>5 DEF Breaks, Breaking
  <2>2. Broke  BY <1>1, <2>1, BrokenRequest
  <2> QED  BY <1>1, <2>1, <2>2, OnlyTheRequest DEF Broke
<1>6. CASE CriticAnswers \/ PlanAnswers \/ AnalysisAnswers \/ RouteAnswers \/ AnswerAnswers
  <2>1. UNCHANGED State
    BY <1>6 DEF CriticAnswers, PlanAnswers, AnalysisAnswers, RouteAnswers, AnswerAnswers
  <2>2. \E c \in option.critiques \cup option.plans \cup option.analyses \cup option.routes
                   \cup option.replies : \E obeys, value : Candidate(c, obeys, value)
    BY <1>6 DEF CriticAnswers, PlanAnswers, AnalysisAnswers, RouteAnswers, AnswerAnswers
  <2>3. PICK c \in option.critiques \cup option.plans \cup option.analyses \cup option.routes
                     \cup option.replies : \E obeys, value : Candidate(c, obeys, value)
    BY <2>2
  <2>4. PICK obeys, value : Candidate(c, obeys, value)  BY <2>3
  <2>5. req.reply = "none" /\ DOMAIN req' = Slots /\ req'.op = req.op /\ req.op = c.kind
    BY <1>1, <2>4, CandidateRequest
  <2>6. req'.op \notin {"quality"} \cup TextOps  BY <1>2, <2>3, <2>5
  <2> QED  BY <1>1, <2>1, <2>5, <2>6, OnlyTheRequest
<1>7. CASE QualityAnswers
  <2>1. UNCHANGED State  BY <1>7 DEF QualityAnswers
  <2>2. PICK c \in option.verdicts : Candidate(c, QualityObeys(c), Covered(c))
    BY <1>7 DEF QualityAnswers
  <2>3. /\ req.reply = "none" /\ DOMAIN req' = Slots /\ req'.op = req.op /\ req.op = c.kind
        /\ req'.reply = "value" => QualityObeys(c) /\ req'.value = Covered(c) /\ req'.raw = c
    BY <1>1, <2>2, CandidateRequest
  <2>4. c.kind = "quality"  BY <2>2, OptionFacts DEF Inv, Verdict
  <2> QED  BY <1>1, <1>3, <2>1, <2>3, <2>4, OnlyTheRequest
<1>8. CASE Synthesizes \/ Revises
  <2>1. UNCHANGED State  BY <1>8 DEF Synthesizes, Revises, Writes
  <2>2. PICK d \in option.drafts : Text(d)  BY <1>8 DEF Synthesizes, Revises, Writes
  <2>3. /\ req.reply = "none" /\ DOMAIN req' = Slots /\ req'.op = req.op /\ req.op \in TextOps
        /\ req'.value = d
    BY <1>1, <2>2, TextRequest
  <2> QED  BY <1>1, <1>3, <2>1, <2>2, <2>3, OnlyTheRequest
<1> QED  BY <1>4, <1>5, <1>6, <1>7, <1>8 DEF Answering

(* A failure that leads to the finalizer.                                   *)
LEMMA FatalEnding ==
  ASSUME Inv, node \notin {"finalizer", "end"}, NEW cause, FatalUpdate(cause)
  PROVE  /\ node' = "finalizer"
         /\ ending' \in Ending
         /\ \/ ending'.requested = "failed" /\ ending'.fatal
            \/ ending'.requested = "warnings" /\ ending'.fallback
<1> DEFINE withheld == cause = "structured"
<1>1. withheld \in BOOLEAN  OBVIOUS
<1>2. /\ node' = "finalizer"
      /\ \/ ending' = [ending EXCEPT !.requested = "warnings", !.fallback = TRUE, !.withhold = withheld]
         \/ ending' = [ending EXCEPT !.requested = "failed", !.fatal = TRUE]
  BY DEF FatalUpdate
<1> HIDE DEF withheld
<1>3. ending \in Ending  BY DEF Inv, Typed
<1>4. ASSUME ending' = [ending EXCEPT !.requested = "warnings", !.fallback = TRUE, !.withhold = withheld]
      PROVE  ending' \in Ending /\ ending'.requested = "warnings" /\ ending'.fallback
  <2> DEFINE one == [ending EXCEPT !.requested = "warnings"]
             two == [one EXCEPT !.fallback = TRUE]
  <2>1. one \in Ending /\ one.requested = "warnings"  BY <1>3 DEF Ending
  <2> HIDE DEF one
  <2>2. two \in Ending /\ two.requested = "warnings" /\ two.fallback  BY <2>1 DEF Ending
  <2>3. ending' = [two EXCEPT !.withhold = withheld]  BY <1>4 DEF one
  <2> HIDE DEF two
  <2> QED  BY <1>1, <2>2, <2>3 DEF Ending
<1>5. ASSUME ending' = [ending EXCEPT !.requested = "failed", !.fatal = TRUE]
      PROVE  ending' \in Ending /\ ending'.requested = "failed" /\ ending'.fatal
  BY <1>3, <1>5 DEF Ending
<1> QED  BY <1>2, <1>4, <1>5

(* The steps after which a node, other than the finalizer's end, is due.    *)
LEMMA NodeInv ==
  ASSUME Inv, Typed', Counted', Closing', Skipped', req'.reply = "taken", node' # "end"
  PROVE  Inv'
BY DEF Inv, Requested, CoreIssueBlocks, PublishedAsReviewed

LEMMA CriticInv ==
  ASSUME Inv, CriticDecides \/ CriticFails \/ Supplemented
  PROVE  Inv'
<1> USE DEF research, report
<1>1. DOMAIN req = Slots /\ (req.reply # "taken" => node \in Asking)
  BY DEF Inv, Typed, Requested
<1>2. CASE CriticDecides
  <2>1. node = "critic" /\ UNCHANGED <<option, drafts, verdicts, degraded, published>>
    BY <1>2 DEF CriticDecides
  <2>2. DOMAIN req' = Slots /\ req'.reply = "taken"
    BY <1>1, <1>2, ReplyRequest DEF CriticDecides
  <2>3. \/ FatalUpdate("internal") /\ rounds' = rounds
        \/ /\ node' \in {"research", "planner", "synthesizer"} /\ rounds' \in {rounds, rounds + 1}
           /\ \/ ending' = ending
              \/ \E warned \in BOOLEAN : ending' = [ending EXCEPT !.warned = warned]
    BY <1>2 DEF CriticDecides
  <2>4. drafts = <<>> /\ verdicts = <<>> /\ ~degraded /\ published = None
        /\ ending \in Ending /\ ending.requested = "none" /\ ~ending.fatal /\ ~ending.fallback
        /\ rounds \in Nat
    BY <2>1 DEF Inv, Typed, Counted, Closing, Skipped
  <2>5. CASE FatalUpdate("internal") /\ rounds' = rounds
    <3>1. /\ node' = "finalizer" /\ ending' \in Ending
          /\ \/ ending'.requested = "failed" /\ ending'.fatal
             \/ ending'.requested = "warnings" /\ ending'.fallback
      BY <2>1, <2>5, FatalEnding
    <3>2. Typed'  BY <2>1, <2>2, <2>5, <3>1 DEF Inv, Typed
    <3>3. Counted' /\ Closing' /\ Skipped'
      BY <2>1, <2>4, <3>1 DEF Counted, Closing, Skipped, Elsewhere
    <3> QED  BY <2>2, <3>1, <3>2, <3>3, NodeInv
  <2>6. CASE /\ node' \in {"research", "planner", "synthesizer"} /\ rounds' \in {rounds, rounds + 1}
             /\ \/ ending' = ending
                \/ \E warned \in BOOLEAN : ending' = [ending EXCEPT !.warned = warned]
    <3>1. /\ ending' \in Ending /\ ending'.requested = "none" /\ ~ending'.fatal /\ ~ending'.fallback
      BY <2>4, <2>6 DEF Ending
    <3>2. node' \in Asking \cup {"research", "finalizer", "end", "planner"} /\ rounds' \in Nat
      BY <2>4, <2>6 DEF Asking
    <3>3. Typed'  BY <2>1, <2>2, <3>1, <3>2 DEF Inv, Typed
    <3>4. Counted' /\ Closing' /\ Skipped'
      BY <2>1, <2>4, <2>6, <3>1 DEF Counted, Closing, Skipped, Elsewhere
    <3> QED  BY <2>2, <2>6, <3>3, <3>4, NodeInv
  <2> QED  BY <2>3, <2>5, <2>6
<1>3. CASE CriticFails
  <2>1. node = "critic" /\ UNCHANGED <<option, tasks, results, rounds, drafts, verdicts, published>>
    BY <1>3 DEF CriticFails
  <2>2. DOMAIN req' = Slots /\ req'.reply = "taken"
    BY <1>1, <1>3, ReplyRequest DEF CriticFails
  <2>3. drafts = <<>> /\ verdicts = <<>> /\ ~degraded /\ published = None
        /\ ending \in Ending /\ ending.requested = "none" /\ ~ending.fatal /\ ~ending.fallback
        /\ rounds \in Nat /\ option.required \in Nat
    BY <2>1, OptionFacts DEF Inv, Typed, Counted, Closing, Skipped
  <2>4. \/ MayDegrade /\ node' = "synthesizer" /\ degraded' = TRUE /\ UNCHANGED ending
        \/ degraded' = degraded /\ \E cause : FatalUpdate(cause)
    BY <1>3 DEF CriticFails
  <2>5. CASE MayDegrade /\ node' = "synthesizer" /\ degraded' = TRUE /\ UNCHANGED ending
    <3>1. /\ rounds >= option.required
          /\ \A i \in Ids : results[i] \in {"complete", "accepted"} \/ i \in Repaired
      <4> DEFINE accepted == {i \in Ids : results[i] \in {"complete", "accepted"}}
      <4>1. ~(rounds < option.required) /\ Ids \subseteq accepted \cup RepairedBy(accepted)
        BY <2>5 DEF MayDegrade, RoundPending
      <4>2. RepairedBy(accepted) \subseteq Repaired  BY DEF Repaired, RepairedBy
      <4>3. rounds >= option.required  BY <2>3, <4>1
      <4> HIDE DEF accepted
      <4>4. \A i \in Ids : i \in accepted \/ i \in Repaired  BY <4>1, <4>2
      <4> QED  BY <4>3, <4>4 DEF accepted
    <3>2. Skipped'
      BY <2>1, <2>5, <3>1 DEF Skipped, Elsewhere, Ids, Repaired, RepairedBy
    <3>3. Typed'  BY <2>1, <2>2, <2>5 DEF Inv, Typed, Asking
    <3>4. Counted' /\ Closing'
      BY <2>1, <2>3, <2>5 DEF Counted, Closing, Elsewhere
    <3> QED  BY <2>2, <2>5, <3>2, <3>3, <3>4, NodeInv
  <2>6. ASSUME degraded' = degraded, NEW cause, FatalUpdate(cause) PROVE Inv'
    <3>1. /\ node' = "finalizer" /\ ending' \in Ending
          /\ \/ ending'.requested = "failed" /\ ending'.fatal
             \/ ending'.requested = "warnings" /\ ending'.fallback
      BY <2>1, <2>6, FatalEnding
    <3>2. Typed'  BY <2>1, <2>2, <2>6, <3>1 DEF Inv, Typed
    <3>3. Counted' /\ Closing' /\ Skipped'
      BY <2>1, <2>3, <2>6, <3>1 DEF Counted, Closing, Skipped, Elsewhere
    <3> QED  BY <2>2, <3>1, <3>2, <3>3, NodeInv
  <2> QED  BY <2>4, <2>5, <2>6
<1>4. CASE Supplemented
  <2>1. /\ node = "research" /\ node' = "critic"
        /\ UNCHANGED <<req, option, rounds, degraded, drafts, verdicts, ending, published>>
    BY <1>4 DEF Supplemented
  <2>2. req.reply = "taken"  BY <1>1, <2>1 DEF Asking, Elsewhere
  <2>3. Typed'  BY <2>1 DEF Inv, Typed, Asking
  <2>4. Counted' /\ Closing' /\ Skipped'
    BY <2>1 DEF Inv, Counted, Closing, Skipped
  <2> QED  BY <2>1, <2>2, <2>3, <2>4, NodeInv
<1> QED  BY <1>2, <1>3, <1>4

LEMMA WriterInv ==
  ASSUME Inv, Written \/ WriterFails
  PROVE  Inv'
<1> USE DEF research, report
<1>1. DOMAIN req = Slots /\ (req.reply # "taken" => node \in Asking /\ req.op = Asks)
  BY DEF Inv, Typed, Requested
<1>2. /\ node = "synthesizer" /\ UNCHANGED <<option, tasks, results, rounds, degraded, verdicts, published>>
      /\ DOMAIN req' = Slots /\ req'.reply = "taken"
      /\ req.reply # "taken"
  BY <1>1, ReplyRequest DEF Written, WriterFails
<1>3. /\ Len(drafts) = Len(verdicts) /\ published = None /\ ending.requested = "none"
      /\ ~ending.fatal /\ ~ending.fallback /\ drafts \in Seq(Manuscript) /\ Len(verdicts) \in Nat
  BY <1>2 DEF Inv, Typed, Counted, Closing
<1>4. Skipped'
  <2>1. node' \in {"quality_gate", "finalizer"}  BY DEF Written, WriterFails, FatalUpdate
  <2> QED  BY <1>2, <2>1 DEF Inv, Skipped, Elsewhere, Ids, Repaired, RepairedBy
<1>5. CASE Written
  <2>1. req.value \in option.drafts
    <3>1. req.reply = "value"  BY <1>1, <1>5, ReplyRequest DEF Written
    <3>2. req.op \in TextOps  BY <1>1, <1>2 DEF Asks, TextOps
    <3> QED  BY <3>1, <3>2 DEF Inv, Requested
  <2>2. req.value \in Manuscript  BY <2>1, OptionFacts DEF Inv
  <2>3. drafts' \in Seq(Manuscript) /\ Len(drafts') = Len(drafts) + 1
    BY <1>3, <1>5, <2>2 DEF Written
  <2>4. Typed'  BY <1>2, <1>5, <2>3 DEF Inv, Typed, Written, Asking
  <2>5. Counted' /\ Closing'
    BY <1>2, <1>3, <1>5, <2>3 DEF Written, Counted, Closing, Elsewhere
  <2> QED  BY <1>2, <1>4, <1>5, <2>4, <2>5, NodeInv DEF Written
<1>6. CASE WriterFails
  <2>1. /\ node' = "finalizer" /\ ending' \in Ending /\ drafts' = drafts
        /\ \/ ending'.requested = "failed" /\ ending'.fatal
           \/ ending'.requested = "warnings" /\ ending'.fallback
    BY <1>2, <1>6, FatalEnding DEF WriterFails
  <2>2. Typed'  BY <1>2, <2>1 DEF Inv, Typed
  <2>3. Counted' /\ Closing'  BY <1>2, <1>3, <2>1 DEF Counted, Closing, Elsewhere
  <2> QED  BY <1>2, <1>4, <2>1, <2>2, <2>3, NodeInv
<1> QED  BY <1>5, <1>6

LEMMA QualityInv ==
  ASSUME Inv, QualityDecides \/ QualityFails
  PROVE  Inv'
<1> USE DEF research, report
<1>1. DOMAIN req = Slots /\ (req.reply # "taken" => node \in Asking /\ req.op = Asks)
  BY DEF Inv, Typed, Requested
<1>2. /\ node = "quality_gate" /\ UNCHANGED <<option, tasks, results, rounds, degraded, drafts, published>>
      /\ DOMAIN req' = Slots /\ req'.reply = "taken" /\ req'.raw = req.raw
      /\ req.reply # "taken"
  BY <1>1, ReplyRequest DEF QualityDecides, QualityFails
<1>3. /\ Len(drafts) = Len(verdicts) + 1 /\ published = None /\ ending.requested = "none"
      /\ ~ending.fatal /\ ~ending.fallback /\ ending \in Ending
      /\ drafts \in Seq(Manuscript) /\ verdicts \in Seq(Verdict)
      /\ Len(verdicts) \in Nat
  BY <1>2 DEF Inv, Typed, Counted, Closing
<1>4. Skipped'
  <2>1. node' \in {"synthesizer", "planner", "finalizer"}
    BY DEF QualityDecides, QualityFails, FatalUpdate, Finish
  <2> QED  BY <1>2, <2>1 DEF Inv, Skipped, Elsewhere, Ids, Repaired, RepairedBy
<1>5. CASE QualityDecides
  <2>1. PICK c \in option.verdicts : QualityObeys(c) /\ req.value = Covered(c) /\ req.raw = c
    <3>1. req.reply = "value"  BY <1>1, <1>5, ReplyRequest DEF QualityDecides
    <3>2. req.op = "quality"  BY <1>1, <1>2 DEF Asks
    <3> QED  BY <3>1, <3>2 DEF Inv, Requested
  <2> DEFINE v == Limited(Audited(Calibrated(req.value)))
  <2>2. v \in Verdict /\ (v.decision = "accept" => Earned(c, v))
    <3>1. c \in Verdict /\ Typed  BY OptionFacts DEF Inv
    <3>2. drafts # <<>>  BY <1>3
    <3> QED  BY <2>1, <3>1, <3>2, Accepted
  <2>3. /\ verdicts' = Append(verdicts, v)
        /\ \/ v.decision = "accept" /\ Finish("completed")
           \/ node' \in {"synthesizer", "planner"} /\ ending' = ending
           \/ v.decision # "accept" /\ Finish("warnings")
    <3>1. "accept" # "revise" /\ "accept" # "replan"  OBVIOUS
    <3> QED  BY <1>5, <3>1 DEF QualityDecides
  <2> HIDE DEF v
  <2>4. /\ verdicts' \in Seq(Verdict) /\ Len(verdicts') = Len(verdicts) + 1 /\ verdicts' # <<>>
        /\ Last(verdicts') = v
    BY <1>3, <2>2, <2>3 DEF Last
  <2>5. /\ ending' \in Ending /\ ending'.fatal = ending.fatal /\ ending'.fallback = ending.fallback
        /\ \/ node' = "finalizer" /\ ending'.requested = "completed" /\ v.decision = "accept"
           \/ node' \in {"synthesizer", "planner"} /\ ending'.requested = "none"
           \/ node' = "finalizer" /\ ending'.requested = "warnings" /\ v.decision # "accept"
    <3>1. ASSUME NEW r \in {"completed", "warnings"}, Finish(r)
          PROVE  /\ node' = "finalizer" /\ ending' \in Ending /\ ending'.requested = r
                 /\ ending'.fatal = ending.fatal /\ ending'.fallback = ending.fallback
      BY <1>3, <3>1 DEF Finish, Ending
    <3> QED  BY <1>3, <2>3, <3>1
  <2>6. Typed'
    <3>1. node' \in Asking \cup {"research", "finalizer", "end", "planner"}  BY <2>5 DEF Asking
    <3> QED  BY <1>2, <2>4, <2>5, <3>1 DEF Inv, Typed
  <2>7. Counted'  BY <1>2, <1>3, <2>4, <2>5 DEF Counted, Elsewhere
  <2>8. v.decision = "accept" => Earned(req.raw, Last(verdicts))'
    <3>1. Draft' = Draft  BY <1>2 DEF Draft
    <3> QED  BY <1>2, <2>1, <2>2, <2>4, <3>1 DEF Earned, Criticals
  <2>9. Closing'  BY <1>2, <1>3, <2>4, <2>5, <2>8 DEF Closing
  <2> QED  BY <1>2, <1>4, <2>5, <2>6, <2>7, <2>9, NodeInv
<1>6. CASE QualityFails
  <2>1. verdicts' = verdicts /\ FatalUpdate(req.reply)  BY <1>6 DEF QualityFails
  <2>2. /\ node' = "finalizer" /\ ending' \in Ending
        /\ \/ ending'.requested = "failed" /\ ending'.fatal
           \/ ending'.requested = "warnings" /\ ending'.fallback
    BY <1>2, <2>1, FatalEnding
  <2>3. Typed'  BY <1>2, <2>1, <2>2 DEF Inv, Typed
  <2>4. Counted' /\ Closing'  BY <1>2, <1>3, <2>2 DEF Counted, Closing, Elsewhere
  <2> QED  BY <1>2, <1>4, <2>2, <2>3, <2>4, NodeInv
<1> QED  BY <1>5, <1>6

(* What the finalizer publishes.                                            *)
Disputes(issues) == {i \in issues : i.severity = "critical" /\ i.code \notin Omissions}

Fair(p) ==
  LET k == p.draft
  IN /\ "S" \in p.confirmed =>
          k \in DOMAIN verdicts /\ \A i \in Disputes(verdicts[k].issues) : i.scope # "core"
     /\ k > 0 => p.confirmed \cap (drafts[k].dangling \cup UNION {i.at : i \in Disputes(IssuesOf(k))}) = {}
     /\ \A i \in IssuesOf(0) : i.severity = "critical" => i.task \notin p.listed
     /\ p.listed \cap {i \in Ids : results[i] \in {"failed", "blocked"}} = {}

LEMMA WarningIsFair ==
  ASSUME NEW k \in DOMAIN drafts, drafts[k].usable
  PROVE  /\ WarningPublication(k).status = "warnings" /\ Fair(WarningPublication(k))
<1> DEFINE p == WarningPublication(k)
<1>1. /\ p.status = "warnings" /\ p.draft = k /\ p.listed = {}
      /\ p.confirmed = Body \ (Marked(k) \cup drafts[k].dangling \cup (IF Restricted(k) THEN {"S"} ELSE {}))
  BY DEF WarningPublication
<1> HIDE DEF p
<1>2. ASSUME "S" \in p.confirmed
      PROVE  k \in DOMAIN verdicts /\ \A i \in Disputes(verdicts[k].issues) : i.scope # "core"
  <2>1. ~Restricted(k)  BY <1>1, <1>2
  <2>2. k \in DOMAIN verdicts  BY <2>1 DEF Restricted, Withheld
  <2> QED  BY <2>1, <2>2 DEF Restricted, Disputes, IssuesOf
<1>3. ASSUME NEW x \in p.confirmed, NEW i \in Disputes(IssuesOf(k)), x \in i.at
      PROVE  FALSE
  <2>1. x \in Paragraphs(drafts[k])  BY <1>1, <1>3 DEF Paragraphs, Places
  <2>2. x \in Locate(i, drafts[k])  BY <1>3, <2>1 DEF Locate
  <2>3. x \in Marked(k)  BY <1>3, <2>2 DEF Marked, Disputes
  <2> QED  BY <1>1, <1>3, <2>3
<1>4. p.confirmed \cap drafts[k].dangling = {}  BY <1>1
<1> QED  BY <1>1, <1>2, <1>3, <1>4 DEF Fair, p

LEMMA DeliveryIsFair ==
  ASSUME verdicts \in Seq(Verdict)
  PROVE  /\ DeliveryReport.status = "warnings" /\ Fair(DeliveryReport)
<1> DEFINE p == DeliveryReport
<1>1. /\ p.status = "warnings" /\ p.draft = 0 /\ p.confirmed = {}
      /\ \A i \in p.listed : /\ i \in Ids /\ results[i] \notin {"failed", "blocked"}
                             /\ i \notin {j.task : j \in {q \in IssuesOf(0) : q.severity = "critical"}}
  BY DEF DeliveryReport
<1> HIDE DEF p
<1>2. \A i \in IssuesOf(0) : i.severity = "critical" => i.task \notin p.listed  BY <1>1
<1> QED  BY <1>1, <1>2 DEF Fair, p

LEMMA FinalizeInv ==
  ASSUME Inv, Finalize
  PROVE  Inv'
<1> USE DEF research, report
<1>1. /\ node = "finalizer" /\ node' = "end"
      /\ UNCHANGED <<req, option, tasks, results, rounds, critique, degraded, drafts, verdicts, ending>>
  BY DEF Finalize
<1>2. Typed'  BY <1>1 DEF Inv, Typed
<1>3. Requested'
  <2>1. req.reply = "taken"  BY <1>1 DEF Inv, Requested, Asking, Elsewhere
  <2> QED  BY <1>1, <2>1 DEF Requested
<1>4. Counted' /\ Closing'  BY <1>1 DEF Counted, Closing, Elsewhere
<1>5. Skipped'  BY <1>1 DEF Inv, Skipped, Elsewhere, Ids, Repaired, RepairedBy
<1> DEFINE rejected == ending.requested = "warnings" /\ verdicts # <<>> /\ Last(verdicts).decision # "accept"
           limited == ReportFirst /\ ~ending.fatal /\ (ending.fallback \/ rejected)
           usable == {k \in DOMAIN drafts : drafts[k].usable}
<1>6. \/ ~limited /\ published' = Plain
      \/ published' = DeliveryReport
      \/ \E k \in usable : published' = WarningPublication(k)
  BY DEF Finalize
<1>7. CASE published' = DeliveryReport \/ \E k \in usable : published' = WarningPublication(k)
  <2>1. published'.status = "warnings" /\ Fair(published')
    BY <1>7, WarningIsFair, DeliveryIsFair DEF Inv, Typed
  <2>2. Fair(published)'
    BY <1>1, <2>1 DEF Fair, IssuesOf, Ids, Disputes
  <2> QED  BY <1>2, <1>3, <1>4, <1>5, <2>1, <2>2
           DEF Inv, CoreIssueBlocks, PublishedAsReviewed, Fair, Disputes
<1>8. CASE ~limited /\ published' = Plain
  <2>1. /\ published'.status = IF ending.fatal THEN "failed"
                               ELSE IF ending.requested = "warnings" \/ ending.warned \/ Gaps # {} THEN "warnings"
                               ELSE "completed"
        /\ published'.draft = Len(drafts) /\ published'.listed = {}
        /\ published'.confirmed \subseteq Body
    BY <1>8 DEF Plain
  <2>2. /\ ending.requested \in {"completed", "warnings", "failed"}
        /\ ending.requested = "failed" => ending.fatal
        /\ ending.requested = "completed" =>
             verdicts # <<>> /\ Len(drafts) = Len(verdicts) /\ Earned(req.raw, Last(verdicts))
        /\ ending.requested = "warnings" /\ ~ending.fallback => rejected
        /\ verdicts \in Seq(Verdict) /\ drafts \in Seq(Manuscript)
    BY <1>1 DEF Inv, Typed, Ending, Closing
  <2>3. CoreIssueBlocks'
    <3> SUFFICES ASSUME published'.status = "completed" PROVE CoreIssueBlocks'
      BY DEF CoreIssueBlocks
    <3>1. ending.requested = "completed"  BY <2>1, <2>2
    <3>2. Draft' = Draft  BY <1>1 DEF Draft
    <3> QED  BY <1>1, <2>1, <2>2, <3>1, <3>2 DEF CoreIssueBlocks, Earned, Criticals
  <2>4. PublishedAsReviewed'
    <3> SUFFICES ASSUME ReportFirst, published'.status # "failed" PROVE Fair(published')
      <4>1. Fair(published)' = Fair(published')  BY <1>1 DEF Fair, IssuesOf, Ids, Disputes
      <4>2. ReportFirst' = ReportFirst  BY <1>1 DEF ReportFirst
      <4> QED  BY <4>1, <4>2 DEF PublishedAsReviewed, Fair, Disputes
    <3>1. ending.requested = "completed"
      <4>1. ~ending.fatal  BY <2>1
      <4> QED  BY <1>8, <2>2, <4>1
    <3> DEFINE k == Len(drafts)
    <3>2. /\ k \in DOMAIN verdicts /\ verdicts[k] = Last(verdicts) /\ drafts[k] = Draft
      BY <2>2, <3>1 DEF Last, Draft
    <3>3. Disputes(verdicts[k].issues) = {} /\ drafts[k].dangling = {}
      BY <2>2, <3>1, <3>2 DEF Earned, ReportFirst, Criticals, Disputes
    <3>4. IssuesOf(k) = verdicts[k].issues  BY <3>2 DEF IssuesOf
    <3> HIDE DEF k
    <3>5. published'.draft = k  BY <2>1 DEF k
    <3> QED  BY <2>1, <3>2, <3>3, <3>4, <3>5 DEF Fair
  <2> QED  BY <1>2, <1>3, <1>4, <1>5, <2>3, <2>4 DEF Inv
<1> QED  BY <1>6, <1>7, <1>8

LEMMA RestInv ==
  ASSUME Inv, Returns \/ UNCHANGED vars
  PROVE  Inv'
<1> USE DEF research, report
<1>1. CASE Returns
  <2>1. node \in Elsewhere /\ node' = "end" /\ UNCHANGED <<option, research, report, ending, published>>
    BY <1>1 DEF Returns
  <2>2. DOMAIN req' = Slots /\ req'.reply = "taken"
    BY <1>1, ReplyRequest DEF Inv, Typed, Returns
  <2>3. Typed'  BY <2>1, <2>2 DEF Inv, Typed
  <2>4. published = None /\ node \notin {"finalizer", "end"} /\ ~degraded
    BY <2>1 DEF Inv, Closing, Skipped, Elsewhere
  <2>5. Requested'  BY <2>2 DEF Requested
  <2>6. Counted' /\ Closing' /\ Skipped'
    BY <2>1, <2>4 DEF Counted, Closing, Skipped, Elsewhere
  <2>7. CoreIssueBlocks' /\ PublishedAsReviewed'
    BY <2>1, <2>4 DEF CoreIssueBlocks, PublishedAsReviewed
  <2> QED  BY <2>3, <2>5, <2>6, <2>7 DEF Inv
<1>2. CASE UNCHANGED vars
  <2> USE <1>2 DEF vars
  <2>1. Typed' /\ Counted' /\ Skipped'
    BY DEF Inv, Typed, Counted, Skipped, Ids, Repaired, RepairedBy
  <2>2. Draft' = Draft /\ Asks' = Asks  BY DEF Draft, Asks
  <2>3. \A c : Covered(c)' = Covered(c) /\ QualityObeys(c)' = QualityObeys(c)
    BY <2>2 DEF Covered, QualityObeys, Acceptable, Concrete, WellPlaced, Criticals
  <2>4. Requested'  BY <2>2, <2>3 DEF Inv, Requested
  <2>5. Closing'  BY <2>2 DEF Inv, Closing, Earned, Criticals
  <2>6. CoreIssueBlocks'  BY <2>2 DEF Inv, CoreIssueBlocks, Criticals
  <2>7. PublishedAsReviewed'
    BY DEF Inv, PublishedAsReviewed, ReportFirst, IssuesOf, Ids
  <2> QED  BY <2>1, <2>4, <2>5, <2>6, <2>7 DEF Inv
<1> QED  BY <1>1, <1>2

LEMMA StepInv == Inv /\ [Next]_vars => Inv'
<1> SUFFICES ASSUME Inv, [Next]_vars PROVE Inv'  OBVIOUS
<1>1. \/ Answering \/ CriticDecides \/ CriticFails \/ Supplemented \/ Written \/ WriterFails
      \/ QualityDecides \/ QualityFails \/ Finalize \/ Returns \/ UNCHANGED vars
  BY DEF Next, Step, Answering
<1> QED  BY <1>1, AnsweringInv, CriticInv, WriterInv, QualityInv, FinalizeInv, RestInv

-----------------------------------------------------------------------------

(* A run that completes without a warning has a last draft that was judged, *)
(* scored and found free of critical issues and dangling citations, whatever*)
(* the four rewritings of the verdict (coverage of an update, scope, audit, *)
(* repair only) did to it (_quality_gate, _finalizer).                      *)
THEOREM CompletionIsReviewed == Spec => []CoreIssueBlocks
<1>1. Inv => CoreIssueBlocks  BY DEF Inv
<1> QED  BY InitInv, StepInv, <1>1, PTL DEF Spec

(* What a limited report still asserts was judged, and nothing a critical   *)
(* issue points at is among it (build_warning_publication,                  *)
(* build_delivery_report).                                                  *)
THEOREM LimitsAreKept == Spec => []PublishedAsReviewed
<1>1. Inv => PublishedAsReviewed  BY DEF Inv
<1> QED  BY InitInv, StepInv, <1>1, PTL DEF Spec

(* The critic is skipped only after answers none of which named a critical  *)
(* gap or wanted a new plan, with all research accepted and no ordered round*)
(* missing, and nothing of this changes until the report is published       *)
(* (review_research, can_degrade_critic_review).                            *)
THEOREM SkippingIsSafe == Spec => FallbackIsSafe
<1> DEFINE Safe == ~degraded /\ degraded' =>
                     \A k \in DOMAIN req.seen :
                       /\ req.seen[k].kind = "critique" /\ req.seen[k].decision # "replan"
                       /\ \A i \in req.seen[k].issues : i.severity # "critical"
           Holds == degraded =>
                      /\ \A i \in Ids : results[i] \in {"complete", "accepted"} \/ i \in Repaired
                      /\ rounds >= option.required
<1>1. Inv => Holds  BY DEF Inv, Skipped
<1>2. Inv /\ [Next]_vars => [Safe]_vars
  <2> SUFFICES ASSUME Inv, Next, ~degraded, degraded' PROVE Safe  OBVIOUS
  <2>1. CriticFails /\ FallbackSafe
    BY DEF Next, Step, Ask, Breaks, CriticAnswers, CriticDecides, CriticFails, Supplemented,
           Synthesizes, Revises, Writes, Written, WriterFails, QualityAnswers, QualityDecides,
           QualityFails, Finalize, PlanAnswers, AnalysisAnswers, RouteAnswers, AnswerAnswers,
           Returns, research, report, vars
  <2>2. \A k \in DOMAIN req.seen : req.seen[k].kind = "critique" /\ Flag(req.seen[k])
    BY <2>1 DEF FallbackSafe, Candidates
  <2> QED  BY <2>2 DEF Flag, Criticals
<1> HIDE DEF Safe, Holds
<1>3. Spec => []Holds /\ [][Safe]_vars  BY InitInv, StepInv, <1>1, <1>2, PTL DEF Spec
<1> QED  BY <1>3, PTL DEF FallbackIsSafe, Safe, Holds

-----------------------------------------------------------------------------
(* The findings of an analysis.                                             *)

(* A set of naturals that is not empty has a least element: the form in     *)
(* which the proofs below make an induction.                                *)
LEMMA LeastNatural ==
  ASSUME NEW T \in SUBSET Nat, T # {}
  PROVE  \E n \in T : \A k \in T : n <= k
<1> DEFINE below == {ss \in Nat \X Nat : ss[1] < ss[2]}
<1>1. IsWellFoundedOn(below, Nat)  BY NatLessThanWellFounded DEF OpToRel
<1> HIDE DEF below
<1>2. PICK n \in T : \A k \in T : <<k, n>> \notin below  BY <1>1, WFMin
<1>3. \A k \in T : ~(k < n) /\ k \in Nat /\ n \in Nat  BY <1>2 DEF below
<1> QED  BY <1>3

Ordered(s) == \A k, m \in DOMAIN s : k < m => s[k] < s[m]

(* A finite set of naturals can be listed in its order: its least element   *)
(* comes first, and the others follow by induction on their number.         *)
LEMMA OrderedListing ==
  ASSUME NEW S \in SUBSET Nat, IsFiniteSet(S)
  PROVE  \E s \in Bijection(1..Cardinality(S), S) : Ordered(s)
<1> DEFINE Listed(U) == \E s \in Bijection(1..Cardinality(U), U) : Ordered(s)
           T == {n \in Nat : \E U \in SUBSET Nat : IsFiniteSet(U) /\ Cardinality(U) = n /\ ~Listed(U)}
<1> HIDE DEF Listed
<1>1. ASSUME T # {} PROVE FALSE
  <2>1. PICK n \in T : \A k \in T : n <= k  BY <1>1, LeastNatural
  <2>2. PICK U \in SUBSET Nat : IsFiniteSet(U) /\ Cardinality(U) = n /\ ~Listed(U)  BY <2>1
  <2>3. CASE U = {}
    <3>1. Cardinality(U) = 0  BY <2>3, FS_EmptySet
    <3>2. <<>> \in Bijection(1..0, {}) /\ Ordered(<<>>)
      BY DEF Bijection, Injection, Surjection, IsInjective, Ordered
    <3> QED  BY <2>2, <2>3, <3>1, <3>2 DEF Listed
  <2>4. CASE U # {}
    <3>1. PICK x \in U : \A y \in U : x <= y  BY <2>4, LeastNatural
    <3> DEFINE V == U \ {x}
    <3>2. IsFiniteSet(V) /\ Cardinality(V) = n - 1 /\ V \in SUBSET Nat
      BY <2>2, <3>1, FS_RemoveElement
    <3>3. n \in Nat /\ n - 1 \in Nat  BY <2>1, <3>2, FS_CardinalityType
    <3>4. Listed(V)
      <4>1. n - 1 \notin T  BY <2>1, <3>3
      <4> QED  BY <3>2, <3>3, <4>1
    <3>5. PICK t \in Bijection(1..(n - 1), V) : Ordered(t)  BY <3>2, <3>4 DEF Listed
    <3>6. /\ t \in [1..(n - 1) -> V] /\ \A y \in V : \E k \in 1..(n - 1) : t[k] = y
          /\ \A k, m \in 1..(n - 1) : t[k] = t[m] => k = m
          /\ \A k, m \in 1..(n - 1) : k < m => t[k] < t[m]
      BY <3>5 DEF Bijection, Injection, Surjection, IsInjective, Ordered
    <3> DEFINE s == [k \in 1..n |-> IF k = 1 THEN x ELSE t[k - 1]]
    <3>7. \A k \in 1..n : k # 1 => k - 1 \in 1..(n - 1) /\ t[k - 1] \in V  BY <3>3, <3>6
    <3>8. s \in [1..n -> U]  BY <3>1, <3>7
    <3>9. \A k, m \in 1..n : k < m => s[k] < s[m]
      <4> SUFFICES ASSUME NEW k \in 1..n, NEW m \in 1..n, k < m PROVE s[k] < s[m]  OBVIOUS
      <4>1. m # 1 /\ s[m] = t[m - 1] /\ m - 1 \in 1..(n - 1) /\ t[m - 1] \in V  BY <3>3, <3>7
      <4>2. CASE k = 1
        <5>1. x <= t[m - 1] /\ t[m - 1] # x /\ x \in Nat /\ t[m - 1] \in Nat  BY <3>1, <3>2, <4>1
        <5> QED  BY <4>1, <4>2, <5>1
      <4>3. CASE k # 1
        <5>1. k - 1 \in 1..(n - 1) /\ k - 1 < m - 1  BY <3>3, <3>7, <4>3
        <5> QED  BY <3>6, <4>1, <4>3, <5>1
      <4> QED  BY <4>2, <4>3
    <3>10. \A y \in U : \E k \in 1..n : s[k] = y
      <4> SUFFICES ASSUME NEW y \in U PROVE \E k \in 1..n : s[k] = y  OBVIOUS
      <4>1. CASE y = x
        <5>1. n # 0  BY <2>2, <2>4, FS_EmptySet
        <5>2. 1 \in 1..n  BY <3>3, <5>1
        <5> QED  BY <4>1, <5>2
      <4>2. CASE y # x
        <5>1. PICK k \in 1..(n - 1) : t[k] = y  BY <3>6, <4>2
        <5>2. k + 1 \in 1..n /\ k + 1 # 1 /\ (k + 1) - 1 = k  BY <3>3, <5>1
        <5> QED  BY <5>1, <5>2
      <4> QED  BY <4>1, <4>2
    <3>11. \A k, m \in 1..n : s[k] = s[m] => k = m
      <4> SUFFICES ASSUME NEW k \in 1..n, NEW m \in 1..n, s[k] = s[m], k # m PROVE FALSE  OBVIOUS
      <4>1. s[k] \in Nat /\ s[m] \in Nat  BY <3>8
      <4>2. k < m \/ m < k  BY <3>3
      <4>3. s[k] < s[m] \/ s[m] < s[k]  BY <3>9, <4>2
      <4> QED  BY <4>1, <4>3
    <3> HIDE DEF s
    <3>12. s \in Bijection(1..n, U) /\ Ordered(s)
      BY <3>8, <3>9, <3>10, <3>11 DEF Bijection, Injection, Surjection, IsInjective, Ordered
    <3> QED  BY <2>2, <3>12 DEF Listed
  <2> QED  BY <2>3, <2>4
<1>2. Cardinality(S) \in Nat  BY FS_CardinalityType
<1>3. Listed(S)  BY <1>1, <1>2
<1> QED  BY <1>3 DEF Listed

LEMMA RetainedList ==
  ASSUME NEW c \in Analysis
  PROVE  LET n == Cardinality(Said(c)) IN
         /\ n \in Nat
         /\ Retained(c) \in [1..n -> Said(c)]
         /\ \A i \in Said(c) : \E k \in 1..n : Retained(c)[k] = i
<1>1. Said(c) \in SUBSET Nat /\ IsFiniteSet(Said(c))
  <2>1. c.findings \in Seq(STRING)  BY DEF Analysis
  <2>2. Len(c.findings) \in Nat /\ DOMAIN c.findings = 1..Len(c.findings)  BY <2>1
  <2>3. IsFiniteSet(1..Len(c.findings))  BY <2>2, FS_Interval
  <2>4. Said(c) \in SUBSET (1..Len(c.findings))  BY <2>2 DEF Said
  <2> QED  BY <2>2, <2>3, <2>4, FS_Subset
<1> DEFINE n == Cardinality(Said(c))
<1>2. n \in Nat  BY <1>1, FS_CardinalityType
<1>3. \E s \in Bijection(1..n, Said(c)) : Ordered(s)  BY <1>1, OrderedListing
<1>4. Retained(c) \in Bijection(1..n, Said(c))  BY <1>3 DEF Retained, Ordered
<1> QED  BY <1>2, <1>4 DEF Bijection, Surjection

Named(c) == {c.findings[i] : i \in c.refs \cap DOMAIN c.findings}

(* What the clean-up makes of an analysis that obeys its contract: every    *)
(* reference that stays names the same finding as before.                   *)
LEMMA NormalisedKeeps ==
  ASSUME NEW c \in Analysis, AnalysisObeys(c)
  PROVE  LET v == Normalised(c) IN
         /\ v.refs \subseteq Positions(v)
         /\ Named(v) = Named(c) \ {Placeholder}
         /\ v.status # "unmet" => Named(v) # {}
<1> DEFINE v == Normalised(c)
           n == Cardinality(Said(c))
           r == Retained(c)
<1>1. n \in Nat /\ r \in [1..n -> Said(c)] /\ \A i \in Said(c) : \E k \in 1..n : r[k] = i
  BY RetainedList
<1> DEFINE list == [k \in DOMAIN r |-> c.findings[r[k]]]
           refs == {Moved(c, i) : i \in c.refs \cap Said(c)}
           one == [c EXCEPT !.findings = list]
<1>2. v = [one EXCEPT !.refs = refs]  BY DEF Normalised
<1> HIDE DEF list, refs
<1>3. v.findings = list /\ v.refs = refs /\ v.status = c.status  BY <1>2 DEF Analysis
<1>4. \A i \in Said(c) : Moved(c, i) \in 1..n /\ r[Moved(c, i)] = i
  <2> SUFFICES ASSUME NEW i \in Said(c) PROVE Moved(c, i) \in 1..n /\ r[Moved(c, i)] = i  OBVIOUS
  <2>1. \E k \in DOMAIN r : r[k] = i  BY <1>1
  <2>2. Moved(c, i) \in DOMAIN r /\ r[Moved(c, i)] = i  BY <2>1 DEF Moved
  <2> QED  BY <1>1, <2>2
<1>5. DOMAIN list = 1..n /\ \A k \in 1..n : list[k] = c.findings[r[k]]  BY <1>1 DEF list
<1>6. v.refs \subseteq Positions(v)  BY <1>3, <1>4, <1>5 DEF refs, Positions
<1>7. \A i \in Said(c) : list[Moved(c, i)] = c.findings[i]  BY <1>4, <1>5
<1>8. Named(v) = {list[k] : k \in refs}  BY <1>3, <1>6 DEF Named, Positions
<1>9. Named(v) = {c.findings[i] : i \in c.refs \cap Said(c)}  BY <1>7, <1>8 DEF refs
<1>10. Named(v) = Named(c) \ {Placeholder}  BY <1>9 DEF Named, Said
<1>11. v.status # "unmet" => Named(v) # {}
  BY <1>3, <1>9 DEF AnalysisObeys, Supported
<1> QED  BY <1>6, <1>10, <1>11

(* The value of an analysis request is the clean-up of an answer that obeyed*)
(* its contract.                                                            *)
Backed ==
  req.op = "analysis" /\ req.value # None =>
    /\ req.raw \in Analysis /\ AnalysisObeys(req.raw) /\ req.value = Normalised(req.raw)

LEMMA BackedInit == Init => Backed
BY DEF Init, NoRequest, Request, Backed

LEMMA FailedValue ==
  ASSUME DOMAIN req = Slots, NEW bucket, NEW answer
  PROVE  LET r == Failed(req, bucket, answer)
         IN r.op = req.op /\ r.value = req.value /\ r.raw = req.raw
<1> DEFINE chatted == Chatted(req)
<1>1. DOMAIN chatted = Slots /\ chatted.op = req.op /\ chatted.value = req.value /\ chatted.raw = req.raw
  BY DEF Chatted, Slots
<1> DEFINE failures == [chatted.failures EXCEPT ![bucket] = @ + 1]
           seen == IF req.op = "critique" THEN Append(chatted.seen, answer) ELSE chatted.seen
           next == [chatted EXCEPT !.failures = failures, !.seen = seen]
<1>2. Failed(req, bucket, answer) = IF next.failures[bucket] >= 2 \/ next.chats = MaxJsonChats
                                    THEN [next EXCEPT !.reply = "structured"] ELSE next
  BY DEF Failed
<1> HIDE DEF chatted, failures, seen
<1>3. DOMAIN next = Slots /\ next.op = req.op /\ next.value = req.value /\ next.raw = req.raw
  BY <1>1 DEF Slots
<1> HIDE DEF next
<1>4. LET r == [next EXCEPT !.reply = "structured"]
      IN r.op = req.op /\ r.value = req.value /\ r.raw = req.raw
  BY <1>3 DEF Slots
<1> QED  BY <1>2, <1>3, <1>4

LEMMA BackedCandidate ==
  ASSUME Inv, Backed, NEW c, NEW obeys, NEW value, Candidate(c, obeys, value),
         c.kind = "analysis" => c \in Analysis /\ value = Normalised(c) /\ obeys = AnalysisObeys(c)
  PROVE  Backed'
<1>1. DOMAIN req = Slots  BY DEF Inv, Typed
<1> DEFINE r == [Request(req.op) EXCEPT !.reply = "value", !.value = value, !.raw = c]
<1>2. r.op = req.op /\ r.value = value /\ r.raw = c  BY DEF Request
<1>3. CASE obeys /\ req' = r
  BY <1>2, <1>3 DEF Backed, Candidate
<1>4. CASE req' = Failed(req, "validation", c)
  <2>1. req'.op = req.op /\ req'.value = req.value /\ req'.raw = req.raw  BY <1>1, <1>4, FailedValue
  <2> QED  BY <2>1 DEF Backed
<1> QED  BY <1>3, <1>4 DEF Candidate

LEMMA BackedStep == Inv /\ Backed /\ [Next]_vars => Backed'
<1> SUFFICES ASSUME Inv, Backed, [Next]_vars PROVE Backed'  OBVIOUS
<1>1. DOMAIN req = Slots  BY DEF Inv, Typed
<1>2. option.analyses \subseteq Analysis
      /\ \A c \in option.critiques \cup option.plans \cup option.routes \cup option.replies
                    \cup option.verdicts : c.kind # "analysis"
  BY ReviewAssumption DEF Inv, Typed, IsOption, Verdict
<1>3. ASSUME req'.op = req.op, req'.value = req.value, req'.raw = req.raw PROVE Backed'
  BY <1>3 DEF Backed
<1>4. ASSUME NEW op, req' = Request(op) PROVE Backed'
  BY <1>4 DEF Backed, Request
<1>5. ASSUME NEW kinds, Reply(kinds) PROVE Backed'
  <2>1. req'.op = "none"  BY <1>5 DEF Reply, NoRequest, Request
  <2> QED  BY <2>1 DEF Backed
<1>6. CASE Ask  BY <1>4, <1>6 DEF Ask
<1>7. CASE Breaks
  <2>1. ASSUME NEW reply
        PROVE  LET r == [req EXCEPT !.reply = reply]
               IN r.op = req.op /\ r.value = req.value /\ r.raw = req.raw
    BY <1>1 DEF Slots
  <2>2. Retried.op = req.op /\ Retried.value = req.value /\ Retried.raw = req.raw
    BY <1>1 DEF Retried, Slots
  <2>3. CASE Dropped \/ Refused(TRUE) \/ Refused(FALSE) \/ Unreadable
    BY <1>3, <2>1, <2>2, <2>3 DEF Dropped, Refused, Unreadable, Ends
  <2>4. ASSUME NEW kind, SpoiltAnswer(kind) PROVE Backed'
    <3>1. CASE req.op \in JsonOps
      BY <1>1, <1>3, <2>4, <3>1, FailedValue DEF SpoiltAnswer
    <3>2. CASE req.op \notin JsonOps
      BY <1>1, <1>3, <2>4, <3>2 DEF SpoiltAnswer, Chatted, Slots
    <3> QED  BY <3>1, <3>2
  <2> QED  BY <1>7, <2>3, <2>4 DEF Breaks
<1>8. CASE CriticAnswers \/ QualityAnswers \/ PlanAnswers \/ RouteAnswers \/ AnswerAnswers
  <2>1. PICK c \in option.critiques \cup option.plans \cup option.routes \cup option.replies
                     \cup option.verdicts : \E obeys, value : Candidate(c, obeys, value)
    BY <1>8 DEF CriticAnswers, QualityAnswers, PlanAnswers, RouteAnswers, AnswerAnswers
  <2> QED  BY <1>2, <2>1, BackedCandidate
<1>9. CASE AnalysisAnswers
  BY <1>2, <1>9, BackedCandidate DEF AnalysisAnswers
<1>10. CASE Synthesizes \/ Revises
  <2>1. PICK d : Text(d)  BY <1>10 DEF Synthesizes, Revises, Writes
  <2>2. req'.op = req.op /\ req.op \in TextOps  BY <2>1 DEF Text, Request
  <2> QED  BY <2>2 DEF TextOps, Backed
<1>11. CASE CriticDecides \/ CriticFails \/ Written \/ WriterFails \/ QualityDecides \/ QualityFails \/ Returns
  BY <1>5, <1>11 DEF CriticDecides, CriticFails, Written, WriterFails, QualityDecides, QualityFails, Returns
<1>12. CASE Supplemented \/ Finalize \/ UNCHANGED vars
  BY <1>3, <1>12 DEF Supplemented, Finalize, vars
<1> QED  BY <1>6, <1>7, <1>8, <1>9, <1>10, <1>11, <1>12 DEF Next, Step

(* After the clean-up of an analysis its assessment rests on exactly the    *)
(* findings it named that say something, and on one at least unless the     *)
(* criterion is unmet, whatever the answer and the failures before it       *)
(* (normalize_research_output, validate_task_result).                       *)
THEOREM SupportStays == Spec => []SupportKept
<1>1. Backed => SupportKept
  <2> SUFFICES ASSUME Backed, req.op = "analysis", req.value # None PROVE SupportKept
    BY DEF SupportKept
  <2>1. req.raw \in Analysis /\ AnalysisObeys(req.raw) /\ req.value = Normalised(req.raw)  BY DEF Backed
  <2> QED  BY <2>1, NormalisedKeeps DEF SupportKept, Named
<1> QED  BY InitInv, StepInv, BackedInit, BackedStep, <1>1, PTL DEF Spec

-----------------------------------------------------------------------------
(* What is left of the bounds.                                              *)

(* The tuples of a set whose number at k is the least.                      *)
Least(T, k) == {t \in T : \A u \in T : t[k] <= u[k]}

LEMMA LeastTuples ==
  ASSUME NEW T \in SUBSET Tuples, T # {}, NEW k \in 1..6
  PROVE  Least(T, k) \in SUBSET Tuples /\ Least(T, k) # {} /\ Least(T, k) \subseteq T
<1> DEFINE N == {t[k] : t \in T}
<1>1. N \in SUBSET Nat /\ N # {}  BY DEF Tuples
<1>2. PICK n \in N : \A m \in N : n <= m  BY <1>1, LeastNatural
<1>3. PICK t \in T : t[k] = n  BY <1>2
<1>4. t \in Least(T, k)  BY <1>2, <1>3 DEF Least
<1> QED  BY <1>4 DEF Least

(* What is left of six bounds cannot descend for ever: of any such tuples,  *)
(* one has no other below it (the loops of gather, _request_json, _post and *)
(* the graph of the report).                                                *)
THEOREM DescentEnds ==
  ASSUME NEW T \in SUBSET Tuples, T # {}
  PROVE  \E t \in T : \A u \in T : ~Below(u, t)
<1> DEFINE T1 == Least(T, 1)   T2 == Least(T1, 2)   T3 == Least(T2, 3)
           T4 == Least(T3, 4)  T5 == Least(T4, 5)   T6 == Least(T5, 6)
<1>1. T1 \in SUBSET Tuples /\ T1 # {} /\ T1 \subseteq T  BY LeastTuples
<1> HIDE DEF T1
<1>2. T2 \in SUBSET Tuples /\ T2 # {} /\ T2 \subseteq T1  BY <1>1, LeastTuples
<1> HIDE DEF T2
<1>3. T3 \in SUBSET Tuples /\ T3 # {} /\ T3 \subseteq T2  BY <1>2, LeastTuples
<1> HIDE DEF T3
<1>4. T4 \in SUBSET Tuples /\ T4 # {} /\ T4 \subseteq T3  BY <1>3, LeastTuples
<1> HIDE DEF T4
<1>5. T5 \in SUBSET Tuples /\ T5 # {} /\ T5 \subseteq T4  BY <1>4, LeastTuples
<1> HIDE DEF T5
<1>6. T6 \in SUBSET Tuples /\ T6 # {} /\ T6 \subseteq T5  BY <1>5, LeastTuples
<1> HIDE DEF T6
<1>7. PICK t \in T6 : TRUE  BY <1>6
<1>8. /\ t \in T /\ t \in T1 /\ t \in T2 /\ t \in T3 /\ t \in T4 /\ t \in T5 /\ t \in T6
      /\ t \in Tuples /\ DOMAIN t = 1..6
  BY <1>1, <1>2, <1>3, <1>4, <1>5, <1>6, <1>7 DEF Tuples
<1>9. ASSUME NEW u \in T, Below(u, t) PROVE FALSE
  <2>0. u \in Tuples  OBVIOUS
  <2>1. PICK k \in 1..6 : u[k] < t[k] /\ \A j \in 1..6 : j < k => u[j] = t[j]
    BY <1>8, <1>9 DEF Below
  <2>2. \A j \in 1..6 : u[j] \in Nat /\ t[j] \in Nat  BY <1>8, <2>0 DEF Tuples
  <2>3. u[1] = t[1] => u \in T1  BY <1>8 DEF T1, Least
  <2>4. u \in T1 /\ u[2] = t[2] => u \in T2  BY <1>8 DEF T2, Least
  <2>5. u \in T2 /\ u[3] = t[3] => u \in T3  BY <1>8 DEF T3, Least
  <2>6. u \in T3 /\ u[4] = t[4] => u \in T4  BY <1>8 DEF T4, Least
  <2>7. u \in T4 /\ u[5] = t[5] => u \in T5  BY <1>8 DEF T5, Least
  <2>8. /\ t[1] <= u[1]
        /\ u \in T1 => t[2] <= u[2]
        /\ u \in T2 => t[3] <= u[3]
        /\ u \in T3 => t[4] <= u[4]
        /\ u \in T4 => t[5] <= u[5]
        /\ u \in T5 => t[6] <= u[6]
    BY <1>8 DEF T1, T2, T3, T4, T5, T6, Least
  <2> QED  BY <2>1, <2>2, <2>3, <2>4, <2>5, <2>6, <2>7, <2>8
<1> QED  BY <1>8, <1>9

LEMMA BelowAt ==
  ASSUME NEW a1, NEW a2, NEW a3, NEW a4, NEW a5, NEW a6,
         NEW b1, NEW b2, NEW b3, NEW b4, NEW b5, NEW b6,
         \/ b1 < a1
         \/ b1 = a1 /\ b2 < a2
         \/ b1 = a1 /\ b2 = a2 /\ b3 < a3
         \/ b1 = a1 /\ b2 = a2 /\ b3 = a3 /\ b4 < a4
         \/ b1 = a1 /\ b2 = a2 /\ b3 = a3 /\ b4 = a4 /\ b5 < a5
         \/ b1 = a1 /\ b2 = a2 /\ b3 = a3 /\ b4 = a4 /\ b5 = a5 /\ b6 < a6
  PROVE  Below(<<b1, b2, b3, b4, b5, b6>>, <<a1, a2, a3, a4, a5, a6>>)
<1> DEFINE u == <<b1, b2, b3, b4, b5, b6>>
           v == <<a1, a2, a3, a4, a5, a6>>
<1>1. /\ u[1] = b1 /\ u[2] = b2 /\ u[3] = b3 /\ u[4] = b4 /\ u[5] = b5 /\ u[6] = b6
      /\ v[1] = a1 /\ v[2] = a2 /\ v[3] = a3 /\ v[4] = a4 /\ v[5] = a5 /\ v[6] = a6
      /\ DOMAIN v = 1..6
  OBVIOUS
<1> HIDE DEF u, v
<1>2. ASSUME NEW k \in 1..6, u[k] < v[k], \A j \in 1..6 : j < k => u[j] = v[j]
      PROVE  Below(u, v)
  BY <1>1, <1>2 DEF Below
<1>3. Below(u, v)
  <2>1. CASE b1 < a1  BY <1>1, <1>2, <2>1
  <2>2. CASE b1 = a1 /\ b2 < a2
    <3>1. \A j \in 1..6 : j < 2 => u[j] = v[j]  BY <1>1, <2>2
    <3> QED  BY <1>1, <1>2, <2>2, <3>1
  <2>3. CASE b1 = a1 /\ b2 = a2 /\ b3 < a3
    <3>1. \A j \in 1..6 : j < 3 => u[j] = v[j]  BY <1>1, <2>3
    <3> QED  BY <1>1, <1>2, <2>3, <3>1
  <2>4. CASE b1 = a1 /\ b2 = a2 /\ b3 = a3 /\ b4 < a4
    <3>1. \A j \in 1..6 : j < 4 => u[j] = v[j]  BY <1>1, <2>4
    <3> QED  BY <1>1, <1>2, <2>4, <3>1
  <2>5. CASE b1 = a1 /\ b2 = a2 /\ b3 = a3 /\ b4 = a4 /\ b5 < a5
    <3>1. \A j \in 1..6 : j < 5 => u[j] = v[j]  BY <1>1, <2>5
    <3> QED  BY <1>1, <1>2, <2>5, <3>1
  <2>6. CASE b1 = a1 /\ b2 = a2 /\ b3 = a3 /\ b4 = a4 /\ b5 = a5 /\ b6 < a6
    <3>1. \A j \in 1..6 : j < 6 => u[j] = v[j]  BY <1>1, <2>6
    <3> QED  BY <1>1, <1>2, <2>6, <3>1
  <2> QED  BY <2>1, <2>2, <2>3, <2>4, <2>5, <2>6
<1> QED  BY <1>3 DEF u, v

(* Supplements, revisions, the nodes up to the end, and within a node its   *)
(* request with its chats and their HTTP attempts.                          *)
Place ==
  CASE node = "research"     -> 5
    [] node = "synthesizer"  -> 3
    [] node = "quality_gate" -> 2
    [] node = "finalizer"    -> 1
    [] Ended                 -> 0
    [] OTHER                 -> 4

Phase == CASE req.reply = "taken" -> 2 [] req.reply = "none" -> 1 [] OTHER -> 0

Left ==
  <<MaxSupplements - rounds, MaxRevisions - revisions, Place, Phase,
    MaxJsonChats - req.chats, MaxRetries - req.tries>>

(* Every step uses up a bound, and starts at most what lies within it anew: *)
(* whatever the provider answers, nothing is asked for ever (_request_json, *)
(* _post, _critic, _quality_gate).                                          *)
ReviewAdvances == [][Below(Left', Left)]_vars

MaxChats(op) == IF op \in JsonOps THEN MaxJsonChats ELSE MaxTextChats

WithinChats(r) ==
  /\ r.chats \in 0..MaxJsonChats /\ r.tries \in 0..MaxRetries
  /\ r.reply = "none" => r.chats < MaxChats(r.op)

(* A supplement that the critic may order is still within its bound.        *)
Affordable ==
  req.reply = "value" /\ req.op = "critique" /\ req.value.decision = "supplement" =>
    rounds < MaxSupplements

Bounded ==
  /\ rounds \in 0..MaxSupplements /\ revisions \in 0..MaxRevisions
  /\ WithinChats(req) /\ Affordable

(* What a request in progress uses up.                                      *)
Uses(r) ==
  \/ r.reply \notin {"none", "taken"}
  \/ r.reply = "none" /\ r.chats = req.chats + 1
  \/ r.reply = "none" /\ r.chats = req.chats /\ r.tries = req.tries + 1

Answered(r) == DOMAIN r = Slots /\ WithinChats(r) /\ Uses(r)

LEMMA FreshRequest ==
  ASSUME NEW op
  PROVE  /\ Request(op).chats = 0 /\ Request(op).tries = 0
         /\ WithinChats(Request(op)) /\ WithinChats(NoRequest)
BY RetriesAssumption DEF Request, NoRequest, WithinChats, MaxChats, MaxJsonChats, MaxTextChats

LEMMA FailedUses ==
  ASSUME DOMAIN req = Slots, req.reply = "none", WithinChats(req), req.op \in JsonOps,
         NEW bucket, NEW answer
  PROVE  Answered(Failed(req, bucket, answer)) /\ Failed(req, bucket, answer).reply # "value"
<1> DEFINE chatted == Chatted(req)
<1>1. /\ DOMAIN chatted = Slots /\ chatted.op = req.op /\ chatted.reply = "none"
      /\ chatted.chats = req.chats + 1 /\ chatted.tries = 0
  BY DEF Chatted, Slots
<1> DEFINE failures == [chatted.failures EXCEPT ![bucket] = @ + 1]
           seen == IF req.op = "critique" THEN Append(chatted.seen, answer) ELSE chatted.seen
           next == [chatted EXCEPT !.failures = failures, !.seen = seen]
<1>2. Failed(req, bucket, answer) = IF next.failures[bucket] >= 2 \/ next.chats = MaxJsonChats
                                    THEN [next EXCEPT !.reply = "structured"] ELSE next
  BY DEF Failed
<1> HIDE DEF chatted, failures, seen
<1>3. /\ DOMAIN next = Slots /\ next.op = req.op /\ next.reply = "none"
      /\ next.chats = req.chats + 1 /\ next.tries = 0
  BY <1>1 DEF Slots
<1> HIDE DEF next
<1> DEFINE ended == [next EXCEPT !.reply = "structured"]
<1>4. DOMAIN ended = Slots /\ ended.reply = "structured" /\ ended.chats = req.chats + 1 /\ ended.tries = 0
  BY <1>3 DEF Slots
<1> HIDE DEF ended
<1>5. req.chats \in 0..2 /\ 0 \in 0..MaxRetries
  BY RetriesAssumption DEF WithinChats, MaxChats, MaxJsonChats
<1>6. Answered(ended) /\ ended.reply # "value"
  BY <1>4, <1>5 DEF Answered, WithinChats, Uses, MaxJsonChats
<1>7. next.chats # MaxJsonChats => Answered(next) /\ next.reply # "value"
  BY <1>3, <1>5 DEF Answered, WithinChats, Uses, MaxChats, MaxJsonChats
<1> QED  BY <1>2, <1>6, <1>7 DEF ended

LEMMA BreakingUses ==
  ASSUME DOMAIN req = Slots, WithinChats(req), Breaking
  PROVE  req.reply = "none" /\ Answered(req') /\ req'.reply # "value"
<1>0. req.reply = "none" => req.chats \in 0..2 /\ req.tries \in 0..MaxRetries /\ MaxRetries \in Nat
  BY RetriesAssumption DEF WithinChats, MaxChats, MaxJsonChats, MaxTextChats
<1>1. ASSUME NEW reply \in {"structured", "provider", "network"}, req.reply = "none", Ends(reply)
      PROVE  Answered(req') /\ req'.reply # "value"
  <2>1. DOMAIN req' = Slots /\ req'.reply = reply /\ req'.chats = req.chats /\ req'.tries = req.tries
    BY <1>1 DEF Ends, Slots
  <2> QED  BY <2>1 DEF Answered, WithinChats, Uses
<1>2. ASSUME req.reply = "none", req.tries < MaxRetries, req' = Retried
      PROVE  Answered(req') /\ req'.reply # "value"
  <2>1. /\ DOMAIN req' = Slots /\ req'.reply = "none" /\ req'.chats = req.chats
        /\ req'.tries = req.tries + 1 /\ req'.op = req.op
    BY <1>2 DEF Retried, Slots
  <2>2. req.tries + 1 \in 0..MaxRetries  BY <1>0, <1>2
  <2> QED  BY <1>2, <2>1, <2>2 DEF Answered, WithinChats, Uses
<1>3. CASE Dropped  BY <1>1, <1>2, <1>3 DEF Dropped, Pending
<1>4. CASE Refused(TRUE) \/ Refused(FALSE)  BY <1>1, <1>2, <1>4 DEF Refused, Pending
<1>5. CASE Unreadable  BY <1>1, <1>5 DEF Unreadable, Pending
<1>6. ASSUME NEW kind, SpoiltAnswer(kind)
      PROVE  req.reply = "none" /\ Answered(req') /\ req'.reply # "value"
  <2>1. req.reply = "none"  BY <1>6 DEF SpoiltAnswer, Pending
  <2>2. CASE req.op \in JsonOps
    BY <1>6, <2>1, <2>2, FailedUses DEF SpoiltAnswer
  <2>3. CASE req.op \notin JsonOps
    <3> DEFINE chatted == Chatted(req)
               reply == IF req.chats + 1 = MaxTextChats THEN "provider" ELSE chatted.reply
    <3>1. req' = [chatted EXCEPT !.reply = reply]  BY <1>6, <2>3 DEF SpoiltAnswer
    <3>2. /\ DOMAIN chatted = Slots /\ chatted.op = req.op /\ chatted.reply = "none"
          /\ chatted.chats = req.chats + 1 /\ chatted.tries = 0
      BY <2>1 DEF Chatted, Slots
    <3>3. reply \in {"provider", "none"} /\ (reply = "none" => req.chats + 1 # MaxTextChats)
      BY <3>2
    <3> HIDE DEF chatted, reply
    <3>4. /\ DOMAIN req' = Slots /\ req'.op = req.op /\ req'.reply = reply
          /\ req'.chats = req.chats + 1 /\ req'.tries = 0
      BY <3>1, <3>2 DEF Slots
    <3>5. req.chats \in 0..1 /\ MaxRetries \in Nat
      BY <2>1, <2>3, RetriesAssumption DEF WithinChats, MaxChats, MaxJsonChats, MaxTextChats
    <3> QED  BY <2>1, <2>3, <3>3, <3>4, <3>5
             DEF Answered, WithinChats, Uses, MaxChats, MaxJsonChats, MaxTextChats
  <2> QED  BY <2>1, <2>2, <2>3
<1> QED  BY <1>3, <1>4, <1>5, <1>6, <1>1, <1>2 DEF Breaking, Dropped, Refused, Unreadable, Pending

LEMMA CandidateUses ==
  ASSUME DOMAIN req = Slots, WithinChats(req), NEW c, c.kind \in JsonOps, NEW obeys, NEW value,
         Candidate(c, obeys, value)
  PROVE  /\ req.reply = "none" /\ Answered(req')
         /\ req'.reply = "value" => obeys /\ req'.value = value /\ req'.op = c.kind
<1> DEFINE r == [Request(req.op) EXCEPT !.reply = "value", !.value = value, !.raw = c]
<1>1. /\ DOMAIN r = Slots /\ r.op = req.op /\ r.reply = "value" /\ r.value = value
      /\ r.chats = 0 /\ r.tries = 0
  BY DEF Request, Slots
<1> HIDE DEF r
<1>2. Answered(r)  BY <1>1, RetriesAssumption DEF Answered, WithinChats, Uses, MaxJsonChats
<1>3. req.reply = "none" /\ req.op = c.kind /\ ((req' = r /\ obeys) \/ req' = Failed(req, "validation", c))
  BY DEF Candidate, Pending, r
<1> QED  BY <1>1, <1>2, <1>3, FailedUses

LEMMA TextUses ==
  ASSUME DOMAIN req = Slots, NEW d, Text(d)
  PROVE  req.reply = "none" /\ Answered(req') /\ req'.op \in TextOps
<1> DEFINE r == [Request(req.op) EXCEPT !.reply = "value", !.value = d]
<1>1. DOMAIN r = Slots /\ r.op = req.op /\ r.reply = "value" /\ r.chats = 0 /\ r.tries = 0
  BY DEF Request, Slots
<1> HIDE DEF r
<1>2. Answered(r)  BY <1>1, RetriesAssumption DEF Answered, WithinChats, Uses, MaxJsonChats
<1> QED  BY <1>1, <1>2 DEF Text, Pending, r

(* A step that leaves the outer bounds alone.                               *)
LEMMA Descends ==
  ASSUME \/ MaxSupplements - rounds' < MaxSupplements - rounds
         \/ rounds' = rounds /\ MaxRevisions - revisions' < MaxRevisions - revisions
         \/ rounds' = rounds /\ revisions' = revisions /\ Place' < Place
         \/ rounds' = rounds /\ revisions' = revisions /\ Place' = Place /\ Phase' < Phase
         \/ /\ rounds' = rounds /\ revisions' = revisions /\ Place' = Place /\ Phase' = Phase
            /\ \/ MaxJsonChats - req'.chats < MaxJsonChats - req.chats
               \/ req'.chats = req.chats /\ MaxRetries - req'.tries < MaxRetries - req.tries
  PROVE  Below(Left', Left)
<1> DEFINE a1 == MaxSupplements - rounds    a2 == MaxRevisions - revisions
           a3 == Place                      a4 == Phase
           a5 == MaxJsonChats - req.chats   a6 == MaxRetries - req.tries
           b1 == MaxSupplements - rounds'   b2 == MaxRevisions - revisions'
           b3 == Place'                     b4 == Phase'
           b5 == MaxJsonChats - req'.chats  b6 == MaxRetries - req'.tries
<1>1. Left = <<a1, a2, a3, a4, a5, a6>> /\ Left' = <<b1, b2, b3, b4, b5, b6>>  BY DEF Left, MaxJsonChats
<1>2. \/ b1 < a1
      \/ b1 = a1 /\ b2 < a2
      \/ b1 = a1 /\ b2 = a2 /\ b3 < a3
      \/ b1 = a1 /\ b2 = a2 /\ b3 = a3 /\ b4 < a4
      \/ b1 = a1 /\ b2 = a2 /\ b3 = a3 /\ b4 = a4 /\ b5 < a5
      \/ b1 = a1 /\ b2 = a2 /\ b3 = a3 /\ b4 = a4 /\ b5 = a5 /\ b6 < a6
  OBVIOUS
<1> HIDE DEF a1, a2, a3, a4, a5, a6, b1, b2, b3, b4, b5, b6
<1>3. Below(<<b1, b2, b3, b4, b5, b6>>, <<a1, a2, a3, a4, a5, a6>>)  BY <1>2, BelowAt
<1> QED  BY <1>1, <1>3

LEMMA Kinds ==
  ASSUME Typed
  PROVE  /\ \A c \in option.critiques : c.kind = "critique"
         /\ \A c \in option.plans \cup option.analyses \cup option.routes \cup option.replies
                       \cup option.verdicts : c.kind \in JsonOps \ {"critique"}
         /\ {MaxSupplements, MaxRevisions} \subseteq Nat
<1>1. IsOption(option)  BY ReviewAssumption DEF Typed
<1> QED  BY <1>1, ReviewAssumption DEF IsOption, Verdict, Analysis, JsonOps

(* While a request runs, and when it is made.                               *)
LEMMA AnsweringAdvances ==
  ASSUME Inv, Bounded, Answering
  PROVE  Bounded' /\ Below(Left', Left)
<1> USE DEF State, research, report
<1>1. Typed /\ DOMAIN req = Slots /\ WithinChats(req)  BY DEF Inv, Typed, Bounded
<1>2. UNCHANGED State
  BY DEF Answering, Ask, Breaks, CriticAnswers, Synthesizes, Revises, Writes, QualityAnswers,
         PlanAnswers, AnalysisAnswers, RouteAnswers, AnswerAnswers
<1>3. Place' = Place  BY <1>2 DEF Place, Ended
<1>4. CASE Ask
  <2>1. req.reply = "taken" /\ req' = Request(Asks)  BY <1>4 DEF Ask
  <2>2. req'.reply = "none" /\ WithinChats(req')  BY <2>1, RequestType, FreshRequest
  <2>3. Phase' < Phase  BY <2>1, <2>2 DEF Phase
  <2>4. Bounded'  BY <1>2, <2>2 DEF Bounded, Affordable
  <2> QED  BY <1>2, <1>3, <2>3, <2>4, Descends
<1>5. ASSUME req.reply = "none", Answered(req'), Affordable' PROVE Bounded' /\ Below(Left', Left)
  <2>1. Bounded'  BY <1>2, <1>5 DEF Bounded, Answered
  <2>2. CASE req'.reply \notin {"none", "taken"}
    <3>1. Phase' < Phase  BY <1>5, <2>2 DEF Phase
    <3> QED  BY <1>2, <1>3, <2>1, <3>1, Descends
  <2>3. CASE req'.reply = "none"
    <3>1. Phase' = Phase  BY <1>5, <2>3 DEF Phase
    <3>2. /\ req.chats \in Nat /\ req'.chats \in Nat /\ req.tries \in Nat /\ req'.tries \in Nat
          /\ MaxRetries \in Nat /\ MaxJsonChats \in Nat
      BY <1>1, <1>5, RetriesAssumption DEF Answered, WithinChats, MaxJsonChats
    <3>3. \/ req'.chats = req.chats + 1
          \/ req'.chats = req.chats /\ req'.tries = req.tries + 1
      BY <1>5, <2>3 DEF Answered, Uses
    <3>4. \/ MaxJsonChats - req'.chats < MaxJsonChats - req.chats
          \/ req'.chats = req.chats /\ MaxRetries - req'.tries < MaxRetries - req.tries
      BY <3>2, <3>3
    <3> QED  BY <1>2, <1>3, <2>1, <3>1, <3>4, Descends
  <2> QED  BY <1>5, <2>2, <2>3 DEF Answered, Uses
<1>6. CASE Breaks
  <2>1. Breaking  BY <1>6 DEF Breaks, Breaking
  <2> QED  BY <1>1, <1>5, <2>1, BreakingUses DEF Affordable
<1>7. CASE CriticAnswers
  <2>1. PICK c \in option.critiques : Candidate(c, CritiqueObeys(c), c)  BY <1>7 DEF CriticAnswers
  <2>2. c.kind = "critique"  BY <1>1, Kinds
  <2>3. /\ req.reply = "none" /\ Answered(req')
        /\ req'.reply = "value" => CritiqueObeys(c) /\ req'.value = c
    BY <1>1, <2>1, <2>2, CandidateUses DEF JsonOps
  <2>4. Affordable'  BY <1>2, <2>3 DEF Affordable, CritiqueObeys, FitsContext
  <2> QED  BY <1>5, <2>3, <2>4
<1>8. CASE QualityAnswers \/ PlanAnswers \/ AnalysisAnswers \/ RouteAnswers \/ AnswerAnswers
  <2>1. PICK c \in option.plans \cup option.analyses \cup option.routes \cup option.replies
                     \cup option.verdicts : \E obeys, value : Candidate(c, obeys, value)
    BY <1>8 DEF QualityAnswers, PlanAnswers, AnalysisAnswers, RouteAnswers, AnswerAnswers
  <2>2. c.kind \in JsonOps \ {"critique"}  BY <1>1, Kinds
  <2>3. req.reply = "none" /\ Answered(req') /\ (req'.reply = "value" => req'.op = c.kind)
    BY <1>1, <2>1, <2>2, CandidateUses
  <2>4. Affordable'  BY <2>2, <2>3 DEF Affordable
  <2> QED  BY <1>5, <2>3, <2>4
<1>9. CASE Synthesizes \/ Revises
  <2>1. PICK d : Text(d)  BY <1>9 DEF Synthesizes, Revises, Writes
  <2>2. req.reply = "none" /\ Answered(req') /\ req'.op \in TextOps  BY <1>1, <2>1, TextUses
  <2>3. Affordable'  BY <2>2 DEF Affordable, TextOps
  <2> QED  BY <1>5, <2>2, <2>3
<1> QED  BY <1>4, <1>6, <1>7, <1>8, <1>9 DEF Answering

(* A node takes its answer up and leaves for another.                       *)
LEMMA NodesAdvance ==
  ASSUME Inv, Bounded,
         CriticDecides \/ CriticFails \/ Supplemented \/ Written \/ WriterFails
           \/ QualityDecides \/ QualityFails \/ Finalize \/ Returns
  PROVE  Bounded' /\ Below(Left', Left)
<1> USE DEF research, report
<1>1. /\ Typed /\ rounds \in 0..MaxSupplements /\ revisions \in 0..MaxRevisions
      /\ WithinChats(req) /\ Affordable /\ MaxSupplements \in Nat /\ MaxRevisions \in Nat
  BY Kinds DEF Inv, Bounded
<1>2. ASSUME NEW kinds, Reply(kinds)
      PROVE  WithinChats(req') /\ req'.reply = "taken" /\ Affordable'
  <2>1. req' = [NoRequest EXCEPT !.raw = req.raw]  BY <1>2 DEF Reply
  <2>2. req'.reply = "taken" /\ req'.chats = 0 /\ req'.tries = 0
    BY <2>1 DEF NoRequest, Request
  <2> QED  BY <2>2, RetriesAssumption DEF WithinChats, Affordable, MaxJsonChats
<1>3. ASSUME UNCHANGED <<rounds, revisions>>, Place' < Place, WithinChats(req'), Affordable'
      PROVE  Bounded' /\ Below(Left', Left)
  BY <1>1, <1>3, Descends DEF Bounded
<1>4. Place \in 0..5 /\ Place' \in 0..5  BY DEF Place
<1>5. \A cause : FatalUpdate(cause) => node' = "finalizer"  BY DEF FatalUpdate
<1>6. CASE CriticDecides
  <2>1. node = "critic" /\ Place = 4 /\ Reply({"value"}) /\ UNCHANGED <<option, report>>
    BY <1>6 DEF CriticDecides, Place, Ended
  <2>2. req.reply = "value" /\ req.op = "critique"
    BY <2>1 DEF Reply, Inv, Requested, Asks
  <2>3. \/ rounds' = rounds /\ node' \in {"finalizer", "planner", "synthesizer"}
        \/ req.value.decision = "supplement" /\ rounds' = rounds + 1
    BY <1>5, <1>6 DEF CriticDecides
  <2>4. CASE rounds' = rounds /\ node' \in {"finalizer", "planner", "synthesizer"}
    <3>1. Place' < Place  BY <2>1, <2>4 DEF Place, Ended
    <3> QED  BY <1>2, <1>3, <2>1, <2>4, <3>1
  <2>5. CASE req.value.decision = "supplement" /\ rounds' = rounds + 1
    <3>1. rounds < MaxSupplements  BY <1>1, <2>2, <2>5 DEF Affordable
    <3>2. Bounded'  BY <1>1, <1>2, <2>1, <2>5, <3>1 DEF Bounded
    <3>3. MaxSupplements - rounds' < MaxSupplements - rounds  BY <1>1, <2>5
    <3> QED  BY <3>2, <3>3, Descends
  <2> QED  BY <2>3, <2>4, <2>5
<1>7. CASE CriticFails
  <2>1. node = "critic" /\ node' \in {"synthesizer", "finalizer"} /\ UNCHANGED <<rounds, report>>
    BY <1>5, <1>7 DEF CriticFails
  <2>2. Place' < Place  BY <2>1 DEF Place, Ended
  <2> QED  BY <1>2, <1>3, <1>7, <2>1, <2>2 DEF CriticFails
<1>8. CASE Supplemented
  <2>1. node = "research" /\ node' = "critic" /\ UNCHANGED <<req, rounds, report>>
    BY <1>8 DEF Supplemented
  <2>2. Place' < Place  BY <2>1 DEF Place, Ended
  <2> QED  BY <1>1, <1>3, <2>1, <2>2 DEF Affordable
<1>9. CASE Written
  <2>1. node = "synthesizer" /\ node' = "quality_gate" /\ UNCHANGED <<research, revisions>>
    BY <1>9 DEF Written
  <2>2. Place' < Place  BY <2>1 DEF Place, Ended
  <2> QED  BY <1>2, <1>3, <1>9, <2>1, <2>2 DEF Written
<1>10. CASE WriterFails
  <2>1. node = "synthesizer" /\ node' = "finalizer" /\ UNCHANGED <<research, report>>
    BY <1>5, <1>10 DEF WriterFails
  <2>2. Place' < Place  BY <2>1 DEF Place, Ended
  <2> QED  BY <1>2, <1>3, <1>10, <2>1, <2>2 DEF WriterFails
<1>11. CASE QualityDecides
  <2>1. node = "quality_gate" /\ Reply({"value"}) /\ UNCHANGED research
    BY <1>11 DEF QualityDecides
  <2>2. \/ node' \in {"finalizer", "planner"} /\ revisions' = revisions
        \/ revisions < MaxRevisions /\ revisions' = revisions + 1
    BY <1>11 DEF QualityDecides, Finish
  <2>3. CASE node' \in {"finalizer", "planner"} /\ revisions' = revisions
    <3>1. Place' < Place  BY <2>1, <2>3 DEF Place, Ended
    <3> QED  BY <1>2, <1>3, <2>1, <2>3, <3>1
  <2>4. CASE revisions < MaxRevisions /\ revisions' = revisions + 1
    <3>1. Bounded'  BY <1>1, <1>2, <2>1, <2>4 DEF Bounded
    <3>2. MaxRevisions - revisions' < MaxRevisions - revisions  BY <1>1, <2>4
    <3> QED  BY <2>1, <3>1, <3>2, Descends
  <2> QED  BY <2>2, <2>3, <2>4
<1>12. CASE QualityFails
  <2>1. node = "quality_gate" /\ node' = "finalizer" /\ UNCHANGED <<research, report>>
    BY <1>5, <1>12 DEF QualityFails
  <2>2. Place' < Place  BY <2>1 DEF Place, Ended
  <2> QED  BY <1>2, <1>3, <1>12, <2>1, <2>2 DEF QualityFails
<1>13. CASE Finalize
  <2>1. node = "finalizer" /\ node' = "end" /\ UNCHANGED <<req, research, report>>
    BY <1>13 DEF Finalize
  <2>2. Place' < Place  BY <2>1 DEF Place, Ended
  <2> QED  BY <1>1, <1>3, <2>1, <2>2 DEF Affordable
<1>14. CASE Returns
  <2>1. node \in Elsewhere /\ node' = "end" /\ UNCHANGED <<research, report>>
    BY <1>14 DEF Returns
  <2>2. Place' < Place  BY <2>1 DEF Place, Ended, Elsewhere
  <2> QED  BY <1>2, <1>3, <1>14, <2>1, <2>2 DEF Returns
<1> QED  BY <1>6, <1>7, <1>8, <1>9, <1>10, <1>11, <1>12, <1>13, <1>14

(* What ReviewEnds needs besides fairness, for any number of retries,       *)
(* supplements and revisions: no step goes back without using up a bound    *)
(* (_request_json, _post, _critic, _quality_gate).                          *)
THEOREM ReviewIsBounded == Spec => ReviewAdvances /\ [](Left \in Tuples)
<1>1. Init => Bounded
  BY ReviewAssumption, FreshRequest DEF Init, Bounded, Affordable, NoRequest, Request
<1>2. Inv /\ Bounded /\ [Next]_vars => Bounded' /\ [Below(Left', Left)]_vars
  <2> SUFFICES ASSUME Inv, Bounded, [Next]_vars PROVE Bounded' /\ [Below(Left', Left)]_vars  OBVIOUS
  <2>1. CASE UNCHANGED vars
    BY <2>1 DEF vars, research, report, Bounded, Affordable, WithinChats
  <2>2. CASE Step
    <3>1. \/ Answering
          \/ CriticDecides \/ CriticFails \/ Supplemented \/ Written \/ WriterFails
          \/ QualityDecides \/ QualityFails \/ Finalize \/ Returns
      BY <2>2 DEF Step, Answering
    <3> QED  BY <3>1, AnsweringAdvances, NodesAdvance
  <2> QED  BY <2>1, <2>2 DEF Next
<1>3. Bounded => Left \in Tuples
  <2> SUFFICES ASSUME Bounded PROVE Left \in Tuples  OBVIOUS
  <2>1. MaxSupplements \in Nat /\ MaxRevisions \in Nat /\ MaxRetries \in Nat
    BY ReviewAssumption, RetriesAssumption
  <2>2. /\ MaxSupplements - rounds \in Nat /\ MaxRevisions - revisions \in Nat
        /\ MaxJsonChats - req.chats \in Nat /\ MaxRetries - req.tries \in Nat
    BY <2>1 DEF Bounded, WithinChats, MaxJsonChats
  <2>3. Place \in Nat /\ Phase \in Nat  BY DEF Place, Phase
  <2> QED  BY <2>2, <2>3 DEF Left, Tuples
<1> QED  BY InitInv, StepInv, <1>1, <1>2, <1>3, PTL DEF Spec, ReviewAdvances
=============================================================================
