---------------------------- MODULE ModelGateway ----------------------------
(***************************************************************************)
(* One operation of the model gateway (agents/gateway.py): the HTTP        *)
(* attempts of a chat (providers/openrouter.py), the chats of a request    *)
(* that repairs a reasoned-out, truncated, malformed or contract-breaking  *)
(* answer, and what the operation ends with: a value, an error of the      *)
(* provider, an error of the structured output, or a network error.        *)
(* Prompts, the wording of repairs, output limits and the reasoning effort *)
(* change only what the provider is likely to answer, and it may answer    *)
(* anything here.  A candidate is an answer that is a JSON object; its     *)
(* field formed says whether its texts, lists and lengths are in order.    *)
(***************************************************************************)
EXTENDS Integers, Sequences, FiniteSets, SequencesExt

CONSTANTS MaxRetries,  \* retries of a chat on the HTTP level
          PlanSizes    \* numbers of tasks a plan may have under the policy

ASSUME RetriesAssumption == MaxRetries \in Nat

VARIABLE req           \* the request in progress, or the last one

MaxJsonChats == 3
MaxTextChats == 2

TextOps == {"synthesize", "revise"}
JsonOps == {"plan", "analysis", "critique", "quality", "route", "answer"}

Buckets == {"reasoning", "truncation", "validation"}

(* Answers of which no candidate can be made, each with its bucket.         *)
Spoilt == [reasoned |-> "reasoning", cut |-> "truncation",
           empty |-> "validation", broken |-> "validation"]

None == [kind |-> "none"]

(* seen holds the answers of a review request that were not used; value and *)
(* raw the answer of a request that was, after and before normalisation.    *)
Request(op) == [op |-> op, chats |-> 0, tries |-> 0,
                failures |-> [b \in Buckets |-> 0], seen |-> <<>>,
                reply |-> "none", value |-> None, raw |-> None]

NoRequest == [Request("none") EXCEPT !.reply = "taken"]

Pending == req.reply = "none"

Ends(reply) == req' = [req EXCEPT !.reply = reply]

Retried == [req EXCEPT !.tries = @ + 1]

(* No response at all, as far as the client can tell.                       *)
Dropped ==
  /\ Pending
  /\ IF req.tries < MaxRetries THEN req' = Retried ELSE Ends("network")

(* 408, 429 or 5xx (transient), or another status that is an error.         *)
Refused(transient) ==
  /\ Pending
  /\ IF transient /\ req.tries < MaxRetries THEN req' = Retried ELSE Ends("provider")

(* A response that is no JSON object or has no message.                     *)
Unreadable == Pending /\ Ends("provider")

Chatted(r) == [r EXCEPT !.chats = @ + 1, !.tries = 0]

FailedUncounted(r, bucket, answer) ==                            \* mutant
  [r EXCEPT !.tries = 0, !.seen = <<answer>>]

(* An answer that is not used: the second of a bucket, or the last chat,    *)
(* ends the request.                                                        *)
Failed(r, bucket, answer) ==
  LET next == [Chatted(r) EXCEPT !.failures[bucket] = @ + 1,
                                 !.seen = IF r.op = "critique" THEN Append(@, answer) ELSE @]
  IN IF next.failures[bucket] >= 2 \/ next.chats = MaxJsonChats
     THEN [next EXCEPT !.reply = "structured"] ELSE next

(* A structured answer without a JSON object, or a report without a text.   *)
SpoiltAnswer(kind) ==
  /\ Pending
  /\ IF req.op \in JsonOps
     THEN req' = Failed(req, Spoilt[kind], [kind |-> kind])
     ELSE /\ kind # "broken"
          /\ req' = [Chatted(req) EXCEPT
                       !.reply = IF req.chats + 1 = MaxTextChats THEN "provider" ELSE @]

(* A candidate, and the value it becomes when it obeys its contract.        *)
Candidate(c, obeys, value) ==
  /\ Pending /\ req.op = c.kind
  /\ req' = IF obeys THEN [Request(req.op) EXCEPT !.reply = "value", !.value = value, !.raw = c]
                     ELSE Failed(req, "validation", c)

Text(draft) ==
  /\ Pending /\ req.op \in TextOps
  /\ req' = [Request(req.op) EXCEPT !.reply = "value", !.value = draft]

----------------------------------------------------------------------------
(* create_plan: a plan has the size the policy or the schema asks for, only *)
(* known capabilities, and repairs nothing.                                 *)
PlanObeys(c) == c.formed /\ c.size \in PlanSizes /\ c.capable /\ ~c.repairs

(* analyze_task: the findings are texts, of which a placeholder says        *)
(* nothing; refs are the findings an assessment of the task rests on.       *)
Analysis ==
  [kind : {"analysis"}, formed : BOOLEAN, findings : Seq(STRING), refs : SUBSET Nat,
   status : {"met", "partial", "unmet"}]

Placeholder == "..."

Said(c) == {i \in DOMAIN c.findings : c.findings[i] # Placeholder}

Positions(c) == DOMAIN c.findings

(* retained_positions: those of the findings that stay, in their order.     *)
Retained(c) ==
  CHOOSE s \in Bijection(1..Cardinality(Said(c)), Said(c)) :
    \A k, m \in DOMAIN s : k < m => s[k] < s[m]

MovedNot(c, i) == i                                              \* mutant

(* remapping: the new place of a finding that stays.                        *)
Moved(c, i) == CHOOSE k \in DOMAIN Retained(c) : Retained(c)[k] = i

(* normalize_research_output: placeholders are removed and the references   *)
(* follow the findings that stay.                                           *)
Normalised(c) ==
  [c EXCEPT !.findings = [k \in DOMAIN Retained(c) |-> c.findings[Retained(c)[k]]],
            !.refs = {Moved(c, i) : i \in c.refs \cap Said(c)}]

(* validate_task_result: no reference may dangle, and what is met, if only  *)
(* in part, has support.                                                    *)
Supported(c) ==
  /\ c.refs \subseteq Positions(c)
  /\ c.status # "unmet" => c.refs \cap Said(c) # {}

AnalysisObeys(c) == c.formed /\ Said(c) # {} /\ Supported(c)

(* route_conversation: ConversationDecision (Executable), and reports of    *)
(* the conversation only, the selected one where a report is worked on.     *)
Executable(c) ==
  /\ (c.action = "clarify") = c.asks
  /\ c.action \in {"answer", "revise"} => c.base # "none"

RouteObeys(c, reports, selected) ==
  /\ c.formed /\ Executable(c)
  /\ c.base \in reports \cup {"none"}
  /\ (selected # "none" /\ (c.action \in {"answer", "revise"}
                             \/ (c.action = "research" /\ c.base # "none")))
       => c.base = selected

(* answer_conversation: numbers of the catalogue and no links.              *)
AnswerObeys(c) == c.formed /\ ~c.dangling /\ ~c.links

(* After the clean-up of an analysis its assessment rests on exactly the    *)
(* findings it named, and on one at least unless the criterion is unmet.    *)
SupportKept ==
  req.op = "analysis" /\ req.value # None =>
    LET named(c) == {c.findings[i] : i \in c.refs \cap DOMAIN c.findings}
    IN /\ req.value.refs \subseteq Positions(req.value)
       /\ named(req.value) = named(req.raw) \ {Placeholder}
       /\ req.value.status # "unmet" => named(req.value) # {}
=============================================================================
