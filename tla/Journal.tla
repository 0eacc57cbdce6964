------------------------------- MODULE Journal -------------------------------
(***************************************************************************)
(* The execution journal of ONE research run (execution/runtime.py): the   *)
(* control row with its owner and fencing epoch, the commands that were    *)
(* accepted, and the ledger of invocations that graph nodes, model stages, *)
(* tools and HTTP attempts write before and after they touch the outside   *)
(* world.  Every operation of ExecutionRuntime is one row-locked           *)
(* transaction (repository.mutate), hence one action.                      *)
(*                                                                         *)
(* Rows of different runs share nothing, so one run is the whole story.    *)
(* The callers are left free: any coroutine that holds a lease may go on,  *)
(* fail, be cancelled or die with its process, and a claim, a release, a   *)
(* recovery or a cancellation may come at any time.                        *)
(***************************************************************************)
EXTENDS Integers, Sequences, FiniteSets

CONSTANTS
  Requests,        \* request ids of claiming commands
  Nodes,           \* graph node executions (LangGraph checkpoint namespaces)
  Slots,           \* durable call sites
  KindOf,          \* KindOf[s]: kind of invocation written at slot s
  NodeOf,          \* NodeOf[s]: node execution that contains slot s
  Inputs,          \* digests of call inputs
  ToolLimit,       \* control["tool_limit"]
  MaxInvocations,  \* bound: length of the ledger
  MaxEpoch,        \* bound: fencing epochs used
  NoRequest        \* "owner": None

Kinds == {"node_result", "llm", "tool_decision", "tool", "http"}

ASSUME ToolLimitAssumption == ToolLimit \in Nat
ASSUME BoundsAssumption == MaxInvocations \in Nat /\ MaxEpoch \in Nat
ASSUME SlotsAssumption == KindOf \in [Slots -> Kinds] /\ NodeOf \in [Slots -> Nodes]
ASSUME NoRequestAssumption == NoRequest \notin Requests

VARIABLES
  owner,            \* control["owner"]: the request whose claim owns the run
  epoch,            \* control["fencing_epoch"]
  cancelRequested,  \* control["cancel_requested"]
  deleted,          \* control["deleted"]
  toolReserved,     \* control["tool_reserved"]
  claimEpoch,       \* commands: accepted request -> epoch of the claim it got
  invocations,      \* the ledger, in the order the records were created
  claim,            \* runtime.claims[run_id]: the claim this process holds
  leases,           \* in-memory: leases held by live coroutines
  confirmed,        \* history: unknown calls the user has acknowledged
  sent,             \* history: invocations that were ever dispatched
  answered          \* history: invocations whose holder recorded an outcome

control == <<owner, epoch, cancelRequested, deleted, toolReserved>>
memory  == <<claim, leases>>
history == <<confirmed, sent, answered>>
vars == <<control, claimEpoch, invocations, memory, history>>

Statuses == {"reserved", "dispatched", "succeeded", "failed", "unknown"}
Ids == DOMAIN invocations

(* A claim is the pair (owner token, epoch); a token is drawn anew for each *)
(* accepted request, so the request stands for it.                          *)
Claims == [owner : Requests, epoch : Nat]
NoClaim == [owner |-> NoRequest, epoch |-> 0]

Records == [slot : Slots, input : Inputs, parent : Nat, status : Statuses,
            replayable : BOOLEAN, counted : BOOLEAN, acknowledged : BOOLEAN]

(* phase "begun": reserved by a live coroutine; "sent": request on the wire; *)
(* "raising": the node coroutine is unwinding an exception.                  *)
Leases == [inv : Nat, claim : Claims, phase : {"begun", "sent", "raising"}]

Kind(i) == KindOf[invocations[i].slot]
Node(i) == NodeOf[invocations[i].slot]

TypeOK ==
  /\ owner \in Requests \cup {NoRequest}
  /\ epoch \in Nat
  /\ cancelRequested \in BOOLEAN /\ deleted \in BOOLEAN
  /\ toolReserved \in Nat
  /\ claimEpoch \in [DOMAIN claimEpoch -> Nat] /\ DOMAIN claimEpoch \subseteq Requests
  /\ invocations \in Seq(Records)
  /\ claim \in Claims \cup {NoClaim}
  /\ leases \subseteq Leases
  /\ confirmed \subseteq Nat /\ sent \subseteq Nat /\ answered \subseteq Nat

(* bind_run: a fresh control row; no claim yet. *)
Init ==
  /\ owner = NoRequest /\ epoch = 0
  /\ cancelRequested = FALSE /\ deleted = FALSE
  /\ toolReserved = 0
  /\ claimEpoch = << >>
  /\ invocations = << >>
  /\ claim = NoClaim
  /\ leases = {}
  /\ confirmed = {} /\ sent = {} /\ answered = {}

-----------------------------------------------------------------------------
(* Claims and fencing.                                                      *)

Valid(c) ==
  /\ ~cancelRequested /\ ~deleted
  /\ owner = c.owner /\ epoch = c.epoch

CompletedNodes ==
  {Node(i) : i \in {j \in Ids : Kind(j) = "node_result" /\ invocations[j].status = "succeeded"}}

(* A committed node output makes the requests inside that node irrelevant.  *)
ActiveUnknown ==
  {i \in Ids : /\ invocations[i].status = "unknown"
               /\ ~invocations[i].acknowledged
               /\ Node(i) \notin CompletedNodes}

(* mutant: the unknown calls are acknowledged although the user did not.    *)
AcknowledgedBySilence(acks) == TRUE
Acknowledged(acks) == ActiveUnknown \subseteq acks

(* mutant: a claim takes over without a new epoch.                          *)
SameEpoch == epoch
NextEpoch == epoch + 1

(* mutant: a new claim does not look at the owner.                          *)
NotDeleted == ~deleted
Claimable == ~deleted /\ ~cancelRequested /\ owner = NoRequest

Claim(r, acks) ==
  /\ epoch < MaxEpoch
  /\ Claimable
  /\ r \notin DOMAIN claimEpoch
  /\ Acknowledged(acks)
  /\ invocations' = [i \in Ids |->
       IF i \in ActiveUnknown THEN [invocations[i] EXCEPT !.acknowledged = TRUE]
                              ELSE invocations[i]]
  /\ epoch' = NextEpoch
  /\ owner' = r
  /\ claimEpoch' = [q \in DOMAIN claimEpoch \cup {r} |->
                      IF q = r THEN NextEpoch ELSE claimEpoch[q]]
  /\ claim' = [owner |-> r, epoch |-> NextEpoch]
  /\ confirmed' = confirmed \cup acks
  /\ UNCHANGED <<cancelRequested, deleted, toolReserved, leases, sent, answered>>

(* release, called with the claim a finishing task holds: it clears the     *)
(* owner only if the claim is still the current one.                        *)
Release(c) ==
  /\ c # NoClaim
  /\ owner' = IF owner = c.owner /\ epoch = c.epoch THEN NoRequest ELSE owner
  /\ claim' = IF claim = c THEN NoClaim ELSE claim
  /\ UNCHANGED <<epoch, cancelRequested, deleted, toolReserved, claimEpoch,
                 invocations, leases, history>>

(* cancel, and the tombstone that precedes a deletion.                      *)
Cancel(delete) ==
  /\ epoch < MaxEpoch
  /\ cancelRequested' = TRUE
  /\ deleted' = (deleted \/ delete)
  /\ epoch' = epoch + 1
  /\ owner' = NoRequest
  /\ claim' = NoClaim
  /\ UNCHANGED <<toolReserved, claimEpoch, invocations, leases, history>>

(* mutant: recovery also refunds calls that had left the process.           *)
RecoveredRefundingSent(rec) ==
  IF rec.status \in {"dispatched", "reserved"}
  THEN [rec EXCEPT !.status = IF @ = "reserved" THEN "failed" ELSE "unknown", !.counted = FALSE]
  ELSE rec

(* mutant: recovery marks an unanswered request as failed.                  *)
RecoveredForgettingSent(rec) ==
  CASE rec.status = "dispatched" -> [rec EXCEPT !.status = "failed"]
    [] rec.status = "reserved"   -> [rec EXCEPT !.status = "failed", !.counted = FALSE]
    [] OTHER -> rec

Recovered(rec) ==
  CASE rec.status = "dispatched" -> [rec EXCEPT !.status = "unknown"]
    [] rec.status = "reserved"   -> [rec EXCEPT !.status = "failed", !.counted = FALSE]
    [] OTHER -> rec

(* mutant: the durable count is given back for every charged record,        *)
(* whatever became of the call.                                             *)
ChargedRefunded == {i \in Ids : invocations[i].counted}
Refunds == {i \in Ids : invocations[i].status = "reserved" /\ invocations[i].counted}

RecoverOwner ==
  /\ epoch < MaxEpoch
  /\ owner' = NoRequest
  /\ epoch' = epoch + 1
  /\ invocations' = [i \in Ids |-> Recovered(invocations[i])]
  /\ toolReserved' = toolReserved - Cardinality(Refunds)
  /\ claim' = NoClaim
  /\ UNCHANGED <<cancelRequested, deleted, claimEpoch, leases, history>>

-----------------------------------------------------------------------------
(* Invocations.  A lease names the ledger record a live coroutine is         *)
(* writing; `parent` is the record whose coroutine awaits this one, so a     *)
(* coroutine is running only while no other lease has it as parent.          *)

Running(l) == l \in leases /\ \A m \in leases : invocations[m.inv].parent # l.inv

SameCall(i, j) ==
  /\ Kind(i) # "http"      \* the slot of an HTTP attempt is used once
  /\ invocations[i].slot = invocations[j].slot
  /\ invocations[i].input = invocations[j].input

(* A record that lets its slot be called again with the same input.          *)
Settled(rec) ==
  \/ rec.status = "failed"
  \/ rec.status = "unknown" /\ rec.acknowledged
  \/ rec.status = "succeeded" /\ ~rec.replayable

Matches(s) == IF KindOf[s] = "http" THEN {} ELSE {i \in Ids : invocations[i].slot = s}

(* begin_invocation creates a record: the inputs of model stages and nodes   *)
(* may not change, and no earlier record of this call can be replayed, is    *)
(* active, or is unknown and not acknowledged.                               *)
MayCreate(s, x) ==
  /\ KindOf[s] \in {"llm", "node_result"} => \A i \in Matches(s) : invocations[i].input = x
  /\ \A i \in Matches(s) : invocations[i].input = x => Settled(invocations[i])

ConsumesBudget(s) == KindOf[s] = "tool"

(* mutant: the limit is compared after the fact.                             *)
BudgetLeftOrJustSpent == toolReserved <= ToolLimit
BudgetLeft == toolReserved < ToolLimit

Create(s, x, c, p) ==
  /\ Len(invocations) < MaxInvocations
  /\ Valid(c)
  /\ MayCreate(s, x)
  /\ ConsumesBudget(s) => BudgetLeft
  /\ toolReserved' = toolReserved + (IF ConsumesBudget(s) THEN 1 ELSE 0)
  /\ invocations' = Append(invocations,
       [slot |-> s, input |-> x, parent |-> p, status |-> "reserved",
        replayable |-> KindOf[s] # "http", counted |-> ConsumesBudget(s),
        acknowledged |-> FALSE])
  /\ leases' = leases \cup {[inv |-> Len(invocations) + 1, claim |-> c, phase |-> "begun"]}
  /\ UNCHANGED <<owner, epoch, cancelRequested, deleted, claimEpoch, claim, history>>

(* journal_node: a node execution starts under the claim of this process.   *)
BeginNode(s, x) ==
  /\ KindOf[s] = "node_result"
  /\ claim # NoClaim
  /\ Create(s, x, claim, 0)

(* A model stage, a tool decision or a tool call of a running node.         *)
BeginCall(l, s, x) ==
  /\ Running(l) /\ l.phase = "begun" /\ Kind(l.inv) = "node_result"
  /\ KindOf[s] \in {"llm", "tool_decision", "tool"} /\ NodeOf[s] = Node(l.inv)
  /\ Create(s, x, l.claim, l.inv)

(* before_http_attempt, inside a call that has been dispatched.             *)
BeginHttp(l, s, x) ==
  /\ Running(l) /\ l.phase = "sent" /\ Kind(l.inv) # "http"
  /\ KindOf[s] = "http" /\ NodeOf[s] = Node(l.inv)
  /\ Create(s, x, l.claim, l.inv)

(* mutant: a fenced coroutine may still write its record.                   *)
Unfenced(l) == Running(l)
MayWrite(l) == Running(l) /\ Valid(l.claim)

Write(l, rec) ==
  /\ MayWrite(l)
  /\ invocations' = [invocations EXCEPT ![l.inv] = rec]
  /\ UNCHANGED <<control, claimEpoch, claim, confirmed>>

(* The holder's last write: the outcome of the call.                        *)
Conclude(l, rec) ==
  /\ Write(l, rec)
  /\ leases' = leases \ {l}
  /\ answered' = answered \cup {l.inv}
  /\ UNCHANGED sent

Dispatch(l) ==
  /\ l.phase = "begun" /\ Kind(l.inv) # "node_result"
  /\ Write(l, [invocations[l.inv] EXCEPT !.status = "dispatched"])
  /\ leases' = (leases \ {l}) \cup {[l EXCEPT !.phase = "sent"]}
  /\ sent' = sent \cup {l.inv}
  /\ UNCHANGED answered

(* confirm.  A node confirms what it returns, a tool also a rejected call   *)
(* it never dispatched; a tool decision may be marked as not replayable.    *)
Confirm(l, replayable) ==
  /\ \/ Kind(l.inv) = "node_result" /\ l.phase = "begun" /\ replayable
     \/ Kind(l.inv) = "tool" /\ replayable
     \/ Kind(l.inv) = "llm" /\ l.phase = "sent" /\ replayable
     \/ Kind(l.inv) = "tool_decision" /\ l.phase = "sent"
  /\ Conclude(l, [invocations[l.inv] EXCEPT !.status = "succeeded", !.replayable = replayable])

(* fail: the model stage, the decision or the node raised.                  *)
Fail(l) ==
  /\ \/ Kind(l.inv) = "node_result"
     \/ Kind(l.inv) = "llm" /\ l.phase = "sent"
     \/ Kind(l.inv) = "tool_decision"
  /\ Conclude(l, [invocations[l.inv] EXCEPT !.status = "failed"])

(* finish_http with an answer.                                              *)
HttpAnswered(l, outcome) ==
  /\ Kind(l.inv) = "http" /\ l.phase = "sent"
  /\ Conclude(l, [invocations[l.inv] EXCEPT !.status = outcome])

(* The leases of the coroutine of node lease l that are held below it.      *)
Below(l) == {m \in leases : m # l /\ m.claim = l.claim /\ Node(m.inv) = Node(l.inv)}

Raising(l) == (leases \ ({l} \cup Below(l))) \cup {[l EXCEPT !.phase = "raising"]}

(* finish_http without an answer: the record becomes unknown and            *)
(* UnknownInvocation unwinds the node, leaving the enclosing call as it is. *)
HttpUnknown(m, l) ==
  /\ Kind(m.inv) = "http" /\ m.phase = "sent"
  /\ l \in leases /\ Kind(l.inv) = "node_result" /\ m \in Below(l)
  /\ Write(m, [invocations[m.inv] EXCEPT !.status = "unknown"])
  /\ leases' = Raising(l)
  /\ UNCHANGED <<sent, answered>>

(* registry.execute gives up on a tool run that takes too long: the HTTP    *)
(* attempt inside it is abandoned without a word to the ledger, and the     *)
(* tool goes on.                                                            *)
TimeOut(l) ==
  /\ Running(l) /\ Kind(l.inv) = "http"
  /\ Kind(invocations[l.inv].parent) = "tool"
  /\ leases' = leases \ {l}
  /\ UNCHANGED <<control, claimEpoch, invocations, claim, history>>

(* A control error or the cancellation of its task unwinds a node; nothing  *)
(* is written for the calls that were open.                                 *)
Unwind(l) ==
  /\ l \in leases /\ Kind(l.inv) = "node_result" /\ l.phase = "begun"
  /\ leases' = Raising(l)
  /\ UNCHANGED <<control, claimEpoch, invocations, claim, history>>

(* The unwinding node cannot write its own failure (fenced or no storage).  *)
Drop(l) ==
  /\ Running(l) /\ l.phase = "raising"
  /\ leases' = leases \ {l}
  /\ UNCHANGED <<control, claimEpoch, invocations, claim, history>>

(* The process dies: the claims map and every coroutine are gone.           *)
Crash ==
  /\ claim # NoClaim \/ leases # {}
  /\ claim' = NoClaim /\ leases' = {}
  /\ UNCHANGED <<control, claimEpoch, invocations, history>>

-----------------------------------------------------------------------------
ControlStep ==
  \/ \E r \in Requests : \E acks \in SUBSET ActiveUnknown : Claim(r, acks)
  \/ Release(claim)
  \/ \E delete \in BOOLEAN : Cancel(delete)
  \/ RecoverOwner
  \/ Crash

BeginStep ==
  \E s \in Slots, x \in Inputs :
    \/ BeginNode(s, x)
    \/ \E l \in leases : BeginCall(l, s, x) \/ BeginHttp(l, s, x)

LeaseStep ==
  \E l \in leases :
    \/ Dispatch(l)
    \/ \E replayable \in BOOLEAN : Confirm(l, replayable)
    \/ Fail(l)
    \/ \E outcome \in {"succeeded", "failed"} : HttpAnswered(l, outcome)
    \/ \E m \in leases : HttpUnknown(m, l)
    \/ TimeOut(l)
    \/ Unwind(l)
    \/ Drop(l)

Next == ControlStep \/ BeginStep \/ LeaseStep

Spec == Init /\ [][Next]_vars

-----------------------------------------------------------------------------
(* Properties.                                                              *)

Charged == {i \in Ids : invocations[i].counted}

(* The durable tool count is exactly the number of charged records and      *)
(* never exceeds the limit, through retries, refunds and crashes.           *)
BudgetExact ==
  /\ toolReserved = Cardinality(Charged)
  /\ toolReserved <= ToolLimit

(* A tool request that left the process stays charged for ever: recovery    *)
(* refunds only what was never sent, so ToolLimit bounds real tool calls.   *)
SentToolsCharged == \A i \in sent : Kind(i) = "tool" => invocations[i].counted

(* A call is made again only after every earlier record of the same call    *)
(* is settled, and one that was sent and never answered only with the       *)
(* user's confirmation.                                                     *)
RetryConfirmed ==
  \A i, j \in Ids :
    i < j /\ SameCall(i, j) =>
      /\ Settled(invocations[i])
      /\ i \in sent \ answered => i \in confirmed

(* A request that left the process and whose answer was never recorded is   *)
(* kept visible as in flight or unknown; no crash, recovery or unwinding    *)
(* turns it into one that failed or was never sent.                         *)
SentIsVisible ==
  \A i \in sent \ answered : invocations[i].status \in {"dispatched", "unknown"}

(* Fencing tokens: two claims never share an epoch, none is ahead of the    *)
(* control row.                                                             *)
FencingTokensDistinct ==
  /\ \A r \in DOMAIN claimEpoch : claimEpoch[r] <= epoch
  /\ \A q, r \in DOMAIN claimEpoch : claimEpoch[q] = claimEpoch[r] => q = r

Final(rec) == rec.status \in {"succeeded", "failed", "unknown"}

(* An answer is final: no late, fenced or repeated writer ever changes the  *)
(* outcome of an invocation.                                                *)
AnswersFinal ==
  [][\A i \in Ids : Final(invocations[i]) =>
        /\ invocations'[i].status = invocations[i].status
        /\ invocations'[i].replayable = invocations[i].replayable]_vars

(* After a cancellation no request leaves the process and nobody owns the   *)
(* run again, whatever coroutines are still alive.                          *)
CancelStopsSending ==
  [][cancelRequested => sent' = sent /\ owner' = NoRequest]_vars

(* ------------------------------------------------------------------------ *)
(* What the ledger says of one call: the records of a slot with one input.  *)

CallSlots == {s \in Slots : KindOf[s] # "http"}
Attempts(s, x) == {i \in Ids : invocations[i].slot = s /\ invocations[i].input = x}

(* Where a record leaves its call.                                          *)
Standing(rec) ==
  CASE rec.status = "dispatched" -> "dispatched"
    [] rec.status = "unknown" /\ ~rec.acknowledged -> "unknown"
    [] rec.status = "succeeded" /\ rec.replayable -> "settled"
    [] OTHER -> "free"

Open(s, x) == {Standing(invocations[i]) : i \in Attempts(s, x)} \ {"free"}

Call(s, x) == INSTANCE ExternalCall WITH
  state   <- IF Open(s, x) = {} THEN "free" ELSE CHOOSE v \in Open(s, x) : TRUE,
  sends   <- Cardinality(Attempts(s, x) \cap sent),
  answers <- Cardinality(Attempts(s, x) \cap sent \cap answered),
  acks    <- Cardinality(Attempts(s, x) \cap confirmed)

(* Every call but an HTTP attempt, whose slot is used once, behaves as      *)
(* ExternalCall says, whatever becomes of its records, their holders and    *)
(* the claims: it is sent once, answered, lost or confirmed in turn.        *)
CallsPromised ==
  /\ \A s \in CallSlots, x \in Inputs : Call(s, x)!Init
  /\ [][\A s \in CallSlots, x \in Inputs : [Call(s, x)!Next]_(Call(s, x)!vars)]_vars
=============================================================================
