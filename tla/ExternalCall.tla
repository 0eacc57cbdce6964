----------------------------- MODULE ExternalCall -----------------------------
(***************************************************************************)
(* What the journal promises of ONE external call of a run, for instance a  *)
(* model stage with its input, however many records, processes and claims   *)
(* it takes (README: "unknown requests are not repeated without a           *)
(* confirmation").  Journal and RunLifecycle implement it.                  *)
(***************************************************************************)
EXTENDS Naturals

VARIABLES
  state,    \* "free": it may be sent; "settled": its answer is kept for good
  sends,    \* requests that left the process
  answers,  \* requests whose outcome was recorded
  acks      \* unknown requests whose repetition the user confirmed
vars == <<state, sends, answers, acks>>

States == {"free", "dispatched", "unknown", "settled"}

TypeOK == state \in States /\ sends \in Nat /\ answers \in Nat /\ acks \in Nat

Init == state = "free" /\ sends = 0 /\ answers = 0 /\ acks = 0

(* The dispatch is committed before the request leaves; the process may end *)
(* in between.                                                              *)
Send ==
  /\ state = "free" /\ state' = "dispatched"
  /\ sends' \in {sends, sends + 1}
  /\ UNCHANGED <<answers, acks>>

(* Rejected before it was sent: the rejection is its result.                *)
Skip == state = "free" /\ state' = "settled" /\ UNCHANGED <<sends, answers, acks>>

(* After a failure, or an answer that may not be replayed, it is free again. *)
Answer ==
  /\ state = "dispatched" /\ state' \in {"settled", "free"}
  /\ answers' = answers + 1
  /\ UNCHANGED <<sends, acks>>

Lose == state = "dispatched" /\ state' = "unknown" /\ UNCHANGED <<sends, answers, acks>>

Acknowledge ==
  /\ state = "unknown" /\ state' = "free"
  /\ acks' = acks + 1
  /\ UNCHANGED <<sends, answers>>

Next == Send \/ Skip \/ Answer \/ Lose \/ Acknowledge

Spec == Init /\ [][Next]_vars

(* Each request but the one that is in flight or unknown was answered, or   *)
(* its repetition was confirmed: nothing is paid twice silently.            *)
Covered ==
  sends <= answers + acks + (IF state \in {"dispatched", "unknown"} THEN 1 ELSE 0)
=============================================================================
