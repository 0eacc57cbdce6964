----------------------------- MODULE JournalProofs -----------------------------
(* Theorems about Journal for every value of its constants.  One inductive  *)
(* invariant, IInv, carries those about its records; what the calls promise *)
(* takes OutcomeFacts on top of it.                                         *)
EXTENDS Journal, FiniteSetTheorems, TLAPS

(* ------------------------------------------------ the inductive invariant *)

(* What a live lease knows: its record exists, nobody else holds it, it is  *)
(* not answered, its claim is not from the future, and as long as its claim *)
(* is the current one the record still says what the holder wrote last.     *)
LeaseFacts ==
  \A l \in leases :
    /\ l.inv \in Ids
    /\ l.inv \notin answered
    /\ l.claim.epoch <= epoch
    /\ \A m \in leases : m.inv = l.inv => m = l
    /\ Kind(l.inv) = "node_result" => l.phase # "sent"
    /\ owner = l.claim.owner /\ epoch = l.claim.epoch =>
         invocations[l.inv].status = (IF l.phase = "sent" THEN "dispatched" ELSE "reserved")

(* How the history relates to the ledger.                                   *)
HistoryFacts ==
  /\ sent \subseteq Ids
  /\ answered \subseteq Ids
  /\ \A i \in Ids : invocations[i].status = "reserved" =>
       /\ i \notin sent
       /\ Kind(i) = "tool" => invocations[i].counted
  /\ \A i \in Ids : invocations[i].acknowledged => i \in confirmed

IInv ==
  /\ TypeOK /\ LeaseFacts /\ HistoryFacts
  /\ cancelRequested => owner = NoRequest
  /\ BudgetExact /\ SentToolsCharged
  /\ SentIsVisible /\ RetryConfirmed
  /\ FencingTokensDistinct

(* --------------------------------------------------------- ledger lemmas *)

(* The ledger seen as a function.                                           *)
LEMMA LedgerFunction ==
  ASSUME TypeOK
  PROVE  /\ Len(invocations) \in Nat
         /\ Ids = 1 .. Len(invocations)
         /\ \A i \in Ids : invocations[i] \in Records
  BY DEF TypeOK, Ids

(* A ledger rewritten record by record is a ledger of the same length.      *)
LEMMA Rewritten ==
  ASSUME TypeOK, NEW F \in [Ids -> Records], invocations' = F
  PROVE  /\ invocations' \in Seq(Records)
         /\ Ids' = Ids
         /\ Len(invocations') = Len(invocations)
         /\ \A i \in Ids : invocations'[i] = F[i]
  BY LedgerFunction DEF Ids

(* A write replaces the record of the lease and no other.                   *)
LEMMA Written ==
  ASSUME TypeOK, LeaseFacts, NEW l \in leases, NEW rec \in Records, Write(l, rec)
  PROVE  /\ invocations' \in Seq(Records)
         /\ Ids' = Ids
         /\ Len(invocations') = Len(invocations)
         /\ invocations'[l.inv] = rec
         /\ \A i \in Ids : i # l.inv => invocations'[i] = invocations[i]
  <1>1. invocations \in Seq(Records) /\ l.inv \in Ids /\ Ids = 1 .. Len(invocations)
    BY LedgerFunction DEF TypeOK, LeaseFacts
  <1>2. invocations' = [invocations EXCEPT ![l.inv] = rec]
    BY DEF Write
  <1> QED
    BY <1>1, <1>2 DEF Ids

(* A new record is appended; the others stay.                               *)
LEMMA Created ==
  ASSUME TypeOK, NEW s \in Slots, NEW x \in Inputs, NEW c \in Claims, NEW p \in Nat,
         Create(s, x, c, p)
  PROVE  /\ invocations' \in Seq(Records)
         /\ Ids' = Ids \cup {Len(invocations) + 1}
         /\ Len(invocations) + 1 \notin Ids
         /\ invocations'[Len(invocations) + 1] =
              [slot |-> s, input |-> x, parent |-> p, status |-> "reserved",
               replayable |-> KindOf[s] # "http", counted |-> ConsumesBudget(s),
               acknowledged |-> FALSE]
         /\ \A i \in Ids : invocations'[i] = invocations[i]
  <1> DEFINE new == [slot |-> s, input |-> x, parent |-> p, status |-> "reserved",
                     replayable |-> KindOf[s] # "http", counted |-> ConsumesBudget(s),
                     acknowledged |-> FALSE]
  <1>1. new \in Records
    BY DEF Records, Statuses, ConsumesBudget
  <1>2. invocations' = Append(invocations, new)
    BY DEF Create
  <1> HIDE DEF new
  <1>3. invocations' \in Seq(Records) /\ Len(invocations') = Len(invocations) + 1
    BY <1>1, <1>2 DEF TypeOK
  <1>4. \A i \in Ids : invocations'[i] = invocations[i]
    BY <1>2, LedgerFunction
  <1>5. invocations'[Len(invocations) + 1] = new
    BY <1>2, LedgerFunction DEF TypeOK
  <1> QED
    BY <1>3, <1>4, <1>5, LedgerFunction DEF Ids, new

(* A claim changes nothing in the ledger but acknowledgements, and only     *)
(* those of active unknown calls.                                           *)
LEMMA Claimed ==
  ASSUME TypeOK, NEW r \in Requests, NEW acks \in SUBSET ActiveUnknown, Claim(r, acks)
  PROVE  /\ invocations' \in Seq(Records)
         /\ Ids' = Ids
         /\ \A i \in Ids :
              invocations'[i] = IF i \in ActiveUnknown
                                THEN [invocations[i] EXCEPT !.acknowledged = TRUE]
                                ELSE invocations[i]
  <1> DEFINE F == [i \in Ids |-> IF i \in ActiveUnknown
                                 THEN [invocations[i] EXCEPT !.acknowledged = TRUE]
                                 ELSE invocations[i]]
  <1>1. F \in [Ids -> Records]
    <2> SUFFICES ASSUME NEW i \in Ids PROVE F[i] \in Records
      OBVIOUS
    <2> QED
      BY LedgerFunction DEF Records
  <1>2. invocations' = F
    BY DEF Claim
  <1> QED
    BY <1>1, <1>2, Rewritten

LEMMA ClaimedFields ==
  ASSUME TypeOK, NEW r \in Requests, NEW acks \in SUBSET ActiveUnknown, Claim(r, acks),
         NEW i \in Ids
  PROVE  /\ invocations'[i].slot = invocations[i].slot
         /\ invocations'[i].input = invocations[i].input
         /\ invocations'[i].status = invocations[i].status
         /\ invocations'[i].replayable = invocations[i].replayable
         /\ invocations'[i].counted = invocations[i].counted
         /\ invocations'[i].acknowledged = (invocations[i].acknowledged \/ i \in ActiveUnknown)
  <1>1. invocations[i] \in Records
    BY LedgerFunction
  <1>2. CASE i \in ActiveUnknown
    <2>1. invocations'[i] = [invocations[i] EXCEPT !.acknowledged = TRUE]
      BY <1>2, Claimed
    <2> QED
      BY <1>1, <1>2, <2>1 DEF Records
  <1>3. CASE i \notin ActiveUnknown
    <2>1. invocations'[i] = invocations[i]
      BY <1>3, Claimed
    <2> QED
      BY <1>1, <1>3, <2>1 DEF Records
  <1> QED
    BY <1>2, <1>3

LEMMA RecoveredRecord ==
  ASSUME NEW rec \in Records
  PROVE  Recovered(rec) \in Records
  <1>1. CASE rec.status = "dispatched"
    BY <1>1 DEF Recovered, Records, Statuses
  <1>2. CASE rec.status = "reserved"
    BY <1>2 DEF Recovered, Records, Statuses
  <1>3. CASE rec.status \notin {"dispatched", "reserved"}
    BY <1>3 DEF Recovered
  <1> QED
    BY <1>1, <1>2, <1>3

(* Recovery touches the status and the charge of a record, nothing else.    *)
LEMMA RecoveredFields ==
  ASSUME NEW rec \in Records
  PROVE  LET new == Recovered(rec) IN
         /\ new.slot = rec.slot /\ new.input = rec.input
         /\ new.replayable = rec.replayable /\ new.acknowledged = rec.acknowledged
         /\ new.counted = (rec.counted /\ rec.status # "reserved")
         /\ new.status = IF rec.status = "dispatched" THEN "unknown"
                         ELSE IF rec.status = "reserved" THEN "failed" ELSE rec.status
  <1>1. CASE rec.status = "dispatched"
    BY <1>1 DEF Recovered, Records
  <1>2. CASE rec.status = "reserved"
    BY <1>2 DEF Recovered, Records
  <1>3. CASE rec.status \notin {"dispatched", "reserved"}
    BY <1>3 DEF Recovered, Records
  <1> QED
    BY <1>1, <1>2, <1>3

LEMMA RecoveredLedger ==
  ASSUME TypeOK, RecoverOwner
  PROVE  /\ invocations' \in Seq(Records)
         /\ Ids' = Ids
         /\ \A i \in Ids : invocations'[i] = Recovered(invocations[i])
  <1> DEFINE F == [i \in Ids |-> Recovered(invocations[i])]
  <1>1. F \in [Ids -> Records]
    BY LedgerFunction, RecoveredRecord
  <1>2. invocations' = F
    BY DEF RecoverOwner
  <1> HIDE DEF F
  <1>3. /\ invocations' \in Seq(Records)
        /\ Ids' = Ids
        /\ \A i \in Ids : invocations'[i] = F[i]
    BY <1>1, <1>2, Rewritten
  <1> QED
    BY <1>3 DEF F

LEMMA CreatedFields ==
  ASSUME TypeOK, NEW s \in Slots, NEW x \in Inputs, NEW c \in Claims, NEW p \in Nat,
         Create(s, x, c, p)
  PROVE  LET new == invocations'[Len(invocations) + 1] IN
         /\ new.slot = s /\ new.input = x
         /\ new.status = "reserved" /\ ~new.acknowledged
         /\ new.counted = ConsumesBudget(s)
  <1>1. invocations'[Len(invocations) + 1] =
          [slot |-> s, input |-> x, parent |-> p, status |-> "reserved",
           replayable |-> KindOf[s] # "http", counted |-> ConsumesBudget(s),
           acknowledged |-> FALSE]
    BY Created, Zenon
  <1> QED
    BY <1>1

(* ------------------------------------------------------- budget lemmas *)

LEMMA LedgerFinite ==
  ASSUME TypeOK, NEW S \in SUBSET Ids
  PROVE  IsFiniteSet(S) /\ Cardinality(S) \in Nat
  <1>1. Len(invocations) \in Nat /\ Ids = 1 .. Len(invocations)
    BY LedgerFunction
  <1>2. IsFiniteSet(Ids)
    BY <1>1, FS_Interval
  <1>3. IsFiniteSet(S)
    BY <1>2, FS_Subset
  <1> QED
    BY <1>3, FS_CardinalityType

(* Creating a record charges the budget for exactly that record.            *)
LEMMA BudgetCreate ==
  ASSUME TypeOK, BudgetExact,
         NEW s \in Slots, NEW x \in Inputs, NEW c \in Claims, NEW p \in Nat,
         Create(s, x, c, p)
  PROVE  BudgetExact'
  <1> DEFINE n == Len(invocations) + 1
  <1>1. /\ Ids' = Ids \cup {n} /\ n \notin Ids
        /\ invocations'[n].counted = ConsumesBudget(s)
        /\ \A i \in Ids : invocations'[i] = invocations[i]
    BY Created, CreatedFields
  <1>2. IsFiniteSet(Charged) /\ Cardinality(Charged) \in Nat
    BY LedgerFinite DEF Charged
  <1>3. toolReserved = Cardinality(Charged) /\ toolReserved <= ToolLimit
    BY DEF BudgetExact
  <1> HIDE DEF n
  <1>4. CASE ConsumesBudget(s)
    <2>1. Charged' = Charged \cup {n} /\ n \notin Charged
      BY <1>1, <1>4 DEF Charged
    <2>2. Cardinality(Charged') = Cardinality(Charged) + 1
      BY <1>2, <2>1, FS_AddElement
    <2>3. toolReserved' = toolReserved + 1 /\ toolReserved < ToolLimit
      BY <1>4 DEF Create, BudgetLeft
    <2> QED
      BY <1>2, <1>3, <2>2, <2>3, ToolLimitAssumption DEF BudgetExact
  <1>5. CASE ~ConsumesBudget(s)
    <2>1. Charged' = Charged
      BY <1>1, <1>5 DEF Charged
    <2>2. toolReserved' = toolReserved
      BY <1>2, <1>3, <1>5 DEF Create
    <2> QED
      BY <1>3, <2>1, <2>2 DEF BudgetExact
  <1> QED
    BY <1>4, <1>5

(* Recovery gives back exactly what the reserved records were charged.      *)
LEMMA BudgetRecover ==
  ASSUME TypeOK, BudgetExact, RecoverOwner
  PROVE  BudgetExact' /\ toolReserved' \in Nat
  <1>1. Ids' = Ids /\ \A i \in Ids : invocations'[i] = Recovered(invocations[i])
    BY RecoveredLedger
  <1>2. \A i \in Ids : invocations[i] \in Records
    BY LedgerFunction
  <1>3. \A i \in Ids : Recovered(invocations[i]).counted =
                         (invocations[i].counted /\ invocations[i].status # "reserved")
    BY <1>2, RecoveredFields
  <1>4. Charged' = Charged \ Refunds /\ Charged \cap Refunds = Refunds
    BY <1>1, <1>2, <1>3 DEF Charged, Refunds, Records
  <1>5. IsFiniteSet(Charged) /\ IsFiniteSet(Refunds) /\ IsFiniteSet(Charged')
    BY <1>4, LedgerFinite, FS_Difference DEF Charged, Refunds
  <1>6. Cardinality(Charged') = Cardinality(Charged) - Cardinality(Refunds)
    BY <1>4, <1>5, FS_Difference
  <1>7. /\ Cardinality(Charged) \in Nat /\ Cardinality(Refunds) \in Nat
        /\ Cardinality(Charged') \in Nat
    BY <1>5, FS_CardinalityType
  <1>8. toolReserved' = toolReserved - Cardinality(Refunds)
    BY DEF RecoverOwner
  <1> QED
    BY <1>6, <1>7, <1>8, ToolLimitAssumption DEF BudgetExact

(* A step that keeps the charge of every record keeps the budget.           *)
LEMMA BudgetKept ==
  ASSUME BudgetExact, Ids' = Ids, toolReserved' = toolReserved,
         \A i \in Ids : invocations'[i].counted = invocations[i].counted
  PROVE  BudgetExact'
  <1>1. Charged' = Charged
    BY DEF Charged
  <1> QED
    BY <1>1 DEF BudgetExact

(* --------------------------------------------- the shapes of lease steps *)

(* The holder writes an outcome: status and replayability, nothing else.    *)
Concluded(l, rec) ==
  /\ rec \in Records /\ rec.status \in {"succeeded", "failed"}
  /\ rec.slot = invocations[l.inv].slot /\ rec.input = invocations[l.inv].input
  /\ rec.counted = invocations[l.inv].counted
  /\ rec.acknowledged = invocations[l.inv].acknowledged
  /\ Conclude(l, rec)

(* Leases end, and at most one node lease starts to unwind.                 *)
LeasesEnd ==
  /\ leases' \subseteq Leases
  /\ \A m \in leases' : \E k \in leases :
       /\ m.inv = k.inv /\ m.claim = k.claim
       /\ m = k \/ (Kind(k.inv) = "node_result" /\ m.phase = "raising")
  /\ \A k, m \in leases' : k.inv = m.inv => k = m

(* Leases end without a word to the ledger.                                 *)
Silent ==
  /\ LeasesEnd
  /\ claim' \in {claim, NoClaim}
  /\ UNCHANGED <<control, claimEpoch, invocations, history>>

LEMMA RaisingEndsLeases ==
  ASSUME TypeOK, LeaseFacts, NEW l \in leases, Kind(l.inv) = "node_result",
         leases' = Raising(l)
  PROVE  LeasesEnd
  <1> DEFINE r == [l EXCEPT !.phase = "raising"]
  <1>1. /\ r \in Leases /\ r.inv = l.inv /\ r.claim = l.claim /\ r.phase = "raising"
    BY DEF TypeOK, Leases
  <1>2. leases' = (leases \ ({l} \cup Below(l))) \cup {r}
    BY DEF Raising
  <1>3. \A m \in leases' : m = r \/ (m \in leases /\ m # l)
    BY <1>2
  <1> HIDE DEF r
  <1>4. leases' \subseteq Leases
    BY <1>1, <1>3 DEF TypeOK
  <1>5. \A k, m \in leases' : k.inv = m.inv => k = m
    BY <1>1, <1>3 DEF LeaseFacts
  <1> QED
    BY <1>1, <1>3, <1>4, <1>5 DEF LeasesEnd

LEMMA FewerLeases ==
  ASSUME TypeOK, LeaseFacts, leases' \subseteq leases
  PROVE  LeasesEnd
  BY DEF LeasesEnd, LeaseFacts, TypeOK

LEMMA LeaseStepShape ==
  ASSUME TypeOK, LeaseFacts, LeaseStep
  PROVE  \/ \E l \in leases : Dispatch(l)
         \/ \E l \in leases : \E rec : Concluded(l, rec)
         \/ \E l, m \in leases : HttpUnknown(m, l)
         \/ Silent
  <1>1. PICK l \in leases :
          \/ Dispatch(l)
          \/ \E replayable \in BOOLEAN : Confirm(l, replayable)
          \/ Fail(l)
          \/ \E outcome \in {"succeeded", "failed"} : HttpAnswered(l, outcome)
          \/ \E m \in leases : HttpUnknown(m, l)
          \/ TimeOut(l)
          \/ Unwind(l)
          \/ Drop(l)
    BY DEF LeaseStep
  <1>2. l.inv \in Ids /\ invocations[l.inv] \in Records
    BY LedgerFunction DEF LeaseFacts
  <1>3. ASSUME NEW replayable \in BOOLEAN, Confirm(l, replayable)
        PROVE  \E rec : Concluded(l, rec)
    <2> DEFINE rec == [invocations[l.inv] EXCEPT !.status = "succeeded", !.replayable = replayable]
    <2>1. Conclude(l, rec)
      BY <1>3 DEF Confirm
    <2>2. /\ rec \in Records /\ rec.status \in {"succeeded", "failed"}
          /\ rec.slot = invocations[l.inv].slot /\ rec.input = invocations[l.inv].input
          /\ rec.counted = invocations[l.inv].counted
          /\ rec.acknowledged = invocations[l.inv].acknowledged
      BY <1>2 DEF Records, Statuses
    <2> QED
      BY <2>1, <2>2 DEF Concluded
  <1>4. ASSUME Fail(l)
        PROVE  \E rec : Concluded(l, rec)
    <2> DEFINE rec == [invocations[l.inv] EXCEPT !.status = "failed"]
    <2>1. Conclude(l, rec)
      BY <1>4 DEF Fail
    <2>2. /\ rec \in Records /\ rec.status \in {"succeeded", "failed"}
          /\ rec.slot = invocations[l.inv].slot /\ rec.input = invocations[l.inv].input
          /\ rec.counted = invocations[l.inv].counted
          /\ rec.acknowledged = invocations[l.inv].acknowledged
      BY <1>2 DEF Records, Statuses
    <2> QED
      BY <2>1, <2>2 DEF Concluded
  <1>5. ASSUME NEW outcome \in {"succeeded", "failed"}, HttpAnswered(l, outcome)
        PROVE  \E rec : Concluded(l, rec)
    <2> DEFINE rec == [invocations[l.inv] EXCEPT !.status = outcome]
    <2>1. Conclude(l, rec)
      BY <1>5 DEF HttpAnswered
    <2>2. /\ rec \in Records /\ rec.status \in {"succeeded", "failed"}
          /\ rec.slot = invocations[l.inv].slot /\ rec.input = invocations[l.inv].input
          /\ rec.counted = invocations[l.inv].counted
          /\ rec.acknowledged = invocations[l.inv].acknowledged
      BY <1>2 DEF Records, Statuses
    <2> QED
      BY <2>1, <2>2 DEF Concluded
  <1>6. ASSUME TimeOut(l)
        PROVE  Silent
    BY <1>6, FewerLeases DEF TimeOut, Silent, history
  <1>7. ASSUME Unwind(l)
        PROVE  Silent
    BY <1>7, RaisingEndsLeases DEF Unwind, Silent, history
  <1>8. ASSUME Drop(l)
        PROVE  Silent
    BY <1>8, FewerLeases DEF Drop, Silent, history
  <1> QED
    BY <1>1, <1>3, <1>4, <1>5, <1>6, <1>7, <1>8

(* Begin steps create one record under a claim.                             *)
Creates == \E s \in Slots, x \in Inputs, c \in Claims, p \in Nat : Create(s, x, c, p)

LEMMA BeginStepShape ==
  ASSUME TypeOK, BeginStep
  PROVE  Creates
  <1>1. PICK s \in Slots, x \in Inputs :
          \/ BeginNode(s, x)
          \/ \E l \in leases : BeginCall(l, s, x) \/ BeginHttp(l, s, x)
    BY DEF BeginStep
  <1>2. CASE BeginNode(s, x)
    BY <1>2 DEF BeginNode, Creates, TypeOK
  <1>3. ASSUME NEW l \in leases, BeginCall(l, s, x) \/ BeginHttp(l, s, x)
        PROVE  Creates
    <2>1. l.claim \in Claims /\ l.inv \in Nat
      BY DEF TypeOK, Leases
    <2>2. Create(s, x, l.claim, l.inv)
      BY <1>3 DEF BeginCall, BeginHttp
    <2> QED
      BY <2>1, <2>2 DEF Creates
  <1> QED
    BY <1>1, <1>2, <1>3

LEMMA CrashSilent ==
  ASSUME TypeOK, LeaseFacts, Crash
  PROVE  Silent
  BY FewerLeases DEF Crash, Silent, history

(* The shapes of all steps.                                                 *)
LEMMA StepShape ==
  ASSUME TypeOK, LeaseFacts, Next
  PROVE  \/ \E r \in Requests : \E acks \in SUBSET ActiveUnknown : Claim(r, acks)
         \/ Release(claim)
         \/ \E delete \in BOOLEAN : Cancel(delete)
         \/ RecoverOwner
         \/ Creates
         \/ \E l \in leases : Dispatch(l)
         \/ \E l \in leases : \E rec : Concluded(l, rec)
         \/ \E l, m \in leases : HttpUnknown(m, l)
         \/ Silent
  BY BeginStepShape, CrashSilent, LeaseStepShape DEF Next, ControlStep

(* The three kinds of write, record by record: only the status (and whether *)
(* the answer may be replayed) of the lease's own record changes.           *)
OnlyStatus(n, status) ==
  /\ Ids' = Ids
  /\ UNCHANGED control
  /\ invocations'[n].status = status
  /\ \A i \in Ids :
       /\ invocations'[i].slot = invocations[i].slot
       /\ invocations'[i].input = invocations[i].input
       /\ invocations'[i].counted = invocations[i].counted
       /\ invocations'[i].acknowledged = invocations[i].acknowledged
  /\ \A i \in Ids : i # n => invocations'[i] = invocations[i]

LEMMA DispatchWrites ==
  ASSUME TypeOK, LeaseFacts, NEW l \in leases, Dispatch(l)
  PROVE  OnlyStatus(l.inv, "dispatched")
  <1> DEFINE rec == [invocations[l.inv] EXCEPT !.status = "dispatched"]
  <1>1. l.inv \in Ids /\ invocations[l.inv] \in Records
    BY LedgerFunction DEF LeaseFacts
  <1>2. /\ rec \in Records /\ rec.status = "dispatched"
        /\ rec.slot = invocations[l.inv].slot /\ rec.input = invocations[l.inv].input
        /\ rec.counted = invocations[l.inv].counted
        /\ rec.acknowledged = invocations[l.inv].acknowledged
    BY <1>1 DEF Records, Statuses
  <1>3. Write(l, rec)
    BY DEF Dispatch
  <1> HIDE DEF rec
  <1> QED
    BY <1>2, <1>3, Written DEF OnlyStatus, Write

LEMMA UnknownWrites ==
  ASSUME TypeOK, LeaseFacts, NEW l \in leases, NEW m \in leases, HttpUnknown(m, l)
  PROVE  OnlyStatus(m.inv, "unknown")
  <1> DEFINE rec == [invocations[m.inv] EXCEPT !.status = "unknown"]
  <1>1. m.inv \in Ids /\ invocations[m.inv] \in Records
    BY LedgerFunction DEF LeaseFacts
  <1>2. /\ rec \in Records /\ rec.status = "unknown"
        /\ rec.slot = invocations[m.inv].slot /\ rec.input = invocations[m.inv].input
        /\ rec.counted = invocations[m.inv].counted
        /\ rec.acknowledged = invocations[m.inv].acknowledged
    BY <1>1 DEF Records, Statuses
  <1>3. Write(m, rec)
    BY DEF HttpUnknown
  <1> HIDE DEF rec
  <1>4. /\ Ids' = Ids /\ invocations'[m.inv] = rec
        /\ \A i \in Ids : i # m.inv => invocations'[i] = invocations[i]
    BY <1>2, <1>3, Written
  <1>5. UNCHANGED control
    BY <1>3 DEF Write
  <1> QED
    BY <1>2, <1>4, <1>5 DEF OnlyStatus

LEMMA ConcludeWrites ==
  ASSUME TypeOK, LeaseFacts, NEW l \in leases, NEW rec, Concluded(l, rec)
  PROVE  OnlyStatus(l.inv, rec.status)
  <1>1. Write(l, rec)
    BY DEF Concluded, Conclude
  <1> QED
    BY <1>1, Written DEF OnlyStatus, Concluded, Write

(* ------------------------------------------------------ type correctness *)

LEMMA TypeStep ==
  ASSUME TypeOK, LeaseFacts, BudgetExact, Next
  PROVE  TypeOK'
  <1>1. ASSUME NEW r \in Requests, NEW acks \in SUBSET ActiveUnknown, Claim(r, acks)
        PROVE  TypeOK'
    <2>1. invocations' \in Seq(Records)
      BY <1>1, Claimed
    <2>2. epoch' \in Nat /\ owner' = r /\ claim' \in Claims
      BY <1>1 DEF Claim, NextEpoch, Claims, TypeOK
    <2>3. claimEpoch' \in [DOMAIN claimEpoch' -> Nat] /\ DOMAIN claimEpoch' \subseteq Requests
      BY <1>1 DEF Claim, NextEpoch, TypeOK
    <2>4. confirmed' \subseteq Nat
      BY <1>1, LedgerFunction DEF Claim, TypeOK, ActiveUnknown
    <2> QED
      BY <1>1, <2>1, <2>2, <2>3, <2>4 DEF Claim, TypeOK
  <1>2. ASSUME Release(claim)
        PROVE  TypeOK'
    BY <1>2 DEF Release, TypeOK, history
  <1>3. ASSUME NEW delete \in BOOLEAN, Cancel(delete)
        PROVE  TypeOK'
    BY <1>3 DEF Cancel, TypeOK, history
  <1>4. ASSUME RecoverOwner
        PROVE  TypeOK'
    BY <1>4, RecoveredLedger, BudgetRecover DEF RecoverOwner, TypeOK, history
  <1>5. ASSUME NEW s \in Slots, NEW x \in Inputs, NEW c \in Claims, NEW p \in Nat,
               Create(s, x, c, p)
        PROVE  TypeOK'
    <2>1. invocations' \in Seq(Records)
      BY <1>5, Created
    <2>2. leases' \subseteq Leases
      BY <1>5, LedgerFunction DEF Create, TypeOK, Leases
    <2> QED
      BY <1>5, <2>1, <2>2 DEF Create, TypeOK, history
  <1>6. ASSUME NEW l \in leases, Dispatch(l)
        PROVE  TypeOK'
    <2>1. l.inv \in Ids /\ invocations[l.inv] \in Records /\ l.inv \in Nat /\ l \in Leases
      BY LedgerFunction DEF LeaseFacts, TypeOK
    <2>2. [invocations[l.inv] EXCEPT !.status = "dispatched"] \in Records
      BY <2>1 DEF Records, Statuses
    <2>3. invocations' \in Seq(Records)
      BY <1>6, <2>2, Written DEF Dispatch
    <2>4. leases' \subseteq Leases
      BY <1>6, <2>1 DEF Dispatch, TypeOK, Leases
    <2>5. sent' \subseteq Nat
      BY <1>6, <2>1 DEF Dispatch, TypeOK
    <2> QED
      BY <1>6, <2>3, <2>4, <2>5 DEF Dispatch, Write, TypeOK, control
  <1>7. ASSUME NEW l \in leases, NEW rec, Concluded(l, rec)
        PROVE  TypeOK'
    <2>1. l.inv \in Nat /\ rec \in Records
      BY <1>7, LedgerFunction DEF LeaseFacts, Concluded
    <2>2. invocations' \in Seq(Records)
      BY <1>7, <2>1, Written DEF Concluded, Conclude
    <2> QED
      BY <1>7, <2>1, <2>2 DEF Concluded, Conclude, Write, TypeOK, control
  <1>8. ASSUME NEW l \in leases, NEW m \in leases, HttpUnknown(m, l)
        PROVE  TypeOK'
    <2>1. m.inv \in Ids /\ invocations[m.inv] \in Records
      BY LedgerFunction DEF LeaseFacts
    <2>2. [invocations[m.inv] EXCEPT !.status = "unknown"] \in Records
      BY <2>1 DEF Records, Statuses
    <2>3. invocations' \in Seq(Records)
      BY <1>8, <2>2, Written DEF HttpUnknown
    <2>4. leases' \subseteq Leases
      BY <1>8, RaisingEndsLeases DEF HttpUnknown, LeasesEnd
    <2> QED
      BY <1>8, <2>3, <2>4 DEF HttpUnknown, Write, TypeOK, control
  <1>9. ASSUME Silent
        PROVE  TypeOK'
    BY <1>9 DEF Silent, LeasesEnd, TypeOK, control, history
  <1> QED
    BY StepShape, <1>1, <1>2, <1>3, <1>4, <1>5, <1>6, <1>7, <1>8, <1>9 DEF Creates

LEMMA BudgetStep ==
  ASSUME TypeOK, LeaseFacts, BudgetExact, Next
  PROVE  BudgetExact'
  <1>1. ASSUME NEW r \in Requests, NEW acks \in SUBSET ActiveUnknown, Claim(r, acks)
        PROVE  BudgetExact'
    BY <1>1, Claimed, ClaimedFields, BudgetKept DEF Claim
  <1>2. ASSUME Release(claim) \/ Silent \/ \E delete \in BOOLEAN : Cancel(delete)
        PROVE  BudgetExact'
    BY <1>2, BudgetKept DEF Release, Cancel, Silent, control, Ids
  <1>3. ASSUME NEW l \in leases, Dispatch(l)
        PROVE  BudgetExact'
    BY <1>3, DispatchWrites, BudgetKept DEF OnlyStatus, control
  <1>4. ASSUME NEW l \in leases, NEW rec, Concluded(l, rec)
        PROVE  BudgetExact'
    BY <1>4, ConcludeWrites, BudgetKept DEF OnlyStatus, control
  <1>5. ASSUME NEW l \in leases, NEW m \in leases, HttpUnknown(m, l)
        PROVE  BudgetExact'
    BY <1>5, UnknownWrites, BudgetKept DEF OnlyStatus, control
  <1> QED
    BY StepShape, BudgetCreate, BudgetRecover, <1>1, <1>2, <1>3, <1>4, <1>5 DEF Creates

(* ---------------------------------------------- leases and the history *)

LEMMA LeaseFactsStep ==
  ASSUME TypeOK, LeaseFacts, HistoryFacts, Next
  PROVE  LeaseFacts'
  <1>0. /\ epoch \in Nat /\ leases \subseteq Leases /\ Len(invocations) \in Nat
        /\ Ids = 1 .. Len(invocations)
        /\ \A i \in Ids : invocations[i] \in Records
        /\ \A l \in leases : l.claim.epoch \in Nat /\ l.claim.owner \in Requests /\ l.inv \in Nat
    BY LedgerFunction DEF TypeOK, Leases, Claims
  <1>1. ASSUME NEW r \in Requests, NEW acks \in SUBSET ActiveUnknown, Claim(r, acks)
        PROVE  LeaseFacts'
    <2>1. epoch' = epoch + 1 /\ UNCHANGED <<leases, answered>>
      BY <1>1 DEF Claim, NextEpoch
    <2>2. /\ Ids' = Ids
          /\ \A i \in Ids : invocations'[i].slot = invocations[i].slot
      BY <1>1, Claimed, ClaimedFields
    <2> QED
      BY <1>0, <2>1, <2>2 DEF LeaseFacts, Kind
  <1>2. ASSUME Release(claim)
        PROVE  LeaseFacts'
    <2>1. /\ owner' \in {owner, NoRequest}
          /\ UNCHANGED <<epoch, invocations, leases, answered>>
      BY <1>2 DEF Release, history
    <2> QED
      BY <1>0, <2>1, NoRequestAssumption DEF LeaseFacts, Kind, Ids
  <1>3. ASSUME NEW delete \in BOOLEAN, Cancel(delete)
        PROVE  LeaseFacts'
    <2>1. epoch' = epoch + 1 /\ UNCHANGED <<invocations, leases, answered>>
      BY <1>3 DEF Cancel, history
    <2> QED
      BY <1>0, <2>1 DEF LeaseFacts, Kind, Ids
  <1>4. ASSUME RecoverOwner
        PROVE  LeaseFacts'
    <2>1. epoch' = epoch + 1 /\ UNCHANGED <<leases, answered>>
      BY <1>4 DEF RecoverOwner, history
    <2>2. /\ Ids' = Ids
          /\ \A i \in Ids : invocations'[i] = Recovered(invocations[i])
      BY <1>4, RecoveredLedger
    <2>3. \A i \in Ids : invocations'[i].slot = invocations[i].slot
      BY <1>0, <2>2, RecoveredFields
    <2> QED
      BY <1>0, <2>1, <2>2, <2>3 DEF LeaseFacts, Kind
  <1>5. ASSUME NEW s \in Slots, NEW x \in Inputs, NEW c \in Claims, NEW p \in Nat,
               Create(s, x, c, p)
        PROVE  LeaseFacts'
    <2> DEFINE n == Len(invocations) + 1
    <2> DEFINE new == [inv |-> n, claim |-> c, phase |-> "begun"]
    <2>1. /\ Ids' = Ids \cup {n} /\ n \notin Ids
          /\ \A i \in Ids : invocations'[i] = invocations[i]
      BY <1>5, Created
    <2>2. invocations'[n].status = "reserved"
      BY <1>5, CreatedFields
    <2>3. leases' = leases \cup {new} /\ UNCHANGED <<owner, epoch, answered>>
      BY <1>5 DEF Create, history
    <2>4. new.inv = n /\ new.claim = c /\ new.phase = "begun"
      OBVIOUS
    <2>5. c.epoch <= epoch /\ n \notin answered
      BY <1>0, <1>5, <2>1 DEF Create, Valid, HistoryFacts
    <2> HIDE DEF n, new
    <2> QED
      BY <2>1, <2>2, <2>3, <2>4, <2>5 DEF LeaseFacts, Kind
  <1>6. ASSUME NEW l \in leases, Dispatch(l)
        PROVE  LeaseFacts'
    <2> DEFINE new == [l EXCEPT !.phase = "sent"]
    <2>1. OnlyStatus(l.inv, "dispatched") /\ UNCHANGED answered
      BY <1>6, DispatchWrites DEF Dispatch
    <2>2. leases' = (leases \ {l}) \cup {new} /\ Kind(l.inv) # "node_result"
      BY <1>6 DEF Dispatch
    <2>3. new.inv = l.inv /\ new.claim = l.claim /\ new.phase = "sent"
      BY <1>0 DEF Leases
    <2> HIDE DEF new
    <2> QED
      BY <2>1, <2>2, <2>3 DEF LeaseFacts, Kind, OnlyStatus, control
  <1>7. ASSUME NEW l \in leases, NEW rec, Concluded(l, rec)
        PROVE  LeaseFacts'
    <2>1. OnlyStatus(l.inv, rec.status)
      BY <1>7, ConcludeWrites
    <2>2. leases' = leases \ {l} /\ answered' = answered \cup {l.inv}
      BY <1>7 DEF Concluded, Conclude
    <2> QED
      BY <2>1, <2>2 DEF LeaseFacts, Kind, OnlyStatus, control
  <1>8. ASSUME NEW l \in leases, NEW m \in leases, HttpUnknown(m, l)
        PROVE  LeaseFacts'
    <2>1. OnlyStatus(m.inv, "unknown") /\ UNCHANGED answered
      BY <1>8, UnknownWrites DEF HttpUnknown
    <2>2. /\ leases' = (leases \ ({l} \cup Below(l))) \cup {[l EXCEPT !.phase = "raising"]}
          /\ m \in Below(l) /\ Kind(l.inv) = "node_result"
      BY <1>8 DEF HttpUnknown, Raising
    <2> DEFINE new == [l EXCEPT !.phase = "raising"]
    <2>3. new.inv = l.inv /\ new.claim = l.claim /\ new.phase = "raising"
      BY <1>0 DEF Leases
    <2>4. leases' \subseteq (leases \ {l, m}) \cup {new} /\ m # l
      BY <2>2 DEF Below
    <2> HIDE DEF new
    <2>5. l.phase # "sent"
      BY <2>2 DEF LeaseFacts
    <2>6. \A k \in leases' : (k \in leases /\ k # l /\ k # m) \/ k = new
      BY <2>4
    <2> QED
      BY <2>1, <2>2, <2>3, <2>4, <2>5, <2>6 DEF LeaseFacts, Kind, OnlyStatus, control
  <1>9. ASSUME Silent
        PROVE  LeaseFacts'
    BY <1>9 DEF Silent, LeasesEnd, LeaseFacts, Kind, Ids, control, history
  <1> QED
    BY StepShape, <1>1, <1>2, <1>3, <1>4, <1>5, <1>6, <1>7, <1>8, <1>9 DEF Creates

(* The two facts about what was sent: the history matches the ledger, and   *)
(* a tool that was sent keeps its charge.                                    *)
SentFacts == HistoryFacts /\ SentToolsCharged /\ SentIsVisible

LEMMA SentFactsStep ==
  ASSUME TypeOK, LeaseFacts, SentFacts, Next
  PROVE  SentFacts'
  <1>0. /\ Len(invocations) \in Nat /\ Ids = 1 .. Len(invocations)
        /\ \A i \in Ids : invocations[i] \in Records
        /\ \A l \in leases : l.inv \in Ids
    BY LedgerFunction DEF LeaseFacts
  <1>1. ASSUME NEW r \in Requests, NEW acks \in SUBSET ActiveUnknown, Claim(r, acks)
        PROVE  SentFacts'
    <2>1. /\ UNCHANGED <<sent, answered>> /\ confirmed' = confirmed \cup acks
          /\ ActiveUnknown \subseteq acks
      BY <1>1 DEF Claim, Acknowledged
    <2>2. /\ Ids' = Ids
          /\ \A i \in Ids :
               /\ invocations'[i].slot = invocations[i].slot
               /\ invocations'[i].status = invocations[i].status
               /\ invocations'[i].counted = invocations[i].counted
               /\ invocations'[i].acknowledged => invocations[i].acknowledged \/ i \in ActiveUnknown
      BY <1>1, Claimed, ClaimedFields
    <2> QED
      BY <2>1, <2>2 DEF SentFacts, HistoryFacts, SentToolsCharged, SentIsVisible, Kind
  <1>2. ASSUME Release(claim) \/ Silent \/ \E delete \in BOOLEAN : Cancel(delete)
        PROVE  SentFacts'
    <2>1. UNCHANGED <<invocations, confirmed, sent, answered>>
      BY <1>2 DEF Release, Silent, Cancel, history
    <2> QED
      BY <2>1 DEF SentFacts, HistoryFacts, SentToolsCharged, SentIsVisible, Kind, Ids
  <1>3. ASSUME RecoverOwner
        PROVE  SentFacts'
    <2>1. UNCHANGED <<sent, answered, confirmed>>
      BY <1>3 DEF RecoverOwner, history
    <2>2. /\ Ids' = Ids
          /\ \A i \in Ids : invocations'[i] = Recovered(invocations[i])
      BY <1>3, RecoveredLedger
    <2>3. \A i \in Ids :
            /\ invocations'[i].slot = invocations[i].slot
            /\ invocations'[i].acknowledged = invocations[i].acknowledged
            /\ invocations'[i].counted =
                 (invocations[i].counted /\ invocations[i].status # "reserved")
            /\ invocations'[i].status =
                 IF invocations[i].status = "dispatched" THEN "unknown"
                 ELSE IF invocations[i].status = "reserved" THEN "failed"
                 ELSE invocations[i].status
      BY <1>0, <2>2, RecoveredFields
    <2> QED
      BY <2>1, <2>2, <2>3 DEF SentFacts, HistoryFacts, SentToolsCharged, SentIsVisible, Kind
  <1>4. ASSUME NEW s \in Slots, NEW x \in Inputs, NEW c \in Claims, NEW p \in Nat,
               Create(s, x, c, p)
        PROVE  SentFacts'
    <2> DEFINE n == Len(invocations) + 1
    <2>1. /\ Ids' = Ids \cup {n} /\ n \notin Ids
          /\ \A i \in Ids : invocations'[i] = invocations[i]
      BY <1>4, Created
    <2>2. /\ invocations'[n].slot = s /\ invocations'[n].counted = ConsumesBudget(s)
          /\ ~invocations'[n].acknowledged
      BY <1>4, CreatedFields
    <2>3. UNCHANGED <<sent, answered, confirmed>>
      BY <1>4 DEF Create, history
    <2> HIDE DEF n
    <2>4. n \notin sent
      BY <2>1 DEF SentFacts, HistoryFacts
    <2> QED
      BY <2>1, <2>2, <2>3, <2>4
      DEF SentFacts, HistoryFacts, SentToolsCharged, SentIsVisible, Kind, ConsumesBudget
  <1>5. ASSUME NEW l \in leases, Dispatch(l)
        PROVE  SentFacts'
    <2>1. OnlyStatus(l.inv, "dispatched") /\ sent' = sent \cup {l.inv} /\ UNCHANGED answered
      BY <1>5, DispatchWrites DEF Dispatch
    <2>2. UNCHANGED confirmed
      BY <1>5 DEF Dispatch, Write
    <2>3. owner = l.claim.owner /\ epoch = l.claim.epoch /\ l.phase = "begun"
      BY <1>5 DEF Dispatch, Write, MayWrite, Valid
    <2>4. invocations[l.inv].status = "reserved"
      BY <2>3 DEF LeaseFacts
    <2> QED
      BY <1>0, <2>1, <2>2, <2>4
      DEF SentFacts, HistoryFacts, SentToolsCharged, SentIsVisible, Kind, OnlyStatus
  <1>6. ASSUME NEW l \in leases, NEW rec, Concluded(l, rec)
        PROVE  SentFacts'
    <2>1. /\ OnlyStatus(l.inv, rec.status) /\ rec.status # "reserved"
          /\ answered' = answered \cup {l.inv} /\ UNCHANGED <<sent, confirmed>>
      BY <1>6, ConcludeWrites DEF Concluded, Conclude, Write
    <2>2. HistoryFacts'
      BY <1>0, <2>1 DEF SentFacts, HistoryFacts, Kind, OnlyStatus
    <2>3. SentToolsCharged'
      BY <1>0, <2>1 DEF SentFacts, HistoryFacts, SentToolsCharged, Kind, OnlyStatus
    <2>4. SentIsVisible'
      BY <1>0, <2>1 DEF SentFacts, HistoryFacts, SentIsVisible, OnlyStatus
    <2> QED
      BY <2>2, <2>3, <2>4 DEF SentFacts
  <1>7. ASSUME NEW l \in leases, NEW m \in leases, HttpUnknown(m, l)
        PROVE  SentFacts'
    <2>1. OnlyStatus(m.inv, "unknown") /\ UNCHANGED <<answered, sent, confirmed>>
      BY <1>7, UnknownWrites DEF HttpUnknown, Write
    <2> QED
      BY <1>0, <2>1
      DEF SentFacts, HistoryFacts, SentToolsCharged, SentIsVisible, Kind, OnlyStatus
  <1> QED
    BY StepShape, <1>1, <1>2, <1>3, <1>4, <1>5, <1>6, <1>7 DEF Creates

(* ------------------------------------------------------ retries, fencing *)

(* A record that would be settled again after the step is one that was; the *)
(* step keeps the calls apart and forgets no confirmation.                  *)
LEMMA RetryKept ==
  ASSUME RetryConfirmed, Ids' = Ids, confirmed \subseteq confirmed', answered \subseteq answered',
         \A i \in Ids : /\ invocations'[i].slot = invocations[i].slot
                        /\ invocations'[i].input = invocations[i].input
                        /\ Settled(invocations[i]) =>
                             Settled(invocations'[i]) /\ (i \in sent' => i \in sent)
  PROVE  RetryConfirmed'
  <1> SUFFICES ASSUME NEW i \in Ids, NEW j \in Ids, i < j, SameCall(i, j)'
               PROVE  /\ Settled(invocations'[i])
                      /\ i \in sent' \ answered' => i \in confirmed'
    BY DEF RetryConfirmed
  <1>1. SameCall(i, j)
    BY DEF SameCall, Kind
  <1>2. Settled(invocations[i]) /\ (i \in sent \ answered => i \in confirmed)
    BY <1>1 DEF RetryConfirmed
  <1> QED
    BY <1>2

LEMMA RetryStep ==
  ASSUME TypeOK, LeaseFacts, SentFacts, RetryConfirmed, Next
  PROVE  RetryConfirmed'
  <1>0. /\ Len(invocations) \in Nat /\ Ids = 1 .. Len(invocations)
        /\ \A i \in Ids : invocations[i] \in Records
        /\ \A l \in leases : l.inv \in Ids
    BY LedgerFunction DEF LeaseFacts
  <1>1. ASSUME NEW r \in Requests, NEW acks \in SUBSET ActiveUnknown, Claim(r, acks)
        PROVE  RetryConfirmed'
    <2>1. UNCHANGED <<sent, answered>> /\ confirmed' = confirmed \cup acks /\ Ids' = Ids
      BY <1>1, Claimed DEF Claim
    <2>2. \A i \in Ids :
            /\ invocations'[i].slot = invocations[i].slot
            /\ invocations'[i].input = invocations[i].input
            /\ Settled(invocations[i]) => Settled(invocations'[i])
      BY <1>1, ClaimedFields DEF Settled
    <2> QED
      BY <2>1, <2>2, RetryKept
  <1>2. ASSUME Release(claim) \/ Silent \/ \E delete \in BOOLEAN : Cancel(delete)
        PROVE  RetryConfirmed'
    <2>1. UNCHANGED <<invocations, confirmed, sent, answered>>
      BY <1>2 DEF Release, Silent, Cancel, history
    <2> QED
      BY <2>1, RetryKept DEF Ids
  <1>3. ASSUME RecoverOwner
        PROVE  RetryConfirmed'
    <2>1. UNCHANGED <<sent, answered, confirmed>> /\ Ids' = Ids
      BY <1>3, RecoveredLedger DEF RecoverOwner, history
    <2>2. \A i \in Ids :
            /\ invocations'[i].slot = invocations[i].slot
            /\ invocations'[i].input = invocations[i].input
            /\ Settled(invocations[i]) => Settled(invocations'[i])
      BY <1>0, <1>3, RecoveredLedger, RecoveredFields DEF Settled
    <2> QED
      BY <2>1, <2>2, RetryKept
  <1>4. ASSUME NEW s \in Slots, NEW x \in Inputs, NEW c \in Claims, NEW p \in Nat,
               Create(s, x, c, p)
        PROVE  RetryConfirmed'
    <2>0. PICK n \in Nat : n = Len(invocations) + 1
      BY <1>0
    <2>1. /\ Ids' = Ids \cup {n} /\ n \notin Ids
          /\ \A i \in Ids : invocations'[i] = invocations[i]
      BY <1>4, <2>0, Created
    <2>2. invocations'[n].slot = s /\ invocations'[n].input = x
      BY <1>4, <2>0, CreatedFields
    <2>3. UNCHANGED <<sent, answered, confirmed>>
      BY <1>4 DEF Create, history
    <2>4. ASSUME NEW i \in Ids, SameCall(i, n)'
          PROVE  Settled(invocations[i]) /\ (i \in sent \ answered => i \in confirmed)
      <3>1. /\ invocations[i].slot = s /\ invocations[i].input = x
            /\ KindOf[s] # "http"
        BY <2>1, <2>2, <2>4 DEF SameCall, Kind
      <3>2. Settled(invocations[i])
        BY <1>4, <3>1 DEF Create, MayCreate, Matches
      <3>3. i \in sent \ answered =>
              invocations[i].status = "unknown" /\ invocations[i].acknowledged
        BY <3>2 DEF Settled, SentFacts, SentIsVisible
      <3> QED
        BY <3>2, <3>3 DEF SentFacts, HistoryFacts
    <2>5. ASSUME NEW i \in Ids, NEW j \in Ids, i < j, SameCall(i, j)'
          PROVE  Settled(invocations[i]) /\ (i \in sent \ answered => i \in confirmed)
      BY <2>1, <2>5 DEF RetryConfirmed, SameCall, Kind
    <2>6. \A i, j \in Ids' : i < j => i \in Ids /\ (j \in Ids \/ j = n)
      BY <1>0, <2>0, <2>1
    <2> SUFFICES ASSUME NEW i \in Ids', NEW j \in Ids', i < j, SameCall(i, j)'
                 PROVE  /\ Settled(invocations'[i])
                        /\ i \in sent' \ answered' => i \in confirmed'
      BY DEF RetryConfirmed
    <2> QED
      BY <2>1, <2>3, <2>4, <2>5, <2>6
  <1>5. ASSUME NEW l \in leases, Dispatch(l)
        PROVE  RetryConfirmed'
    <2>1. OnlyStatus(l.inv, "dispatched") /\ sent' = sent \cup {l.inv} /\ UNCHANGED answered
      BY <1>5, DispatchWrites DEF Dispatch
    <2>2. /\ UNCHANGED confirmed
          /\ owner = l.claim.owner /\ epoch = l.claim.epoch /\ l.phase = "begun"
      BY <1>5 DEF Dispatch, Write, MayWrite, Valid
    <2>3. ~Settled(invocations[l.inv])
      BY <2>2 DEF LeaseFacts, Settled
    <2> QED
      BY <2>1, <2>2, <2>3, RetryKept DEF OnlyStatus
  <1>6. ASSUME NEW l \in leases, NEW rec, Concluded(l, rec)
        PROVE  RetryConfirmed'
    <2>1. OnlyStatus(l.inv, rec.status) /\ answered' = answered \cup {l.inv}
      BY <1>6, ConcludeWrites DEF Concluded, Conclude
    <2>2. /\ UNCHANGED <<sent, confirmed>>
          /\ owner = l.claim.owner /\ epoch = l.claim.epoch
      BY <1>6 DEF Concluded, Conclude, Write, MayWrite, Valid
    <2>3. ~Settled(invocations[l.inv])
      BY <2>2 DEF LeaseFacts, Settled
    <2> QED
      BY <2>1, <2>2, <2>3, RetryKept DEF OnlyStatus
  <1>7. ASSUME NEW l \in leases, NEW m \in leases, HttpUnknown(m, l)
        PROVE  RetryConfirmed'
    <2>1. OnlyStatus(m.inv, "unknown") /\ UNCHANGED <<answered, sent, confirmed>>
      BY <1>7, UnknownWrites DEF HttpUnknown, Write
    <2>2. owner = m.claim.owner /\ epoch = m.claim.epoch
      BY <1>7 DEF HttpUnknown, Write, MayWrite, Valid
    <2>3. ~Settled(invocations[m.inv])
      BY <2>2 DEF LeaseFacts, Settled
    <2> QED
      BY <2>1, <2>3, RetryKept DEF OnlyStatus
  <1> QED
    BY StepShape, <1>1, <1>2, <1>3, <1>4, <1>5, <1>6, <1>7 DEF Creates

LEMMA FencingStep ==
  ASSUME TypeOK, LeaseFacts, FencingTokensDistinct, Next
  PROVE  FencingTokensDistinct'
  <1>0. epoch \in Nat /\ \A q \in DOMAIN claimEpoch : claimEpoch[q] \in Nat
    BY DEF TypeOK
  <1>1. ASSUME NEW r \in Requests, NEW acks \in SUBSET ActiveUnknown, Claim(r, acks)
        PROVE  FencingTokensDistinct'
    <2>1. /\ epoch' = epoch + 1
          /\ DOMAIN claimEpoch' = DOMAIN claimEpoch \cup {r}
          /\ r \notin DOMAIN claimEpoch
          /\ claimEpoch'[r] = epoch + 1
          /\ \A q \in DOMAIN claimEpoch : claimEpoch'[q] = claimEpoch[q]
      BY <1>1 DEF Claim, NextEpoch
    <2> QED
      BY <1>0, <2>1 DEF FencingTokensDistinct
  <1>2. ASSUME claimEpoch' = claimEpoch, epoch' \in {epoch, epoch + 1}
        PROVE  FencingTokensDistinct'
    BY <1>0, <1>2 DEF FencingTokensDistinct
  <1>3. Release(claim) \/ RecoverOwner \/ (\E delete \in BOOLEAN : Cancel(delete)) =>
          claimEpoch' = claimEpoch /\ epoch' \in {epoch, epoch + 1}
    BY DEF Release, RecoverOwner, Cancel
  <1>4. Creates \/ Silent => claimEpoch' = claimEpoch /\ epoch' \in {epoch, epoch + 1}
    BY DEF Creates, Create, Silent, control
  <1>5. (\E l \in leases : Dispatch(l)) \/ (\E l \in leases : \E rec : Concluded(l, rec))
          \/ (\E l, m \in leases : HttpUnknown(m, l)) =>
          claimEpoch' = claimEpoch /\ epoch' \in {epoch, epoch + 1}
    BY DEF Dispatch, Concluded, Conclude, HttpUnknown, Write, control
  <1> QED
    BY StepShape, <1>1, <1>2, <1>3, <1>4, <1>5

(* A cancelled run has no owner, gets none, and sends nothing.               *)
LEMMA CancelledStep ==
  ASSUME TypeOK, LeaseFacts, cancelRequested => owner = NoRequest, Next
  PROVE  /\ cancelRequested' => owner' = NoRequest
         /\ cancelRequested => sent' = sent /\ owner' = NoRequest
  <1>1. ASSUME NEW r \in Requests, NEW acks \in SUBSET ActiveUnknown, Claim(r, acks)
        PROVE  ~cancelRequested /\ ~cancelRequested'
    BY <1>1 DEF Claim, Claimable
  <1>2. Release(claim) => /\ owner' \in {owner, NoRequest}
                          /\ UNCHANGED <<cancelRequested, sent>>
    BY DEF Release, history
  <1>3. (\E delete \in BOOLEAN : Cancel(delete)) => owner' = NoRequest /\ UNCHANGED sent
    BY DEF Cancel, history
  <1>4. RecoverOwner => owner' = NoRequest /\ UNCHANGED <<cancelRequested, sent>>
    BY DEF RecoverOwner, history
  <1>5. Creates => UNCHANGED <<owner, cancelRequested, sent>>
    BY DEF Creates, Create, history
  <1>6. Silent => UNCHANGED <<owner, cancelRequested, sent>>
    BY DEF Silent, control, history
  <1>7. ASSUME NEW l \in leases, MayWrite(l)
        PROVE  ~cancelRequested
    BY <1>7 DEF MayWrite, Valid
  <1>8. (\E l \in leases : Dispatch(l)) => UNCHANGED <<owner, cancelRequested>> /\ ~cancelRequested
    BY <1>7 DEF Dispatch, Write, control
  <1>9. (\E l \in leases : \E rec : Concluded(l, rec)) =>
          UNCHANGED <<owner, cancelRequested, sent>>
    BY DEF Concluded, Conclude, Write, control
  <1>10. (\E l, m \in leases : HttpUnknown(m, l)) => UNCHANGED <<owner, cancelRequested, sent>>
    BY DEF HttpUnknown, Write, control
  <1> QED
    BY StepShape, <1>1, <1>2, <1>3, <1>4, <1>5, <1>6, <1>8, <1>9, <1>10

(* ---------------------------------------------------------- the theorems *)

LEMMA InitIInv == Init => IInv
  <1> SUFFICES ASSUME Init PROVE IInv
    OBVIOUS
  <1>1. /\ invocations = << >> /\ Ids = {} /\ leases = {}
        /\ sent = {} /\ answered = {} /\ toolReserved = 0
    BY DEF Init, Ids
  <1>2. TypeOK
    <2>1. claimEpoch \in [DOMAIN claimEpoch -> Nat] /\ DOMAIN claimEpoch \subseteq Requests
      BY DEF Init
    <2>2. invocations \in Seq(Records)
      BY <1>1
    <2> QED
      BY <2>1, <2>2 DEF Init, TypeOK
  <1>3. Charged = {} /\ Cardinality(Charged) = 0
    BY <1>1, FS_EmptySet DEF Charged
  <1>4. BudgetExact
    BY <1>1, <1>3, ToolLimitAssumption DEF BudgetExact
  <1>5. LeaseFacts /\ HistoryFacts /\ SentToolsCharged /\ SentIsVisible /\ RetryConfirmed
    BY <1>1 DEF LeaseFacts, HistoryFacts, SentToolsCharged, SentIsVisible, RetryConfirmed
  <1>6. FencingTokensDistinct /\ ~cancelRequested
    BY DEF Init, FencingTokensDistinct
  <1> QED
    BY <1>2, <1>4, <1>5, <1>6 DEF IInv

(* A step that changes nothing keeps the invariant.                         *)
LEMMA StutterIInv == IInv /\ UNCHANGED vars => IInv'
  BY DEF IInv, vars, control, memory, history, TypeOK, LeaseFacts, HistoryFacts, BudgetExact,
         Charged, SentToolsCharged, SentIsVisible, RetryConfirmed, SameCall, Kind, Settled,
         FencingTokensDistinct, Ids

LEMMA StepIInv == IInv /\ Next => IInv'
  <1> SUFFICES ASSUME IInv, Next PROVE IInv'
    OBVIOUS
  <1>1. /\ TypeOK /\ LeaseFacts /\ HistoryFacts /\ BudgetExact /\ SentFacts
        /\ RetryConfirmed /\ FencingTokensDistinct
    BY DEF IInv, SentFacts
  <1>2. TypeOK' /\ BudgetExact' /\ LeaseFacts'
    BY <1>1, TypeStep, BudgetStep, LeaseFactsStep
  <1>3. SentFacts' /\ RetryConfirmed' /\ FencingTokensDistinct'
    BY <1>1, SentFactsStep, RetryStep, FencingStep
  <1>4. cancelRequested' => owner' = NoRequest
    BY <1>1, CancelledStep DEF IInv
  <1> QED
    BY <1>2, <1>3, <1>4 DEF IInv, SentFacts

THEOREM Inductive == Spec => []IInv
  <1>1. IInv /\ [Next]_vars => IInv'
    BY StepIInv, StutterIInv
  <1> QED
    BY InitIInv, <1>1, PTL DEF Spec

(* Every reachable state is well typed; in particular the durable tool       *)
(* count never goes below zero, however often recovery refunds.              *)
THEOREM TypeCorrect == Spec => []TypeOK
  <1>1. IInv => TypeOK
    BY DEF IInv
  <1> QED
    BY Inductive, <1>1, PTL

(* The durable tool count equals the charged records and stays within the   *)
(* limit, for any number of parallel nodes, retries and recoveries.         *)
THEOREM BudgetIsExact == Spec => []BudgetExact
  <1>1. IInv => BudgetExact
    BY DEF IInv
  <1> QED
    BY Inductive, <1>1, PTL

(* A tool call that left the process is never refunded.                     *)
THEOREM SentToolsStayCharged == Spec => []SentToolsCharged
  <1>1. IInv => SentToolsCharged
    BY DEF IInv
  <1> QED
    BY Inductive, <1>1, PTL

(* No call is repeated over an unanswered one without confirmation.         *)
THEOREM RetriesAreConfirmed == Spec => []RetryConfirmed
  <1>1. IInv => RetryConfirmed
    BY DEF IInv
  <1> QED
    BY Inductive, <1>1, PTL

(* A request that was sent and not answered is never forgotten.             *)
THEOREM SentStaysVisible == Spec => []SentIsVisible
  <1>1. IInv => SentIsVisible
    BY DEF IInv
  <1> QED
    BY Inductive, <1>1, PTL

(* No two claims ever share a fencing epoch.                                *)
THEOREM FencingTokensAreDistinct == Spec => []FencingTokensDistinct
  <1>1. IInv => FencingTokensDistinct
    BY DEF IInv
  <1> QED
    BY Inductive, <1>1, PTL

(* A step never touches the outcome of a final record.                      *)
OutcomesKept ==
  \A i \in Ids : Final(invocations[i]) =>
    /\ invocations'[i].status = invocations[i].status
    /\ invocations'[i].replayable = invocations[i].replayable

LEMMA FinalKept ==
  ASSUME IInv, [Next]_vars
  PROVE  OutcomesKept
  <1>0. TypeOK /\ LeaseFacts /\ \A i \in Ids : invocations[i] \in Records
    BY LedgerFunction DEF IInv
  <1>1. ASSUME NEW r \in Requests, NEW acks \in SUBSET ActiveUnknown, Claim(r, acks)
        PROVE  OutcomesKept
    BY <1>0, <1>1, ClaimedFields DEF OutcomesKept
  <1>2. ASSUME Release(claim) \/ Silent \/ (\E delete \in BOOLEAN : Cancel(delete)) \/ UNCHANGED vars
        PROVE  OutcomesKept
    BY <1>2 DEF Release, Silent, Cancel, vars, OutcomesKept
  <1>3. ASSUME RecoverOwner
        PROVE  OutcomesKept
    BY <1>0, <1>3, RecoveredLedger, RecoveredFields DEF OutcomesKept, Final
  <1>4. ASSUME Creates
        PROVE  OutcomesKept
    BY <1>0, <1>4, Created DEF Creates, OutcomesKept
  <1>5. ASSUME NEW l \in leases, MayWrite(l),
               \A i \in Ids : i # l.inv => invocations'[i] = invocations[i]
        PROVE  OutcomesKept
    <2>1. invocations[l.inv].status \in {"reserved", "dispatched"}
      BY <1>0, <1>5 DEF LeaseFacts, MayWrite, Valid
    <2> QED
      BY <1>5, <2>1 DEF OutcomesKept, Final
  <1>6. ASSUME NEW l \in leases, Dispatch(l)
        PROVE  OutcomesKept
    BY <1>0, <1>5, <1>6, DispatchWrites DEF OnlyStatus, Dispatch, Write
  <1>7. ASSUME NEW l \in leases, NEW rec, Concluded(l, rec)
        PROVE  OutcomesKept
    BY <1>0, <1>5, <1>7, ConcludeWrites DEF OnlyStatus, Concluded, Conclude, Write
  <1>8. ASSUME NEW l \in leases, NEW m \in leases, HttpUnknown(m, l)
        PROVE  OutcomesKept
    BY <1>0, <1>5, <1>8, UnknownWrites DEF OnlyStatus, HttpUnknown, Write
  <1> QED
    BY <1>0, StepShape, <1>1, <1>2, <1>3, <1>4, <1>6, <1>7, <1>8

(* The outcome of an invocation is written once: no late, fenced or         *)
(* repeated writer changes it.                                              *)
THEOREM AnswersAreFinal == Spec => AnswersFinal
  <1>1. IInv /\ [Next]_vars =>
          [\A i \in Ids : Final(invocations[i]) =>
              /\ invocations'[i].status = invocations[i].status
              /\ invocations'[i].replayable = invocations[i].replayable]_vars
    BY FinalKept DEF OutcomesKept
  <1> QED
    BY Inductive, <1>1, PTL DEF Spec, AnswersFinal

(* A cancelled run sends nothing more and is never owned again.             *)
THEOREM CancelledRunsStaySilent == Spec => CancelStopsSending
  <1>1. IInv /\ [Next]_vars =>
          [cancelRequested => sent' = sent /\ owner' = NoRequest]_vars
    BY CancelledStep DEF IInv, vars, control, history
  <1> QED
    BY Inductive, <1>1, PTL DEF Spec, CancelStopsSending

(* ------------------------------------------------- the calls of the ledger *)

(* What the status of a record says of its past: one that is in flight or   *)
(* unknown was sent and not answered, and exactly the acknowledged ones     *)
(* were confirmed.                                                          *)
OutcomeFacts ==
  /\ confirmed \subseteq Ids
  /\ \A i \in Ids :
       /\ invocations[i].status \in {"dispatched", "unknown"} => i \in sent \ answered
       /\ i \in confirmed => invocations[i].acknowledged
       /\ invocations[i].acknowledged => invocations[i].status = "unknown"

LEMMA OutcomeStep ==
  ASSUME TypeOK, LeaseFacts, HistoryFacts, OutcomeFacts, Next
  PROVE  OutcomeFacts'
  <1>0. /\ \A i \in Ids : invocations[i] \in Records
        /\ \A l \in leases : l.inv \in Ids /\ l.inv \notin answered
    BY LedgerFunction DEF LeaseFacts
  <1>1. ASSUME NEW r \in Requests, NEW acks \in SUBSET ActiveUnknown, Claim(r, acks)
        PROVE  OutcomeFacts'
    <2>1. /\ UNCHANGED <<sent, answered>> /\ confirmed' = confirmed \cup ActiveUnknown
      BY <1>1 DEF Claim, Acknowledged
    <2>2. /\ Ids' = Ids
          /\ \A i \in Ids :
               /\ invocations'[i].status = invocations[i].status
               /\ invocations'[i].acknowledged = (invocations[i].acknowledged \/ i \in ActiveUnknown)
      BY <1>1, Claimed, ClaimedFields
    <2> QED
      BY <2>1, <2>2 DEF OutcomeFacts, ActiveUnknown
  <1>2. ASSUME Release(claim) \/ Silent \/ \E delete \in BOOLEAN : Cancel(delete)
        PROVE  OutcomeFacts'
    <2>1. UNCHANGED <<invocations, confirmed, sent, answered>>
      BY <1>2 DEF Release, Silent, Cancel, history
    <2> QED
      BY <2>1 DEF OutcomeFacts, Ids
  <1>3. ASSUME RecoverOwner
        PROVE  OutcomeFacts'
    <2>1. UNCHANGED <<sent, answered, confirmed>>
      BY <1>3 DEF RecoverOwner, history
    <2>2. Ids' = Ids /\ \A i \in Ids : invocations'[i] = Recovered(invocations[i])
      BY <1>3, RecoveredLedger
    <2>3. \A i \in Ids :
            /\ invocations'[i].acknowledged = invocations[i].acknowledged
            /\ invocations'[i].status =
                 IF invocations[i].status = "dispatched" THEN "unknown"
                 ELSE IF invocations[i].status = "reserved" THEN "failed"
                 ELSE invocations[i].status
      BY <1>0, <2>2, RecoveredFields
    <2> QED
      BY <2>1, <2>2, <2>3 DEF OutcomeFacts
  <1>4. ASSUME NEW s \in Slots, NEW x \in Inputs, NEW c \in Claims, NEW p \in Nat,
               Create(s, x, c, p)
        PROVE  OutcomeFacts'
    <2> DEFINE n == Len(invocations) + 1
    <2>1. /\ Ids' = Ids \cup {n} /\ n \notin Ids
          /\ \A i \in Ids : invocations'[i] = invocations[i]
      BY <1>4, Created
    <2>2. invocations'[n].status = "reserved" /\ ~invocations'[n].acknowledged
      BY <1>4, CreatedFields
    <2>3. UNCHANGED <<sent, answered, confirmed>>
      BY <1>4 DEF Create, history
    <2> HIDE DEF n
    <2> QED
      BY <2>1, <2>2, <2>3 DEF OutcomeFacts
  <1>5. ASSUME NEW l \in leases, Dispatch(l)
        PROVE  OutcomeFacts'
    <2>1. /\ OnlyStatus(l.inv, "dispatched") /\ sent' = sent \cup {l.inv}
          /\ UNCHANGED <<answered, confirmed>>
      BY <1>5, DispatchWrites DEF Dispatch, Write
    <2>2. invocations[l.inv].status = "reserved"
      BY <1>5 DEF Dispatch, Write, MayWrite, Valid, LeaseFacts
    <2> QED
      BY <1>0, <2>1, <2>2 DEF OutcomeFacts, OnlyStatus
  <1>6. ASSUME NEW l \in leases, NEW rec, Concluded(l, rec)
        PROVE  OutcomeFacts'
    <2>1. /\ OnlyStatus(l.inv, rec.status)
          /\ answered' = answered \cup {l.inv} /\ UNCHANGED <<sent, confirmed>>
      BY <1>6, ConcludeWrites DEF Concluded, Conclude, Write
    <2>2. invocations[l.inv].status \in {"reserved", "dispatched"}
      BY <1>6 DEF Concluded, Conclude, Write, MayWrite, Valid, LeaseFacts
    <2>3. rec.status \in {"succeeded", "failed"}
      BY <1>6 DEF Concluded
    <2> QED
      BY <1>0, <2>1, <2>2, <2>3 DEF OutcomeFacts, OnlyStatus
  <1>7. ASSUME NEW l \in leases, NEW m \in leases, HttpUnknown(m, l)
        PROVE  OutcomeFacts'
    <2>1. OnlyStatus(m.inv, "unknown") /\ UNCHANGED <<answered, sent, confirmed>>
      BY <1>7, UnknownWrites DEF HttpUnknown, Write
    <2>2. invocations[m.inv].status = "dispatched"
      BY <1>7 DEF HttpUnknown, Write, MayWrite, Valid, LeaseFacts
    <2> QED
      BY <1>0, <2>1, <2>2 DEF OutcomeFacts, OnlyStatus
  <1> QED
    BY StepShape, <1>1, <1>2, <1>3, <1>4, <1>5, <1>6, <1>7 DEF Creates

LEMMA Standings ==
  ASSUME NEW rec \in Records
  PROVE  /\ rec.status = "dispatched" => Standing(rec) = "dispatched"
         /\ rec.status = "unknown" /\ ~rec.acknowledged => Standing(rec) = "unknown"
         /\ rec.status = "succeeded" /\ rec.replayable => Standing(rec) = "settled"
         /\ Settled(rec) \/ rec.status = "reserved" => Standing(rec) = "free"
         /\ Standing(rec) \in {"free", "dispatched", "unknown", "settled"}
  <1>1. CASE rec.status = "dispatched"
    BY <1>1 DEF Standing, Settled
  <1>2. CASE rec.status = "unknown" /\ ~rec.acknowledged
    BY <1>2 DEF Standing, Settled
  <1>3. CASE rec.status = "succeeded" /\ rec.replayable
    BY <1>3 DEF Standing, Settled
  <1>4. CASE rec.status = "reserved"
    BY <1>4 DEF Standing, Settled
  <1>5. CASE Settled(rec)
    BY <1>5 DEF Standing, Settled
  <1>6. \/ rec.status \in {"dispatched", "reserved"} \/ Settled(rec)
        \/ rec.status = "unknown" /\ ~rec.acknowledged
        \/ rec.status = "succeeded" /\ rec.replayable
    BY DEF Records, Statuses, Settled
  <1> QED
    BY <1>1, <1>2, <1>3, <1>4, <1>5, <1>6

(* One more of a finite set is counted.                                     *)
LEMMA OneMore ==
  ASSUME NEW A, IsFiniteSet(A), NEW S, NEW i \in A \ S
  PROVE  Cardinality(A \cap (S \cup {i})) = Cardinality(A \cap S) + 1
  <1>1. A \cap (S \cup {i}) = (A \cap S) \cup {i} /\ i \notin A \cap S
    OBVIOUS
  <1>2. IsFiniteSet(A \cap S)
    BY FS_Subset
  <1> QED
    BY <1>1, <1>2, FS_AddElement

(* The state of a call is that of the one record that is not settled.       *)
CallState(s, x) == IF Open(s, x) = {} THEN "free" ELSE CHOOSE v \in Open(s, x) : TRUE

LEMMA OneStanding ==
  ASSUME NEW v, NEW T, T = {v} \ {"free"}
  PROVE  (IF T = {} THEN "free" ELSE CHOOSE w \in T : TRUE) = v
  OBVIOUS

(* At most one record of a call is not settled, so a step that moves this   *)
(* one record moves the call from its standing to the new one.              *)
LEMMA CallMoves ==
  ASSUME TypeOK, RetryConfirmed, NEW s \in CallSlots, NEW x \in Inputs,
         NEW i \in Attempts(s, x), ~Settled(invocations[i]), Ids' = Ids,
         \A j \in Ids : /\ invocations'[j].slot = invocations[j].slot
                        /\ invocations'[j].input = invocations[j].input,
         \A j \in Attempts(s, x) : j # i => Standing(invocations'[j]) = Standing(invocations[j])
  PROVE  /\ Attempts(s, x)' = Attempts(s, x)
         /\ CallState(s, x) = Standing(invocations[i])
         /\ CallState(s, x)' = Standing(invocations'[i])
  <1>1. Attempts(s, x)' = Attempts(s, x)
    BY DEF Attempts
  <1>2. ASSUME NEW j \in Attempts(s, x), j # i
        PROVE  Standing(invocations[j]) = "free" /\ Standing(invocations'[j]) = "free"
    <2>1. i \in Ids /\ j \in Ids /\ i \in Nat /\ j \in Nat /\ invocations[j] \in Records
      BY LedgerFunction DEF Attempts
    <2>2. SameCall(i, j) /\ SameCall(j, i)
      BY DEF SameCall, Kind, Attempts, CallSlots
    <2>3. Settled(invocations[j])
      BY <1>2, <2>1, <2>2 DEF RetryConfirmed
    <2> QED
      BY <1>2, <2>1, <2>3, Standings
  <1>3. Open(s, x) = {Standing(invocations[i])} \ {"free"}
    BY <1>2 DEF Open
  <1>4. Open(s, x)' = {Standing(invocations'[i])} \ {"free"}
    BY <1>1, <1>2 DEF Open
  <1>5. CallState(s, x) = Standing(invocations[i])
    BY <1>3, OneStanding DEF CallState
  <1>6. CallState(s, x)' = Standing(invocations'[i])
    BY <1>4, OneStanding DEF CallState
  <1> QED
    BY <1>1, <1>5, <1>6

(* A step that leaves the standing of the records of a call alone leaves    *)
(* the call alone.                                                          *)
LEMMA CallStays ==
  ASSUME NEW s \in CallSlots, NEW x \in Inputs,
         Attempts(s, x)' = Attempts(s, x),
         \A j \in Attempts(s, x) : Standing(invocations'[j]) = Standing(invocations[j]),
         Attempts(s, x) \cap sent' = Attempts(s, x) \cap sent,
         Attempts(s, x) \cap sent' \cap answered' = Attempts(s, x) \cap sent \cap answered,
         Attempts(s, x) \cap confirmed' = Attempts(s, x) \cap confirmed
  PROVE  UNCHANGED Call(s, x)!vars
  <1>1. Open(s, x)' = Open(s, x)
    BY DEF Open
  <1> QED
    BY <1>1 DEF Call!vars

LEMMA CallStep ==
  ASSUME IInv, OutcomeFacts, Next, NEW s \in CallSlots, NEW x \in Inputs
  PROVE  [Call(s, x)!Next]_(Call(s, x)!vars)
  <1> DEFINE A == Attempts(s, x)
  <1>0. /\ TypeOK /\ LeaseFacts /\ HistoryFacts /\ RetryConfirmed
        /\ \A i \in Ids : invocations[i] \in Records
        /\ \A l \in leases : l.inv \in Ids /\ l.inv \notin answered
        /\ A \subseteq Ids /\ IsFiniteSet(A)
    BY LedgerFunction, LedgerFinite DEF LeaseFacts, IInv, Attempts
  <1>a. CallState(s, x) = (IF Open(s, x) = {} THEN "free" ELSE CHOOSE v \in Open(s, x) : TRUE)
    BY DEF CallState
  <1>1. ASSUME NEW r \in Requests, NEW acks \in SUBSET ActiveUnknown, Claim(r, acks)
        PROVE  [Call(s, x)!Next]_(Call(s, x)!vars)
    <2>1. /\ UNCHANGED <<sent, answered>> /\ confirmed' = confirmed \cup ActiveUnknown
      BY <1>1 DEF Claim, Acknowledged
    <2>2. /\ Ids' = Ids
          /\ \A i \in Ids :
               /\ invocations'[i].slot = invocations[i].slot
               /\ invocations'[i].input = invocations[i].input
               /\ invocations'[i].status = invocations[i].status
               /\ invocations'[i].acknowledged = (invocations[i].acknowledged \/ i \in ActiveUnknown)
               /\ i \notin ActiveUnknown => invocations'[i] = invocations[i]
      BY <1>0, <1>1, Claimed, ClaimedFields
    <2>0. \A i \in Ids : invocations'[i] \in Records
      BY <1>0, <1>1, <2>2, Claimed DEF Ids
    <2>3. CASE A \cap ActiveUnknown = {}
      <3>1. Attempts(s, x)' = A /\ \A j \in A : invocations'[j] = invocations[j]
        BY <1>0, <2>2, <2>3 DEF Attempts
      <3> QED
        BY <2>1, <2>3, <3>1, CallStays
    <2>4. ASSUME NEW i \in A \cap ActiveUnknown
          PROVE  Call(s, x)!Acknowledge
      <3>1. /\ invocations[i].status = "unknown" /\ ~invocations[i].acknowledged
            /\ ~Settled(invocations[i]) /\ i \notin confirmed
        BY <1>0 DEF ActiveUnknown, Settled, OutcomeFacts
      <3>2. \A j \in A : j # i => j \notin ActiveUnknown
        <4> SUFFICES ASSUME NEW j \in A, j # i, j \in ActiveUnknown PROVE FALSE
          OBVIOUS
        <4>1. i \in Nat /\ j \in Nat /\ i \in Ids /\ j \in Ids /\ SameCall(i, j) /\ SameCall(j, i)
          BY <1>0, LedgerFunction DEF SameCall, Kind, Attempts, CallSlots
        <4>2. ~Settled(invocations[j])
          BY DEF ActiveUnknown, Settled
        <4> QED
          BY <1>0, <3>1, <4>1, <4>2 DEF RetryConfirmed
      <3>3. \A j \in A : j # i => Standing(invocations'[j]) = Standing(invocations[j])
        BY <1>0, <2>2, <3>2
      <3>4. /\ A' = A
            /\ CallState(s, x) = Standing(invocations[i])
            /\ CallState(s, x)' = Standing(invocations'[i])
        BY <1>0, <2>2, <3>1, <3>3, CallMoves
      <3>5. i \in Ids /\ Settled(invocations'[i])
        BY <1>0, <2>2, <3>1 DEF Settled
      <3>6. Standing(invocations[i]) = "unknown" /\ Standing(invocations'[i]) = "free"
        BY <1>0, <2>0, <3>1, <3>5, Standings
      <3>7. A \cap confirmed' = A \cap (confirmed \cup {i})
        BY <2>1, <3>2
      <3>8. Cardinality(A \cap confirmed') = Cardinality(A \cap confirmed) + 1
        BY <1>0, <3>1, <3>7, OneMore
      <3> QED
        BY <2>1, <3>4, <3>6, <3>8 DEF Call!Acknowledge, CallState
    <2> QED
      BY <2>3, <2>4 DEF Call!Next
  <1>2. ASSUME Release(claim) \/ Silent \/ \E delete \in BOOLEAN : Cancel(delete)
        PROVE  [Call(s, x)!Next]_(Call(s, x)!vars)
    <2>1. UNCHANGED <<invocations, confirmed, sent, answered>>
      BY <1>2 DEF Release, Silent, Cancel, history
    <2> QED
      BY <2>1, CallStays DEF Attempts, Ids
  <1>3. ASSUME RecoverOwner
        PROVE  [Call(s, x)!Next]_(Call(s, x)!vars)
    <2>1. UNCHANGED <<sent, answered, confirmed>>
      BY <1>3 DEF RecoverOwner, history
    <2>2. /\ Ids' = Ids /\ invocations' \in Seq(Records)
          /\ \A i \in Ids : invocations'[i] = Recovered(invocations[i])
      BY <1>0, <1>3, RecoveredLedger
    <2>3. \A i \in Ids :
            /\ invocations'[i] \in Records
            /\ invocations'[i].slot = invocations[i].slot
            /\ invocations'[i].input = invocations[i].input
      BY <1>0, <2>2, RecoveredFields, RecoveredRecord
    <2>4. \A i \in Ids : invocations[i].status # "dispatched" =>
            Standing(invocations'[i]) = Standing(invocations[i])
      <3> SUFFICES ASSUME NEW i \in Ids, invocations[i].status # "dispatched"
                   PROVE  Standing(invocations'[i]) = Standing(invocations[i])
        OBVIOUS
      <3>1. CASE invocations[i].status = "reserved"
        <4>1. invocations'[i].status = "failed"
          BY <1>0, <2>2, <3>1, RecoveredFields
        <4> QED
          BY <1>0, <2>3, <3>1, <4>1, Standings DEF Settled
      <3>2. CASE invocations[i].status # "reserved"
        <4>1. invocations'[i] = invocations[i]
          BY <2>2, <3>2 DEF Recovered
        <4> QED
          BY <4>1
      <3> QED
        BY <3>1, <3>2
    <2>5. CASE \A i \in A : invocations[i].status # "dispatched"
      <3>1. Attempts(s, x)' = A
        BY <2>2, <2>3 DEF Attempts
      <3> QED
        BY <1>0, <2>1, <2>4, <2>5, <3>1, CallStays
    <2>6. ASSUME NEW i \in A, invocations[i].status = "dispatched"
          PROVE  Call(s, x)!Lose
      <3>1. i \in Ids /\ ~Settled(invocations[i]) /\ ~invocations[i].acknowledged
        BY <1>0, <2>6 DEF Settled, OutcomeFacts
      <3>2. \A j \in A : j # i => invocations[j].status # "dispatched"
        <4> SUFFICES ASSUME NEW j \in A, j # i, invocations[j].status = "dispatched" PROVE FALSE
          OBVIOUS
        <4>1. i \in Nat /\ j \in Nat /\ i \in Ids /\ j \in Ids /\ SameCall(i, j) /\ SameCall(j, i)
          BY <1>0, LedgerFunction DEF SameCall, Kind, Attempts, CallSlots
        <4>2. ~Settled(invocations[j])
          BY DEF Settled
        <4> QED
          BY <1>0, <3>1, <4>1, <4>2 DEF RetryConfirmed
      <3>3. \A j \in A : j # i => Standing(invocations'[j]) = Standing(invocations[j])
        BY <1>0, <2>4, <3>2
      <3>4. /\ A' = A
            /\ CallState(s, x) = Standing(invocations[i])
            /\ CallState(s, x)' = Standing(invocations'[i])
        BY <1>0, <2>2, <2>3, <3>1, <3>3, CallMoves
      <3>5. invocations'[i].status = "unknown" /\ ~invocations'[i].acknowledged
        BY <1>0, <2>2, <2>6, <3>1, RecoveredFields
      <3>6. Standing(invocations[i]) = "dispatched" /\ Standing(invocations'[i]) = "unknown"
        BY <1>0, <2>3, <2>6, <3>1, <3>5, Standings
      <3> QED
        BY <2>1, <3>4, <3>6 DEF Call!Lose, CallState
    <2> QED
      BY <2>5, <2>6 DEF Call!Next
  <1>4. ASSUME NEW t \in Slots, NEW y \in Inputs, NEW c \in Claims, NEW p \in Nat,
               Create(t, y, c, p)
        PROVE  [Call(s, x)!Next]_(Call(s, x)!vars)
    <2> DEFINE n == Len(invocations) + 1
    <2>1. /\ Ids' = Ids \cup {n} /\ n \notin Ids
          /\ \A i \in Ids : invocations'[i] = invocations[i]
          /\ invocations' \in Seq(Records)
      BY <1>0, <1>4, Created
    <2>2. invocations'[n].status = "reserved"
      BY <1>0, <1>4, CreatedFields
    <2>3. UNCHANGED <<sent, answered, confirmed>>
      BY <1>4 DEF Create, history
    <2> HIDE DEF n
    <2>4. Attempts(s, x)' \in {A, A \cup {n}}
      BY <2>1 DEF Attempts
    <2>5. Standing(invocations'[n]) = "free"
      <3>0. n \in DOMAIN invocations'
        BY <2>1 DEF Ids
      <3>1. invocations'[n] \in Records
        BY <2>1, <3>0
      <3> QED
        BY <2>2, <3>1, Standings
    <2>6. Open(s, x)' = Open(s, x)
      BY <1>0, <2>1, <2>4, <2>5 DEF Open
    <2>7. /\ Attempts(s, x)' \cap sent = A \cap sent
          /\ Attempts(s, x)' \cap confirmed = A \cap confirmed
      BY <2>1, <2>4, <1>0 DEF HistoryFacts, OutcomeFacts
    <2> QED
      BY <2>3, <2>6, <2>7 DEF Call!vars
  <1>5. ASSUME NEW l \in leases, NEW status, OnlyStatus(l.inv, status), l.inv \notin A,
               sent' \in {sent, sent \cup {l.inv}}, answered' \in {answered, answered \cup {l.inv}},
               UNCHANGED confirmed
        PROVE  UNCHANGED Call(s, x)!vars
    <2>1. Attempts(s, x)' = A /\ \A j \in A : invocations'[j] = invocations[j]
      BY <1>0, <1>5 DEF OnlyStatus, Attempts
    <2> QED
      BY <1>5, <2>1, CallStays
  <1>6. ASSUME NEW l \in leases, NEW status, OnlyStatus(l.inv, status), l.inv \in A,
               invocations[l.inv].status \in {"reserved", "dispatched"}
        PROVE  /\ A' = A
               /\ CallState(s, x) = Standing(invocations[l.inv])
               /\ CallState(s, x)' = Standing(invocations'[l.inv])
    <2>1. ~Settled(invocations[l.inv])
      BY <1>6 DEF Settled
    <2> QED
      BY <1>0, <1>6, <2>1, CallMoves DEF OnlyStatus
  <1>7. ASSUME NEW l \in leases, Dispatch(l)
        PROVE  [Call(s, x)!Next]_(Call(s, x)!vars)
    <2>1. /\ OnlyStatus(l.inv, "dispatched") /\ sent' = sent \cup {l.inv}
          /\ UNCHANGED <<answered, confirmed>>
      BY <1>0, <1>7, DispatchWrites DEF Dispatch, Write
    <2>2. invocations[l.inv].status = "reserved" /\ l.inv \notin sent
      BY <1>0, <1>7 DEF Dispatch, Write, MayWrite, Valid, LeaseFacts, HistoryFacts
    <2>3. invocations' \in Seq(Records)
      BY <1>0, <1>7, TypeStep DEF TypeOK, IInv
    <2>4. ASSUME l.inv \in A PROVE Call(s, x)!Send
      <3>1. Standing(invocations[l.inv]) = "free"
        BY <1>0, <2>2, Standings
      <3>2. Standing(invocations'[l.inv]) = "dispatched"
        BY <1>0, <2>1, <2>3, Standings DEF OnlyStatus, Ids
      <3>3. Cardinality(A \cap sent') = Cardinality(A \cap sent) + 1
        BY <1>0, <2>1, <2>2, <2>4, OneMore
      <3>4. A \cap sent' \cap answered' = A \cap sent \cap answered
        BY <1>0, <2>1
      <3> QED
        BY <1>6, <2>1, <2>2, <2>4, <3>1, <3>2, <3>3, <3>4 DEF Call!Send, CallState
    <2> QED
      BY <1>5, <2>1, <2>4 DEF Call!Next
  <1>8. ASSUME NEW l \in leases, NEW rec, Concluded(l, rec)
        PROVE  [Call(s, x)!Next]_(Call(s, x)!vars)
    <2>1. /\ OnlyStatus(l.inv, rec.status)
          /\ answered' = answered \cup {l.inv} /\ UNCHANGED <<sent, confirmed>>
      BY <1>0, <1>8, ConcludeWrites DEF Concluded, Conclude, Write
    <2>2. invocations[l.inv].status \in {"reserved", "dispatched"}
      BY <1>0, <1>8 DEF Concluded, Conclude, Write, MayWrite, Valid, LeaseFacts
    <2>3. Standing(invocations'[l.inv]) \in {"free", "settled"}
      <3>1. invocations' \in Seq(Records)
        BY <1>0, <1>8, TypeStep DEF TypeOK, IInv
      <3>2. invocations'[l.inv] \in Records /\ invocations'[l.inv].status \in {"succeeded", "failed"}
        BY <1>0, <1>8, <2>1, <3>1 DEF OnlyStatus, Concluded, Ids
      <3> QED
        BY <3>2, Standings DEF Settled, Records
    <2>4. CASE l.inv \notin A
      BY <1>5, <2>1, <2>4
    <2>5. CASE l.inv \in A /\ invocations[l.inv].status = "reserved"
      <3>1. Standing(invocations[l.inv]) = "free"
        BY <1>0, <2>5, Standings
      <3>2. A \cap sent' \cap answered' = A \cap sent \cap answered
        BY <1>0, <2>1, <2>5 DEF HistoryFacts
      <3>3. Call(s, x)!Skip \/ UNCHANGED Call(s, x)!vars
        BY <1>6, <2>1, <2>2, <2>3, <2>5, <3>1, <3>2 DEF Call!Skip, Call!vars, CallState
      <3> QED
        BY <3>3 DEF Call!Next
    <2>6. CASE l.inv \in A /\ invocations[l.inv].status = "dispatched"
      <3>1. Standing(invocations[l.inv]) = "dispatched"
        BY <1>0, <2>6, Standings
      <3>2. l.inv \in (A \cap sent) \ answered
        BY <1>0, <2>6 DEF OutcomeFacts
      <3>3. Cardinality((A \cap sent) \cap answered') = Cardinality((A \cap sent) \cap answered) + 1
        <4>1. IsFiniteSet(A \cap sent)
          BY <1>0, FS_Subset
        <4> QED
          BY <2>1, <3>2, <4>1, OneMore
      <3>4. Call(s, x)!Answer
        BY <1>6, <2>1, <2>2, <2>3, <2>6, <3>1, <3>3 DEF Call!Answer, CallState
      <3> QED
        BY <3>4 DEF Call!Next
    <2> QED
      BY <2>2, <2>4, <2>5, <2>6
  <1>9. ASSUME NEW l \in leases, NEW m \in leases, HttpUnknown(m, l)
        PROVE  [Call(s, x)!Next]_(Call(s, x)!vars)
    <2>1. OnlyStatus(m.inv, "unknown") /\ UNCHANGED <<answered, sent, confirmed>>
      BY <1>0, <1>9, UnknownWrites DEF HttpUnknown, Write
    <2>2. m.inv \notin A
      BY <1>9 DEF HttpUnknown, Kind, Attempts, CallSlots
    <2> QED
      BY <1>5, <2>1, <2>2
  <1> QED
    BY <1>0, StepShape, <1>1, <1>2, <1>3, <1>4, <1>7, <1>8, <1>9 DEF Creates

CallInv == IInv /\ OutcomeFacts

LEMMA CallInvariant == Spec => []CallInv
  <1>1. Init => CallInv
    BY InitIInv DEF CallInv, OutcomeFacts, Init, Ids
  <1>2. CallInv /\ Next => CallInv'
    BY StepIInv, OutcomeStep DEF CallInv, IInv
  <1>3. CallInv /\ UNCHANGED vars => CallInv'
    BY StutterIInv DEF CallInv, OutcomeFacts, Ids, vars, history
  <1> QED
    BY <1>1, <1>2, <1>3, PTL DEF Spec

LEMMA CallInit ==
  ASSUME Init, NEW s \in CallSlots, NEW x \in Inputs
  PROVE  Call(s, x)!Init
  <1>1. Attempts(s, x) = {} /\ Open(s, x) = {}
    BY DEF Init, Attempts, Open, Ids
  <1> QED
    BY <1>1, FS_EmptySet DEF Call!Init

(* Journal implements ExternalCall for each of its calls.                   *)
THEOREM CallsBehave == Spec => CallsPromised
  <1>1. Init => \A s \in CallSlots, x \in Inputs : Call(s, x)!Init
    BY CallInit
  <1>2. CallInv /\ [Next]_vars =>
          [\A s \in CallSlots, x \in Inputs : [Call(s, x)!Next]_(Call(s, x)!vars)]_vars
    BY CallStep DEF CallInv
  <1> QED
    BY CallInvariant, <1>1, <1>2, PTL DEF Spec, CallsPromised

(* However often a call is made, each of its requests but one was answered  *)
(* or its repetition was confirmed by the user.                             *)
CallsCovered == \A s \in CallSlots, x \in Inputs : Call(s, x)!TypeOK /\ Call(s, x)!Covered

THEOREM CallsAreCovered == Spec => []CallsCovered
  <1>1. Init => CallsCovered
    <2> SUFFICES ASSUME Init, NEW s \in CallSlots, NEW x \in Inputs
                 PROVE  Call(s, x)!TypeOK /\ Call(s, x)!Covered
      BY DEF CallsCovered
    <2>1. Call(s, x)!Init
      BY CallInit
    <2> QED
      BY <2>1 DEF Call!Init, Call!TypeOK, Call!Covered, Call!States
  <1>2. CallsCovered /\ CallInv /\ [Next]_vars => CallsCovered'
    <2> SUFFICES ASSUME CallsCovered, CallInv, [Next]_vars, NEW s \in CallSlots, NEW x \in Inputs
                 PROVE  (Call(s, x)!TypeOK /\ Call(s, x)!Covered)'
      BY DEF CallsCovered, CallSlots
    <2>1. Call(s, x)!TypeOK /\ Call(s, x)!Covered
      BY DEF CallsCovered
    <2>2. CASE Next
      <3>1. [Call(s, x)!Next]_(Call(s, x)!vars)
        BY <2>2, CallStep DEF CallInv
      <3> DEFINE state == IF Open(s, x) = {} THEN "free" ELSE CHOOSE v \in Open(s, x) : TRUE
                 sends == Cardinality(Attempts(s, x) \cap sent)
                 answers == Cardinality(Attempts(s, x) \cap sent \cap answered)
                 acks == Cardinality(Attempts(s, x) \cap confirmed)
                 pending == IF state \in {"dispatched", "unknown"} THEN 1 ELSE 0
      <3>2. /\ state \in {"free", "dispatched", "unknown", "settled"}
            /\ sends \in Nat /\ answers \in Nat /\ acks \in Nat
            /\ sends <= answers + acks + pending
        BY <2>1 DEF Call!TypeOK, Call!Covered, Call!States
      <3>3. \/ /\ state = "free" /\ state' = "dispatched" /\ sends' \in {sends, sends + 1}
               /\ answers' = answers /\ acks' = acks
            \/ /\ state = "free" /\ state' = "settled"
               /\ sends' = sends /\ answers' = answers /\ acks' = acks
            \/ /\ state = "dispatched" /\ state' \in {"settled", "free"}
               /\ answers' = answers + 1 /\ sends' = sends /\ acks' = acks
            \/ /\ state = "dispatched" /\ state' = "unknown"
               /\ sends' = sends /\ answers' = answers /\ acks' = acks
            \/ /\ state = "unknown" /\ state' = "free" /\ acks' = acks + 1
               /\ sends' = sends /\ answers' = answers
            \/ /\ state' = state /\ sends' = sends /\ answers' = answers /\ acks' = acks
        BY <3>1 DEF Call!Next, Call!vars, Call!Send, Call!Skip, Call!Answer, Call!Lose,
           Call!Acknowledge
      <3>4. /\ state' \in {"free", "dispatched", "unknown", "settled"}
            /\ sends' \in Nat /\ answers' \in Nat /\ acks' \in Nat
            /\ sends' <= answers' + acks' + pending'
        <4> HIDE DEF state, sends, answers, acks
        <4> QED
          BY <3>2, <3>3
      <3> QED
        BY <3>4 DEF Call!TypeOK, Call!Covered, Call!States
    <2>3. CASE UNCHANGED vars
      <3>1. Open(s, x)' = Open(s, x) /\ Attempts(s, x)' = Attempts(s, x)
        BY <2>3 DEF Open, Attempts, Ids, vars
      <3> QED
        BY <2>1, <2>3, <3>1 DEF Call!TypeOK, Call!Covered, vars, history
    <2> QED
      BY <2>2, <2>3
  <1> QED
    BY CallInvariant, <1>1, <1>2, PTL DEF Spec
=============================================================================
