---------------------------- MODULE KnowledgeProofs ----------------------------
(***************************************************************************)
(* Theorems about KnowledgeSpace, for any number of documents, versions,   *)
(* builds, restarts and faults.  Inv: the generations and the pointers of  *)
(* the space agree, and a job that ended never runs again.  Held, on top   *)
(* of Inv: what readers see is complete, saved versions stay readable, the *)
(* active version describes the live space, and an open build shows        *)
(* nothing before it is published.                                         *)
(***************************************************************************)
EXTENDS KnowledgeSpace, TLAPS, FiniteSetTheorems, SequenceTheorems

Item == [doc : Docs, content : Contents, spec : Specs, gen : Nat, build : Nat,
         version : {"pending", "ready", "failed"}, job : JobStatus,
         indexed : BOOLEAN, made : Specs, removed : BOOLEAN]
Generation == [spec : Specs, status : {"building", "active", "retired"}]
Pointers == [gen : Nat, version : Nat, build : Nat]

(* Saved versions and builds, with manifests from M.                        *)
Saved(M) == [gen : Nat, docs : M, deleted : BOOLEAN]
Staged(M) == [base : Nat, gen : Nat, status : {"open", "published", "cancelled"}, docs : M]

Typed ==
  /\ items \in Seq(Item) /\ gens \in Seq(Generation) /\ space \in Pointers
  /\ \E M : snaps \in Seq(Saved(M))
  /\ \E M : builds \in Seq(Staged(M))
  /\ scenario \in Scenarios /\ spec \in Specs

(* Nothing points to a generation or a build that is not there.             *)
Pointing ==
  /\ space.gen <= Len(gens) /\ space.build <= Len(builds)
  /\ \A v \in DOMAIN snaps : snaps[v].gen <= Len(gens)
  /\ \A b \in DOMAIN builds : builds[b].gen <= Len(gens)

(* Until its job is added, nobody gives a job to a version that is being    *)
(* submitted.                                                               *)
Submitting ==
  upload # NoUpload =>
    upload.id \in Ids /\ items[upload.id].job = "none" /\ items[upload.id].build = 0

Inv == Typed /\ Pointing /\ Submitting /\ GenerationsAgree

USE DEF Ids

LEMMA ScenarioFacts ==
  ASSUME Typed
  PROVE  /\ scenario.docs \subseteq Docs /\ scenario.contents \subseteq Contents
         /\ scenario.specs \subseteq Specs
BY SpaceAssumption DEF Typed

LEMMA SnapFacts ==
  ASSUME Typed
  PROVE  Len(snaps) \in Nat /\ \A v \in DOMAIN snaps : snaps[v].gen \in Nat
<1>1. PICK M : snaps \in Seq(Saved(M))  BY DEF Typed
<1>2. \A v \in DOMAIN snaps : snaps[v] \in Saved(M)  BY <1>1
<1>3. \A v \in DOMAIN snaps : snaps[v].gen \in Nat  BY <1>2 DEF Saved
<1> QED  BY <1>1, <1>3

LEMMA BuildFacts ==
  ASSUME Typed
  PROVE  Len(builds) \in Nat /\ \A b \in DOMAIN builds : builds[b].gen \in Nat
<1>1. PICK M : builds \in Seq(Staged(M))  BY DEF Typed
<1>2. \A b \in DOMAIN builds : builds[b] \in Staged(M)  BY <1>1
<1>3. \A b \in DOMAIN builds : builds[b].gen \in Nat  BY <1>2 DEF Staged
<1> QED  BY <1>1, <1>3

LEMMA InitInv == Init => Inv
<1> SUFFICES ASSUME Init PROVE Inv  OBVIOUS
<1>1. spec \in Specs /\ scenario \in Scenarios  BY SpaceAssumption DEF Init
<1>2. items = << >> /\ gens = << >> /\ snaps = << >> /\ builds = << >>
      /\ space = [gen |-> 0, version |-> 0, build |-> 0] /\ upload = NoUpload
  BY DEF Init
<1>3. snaps \in Seq(Saved({})) /\ builds \in Seq(Staged({}))  BY <1>2
<1>4. Typed  BY <1>1, <1>2, <1>3 DEF Typed, Pointers
<1>5. Pointing /\ Submitting /\ GenerationsAgree
  BY <1>2 DEF Pointing, Submitting, GenerationsAgree
<1> QED  BY <1>4, <1>5 DEF Inv

-----------------------------------------------------------------------------
(* The versions and their jobs.                                             *)

(* What a step may do to the versions: those that are there stay, a job     *)
(* that ended does not run again, and none appears for one that has none.   *)
Lasts(x, y) ==
  /\ y \in Item /\ y.build = x.build
  /\ x.job \in {"completed", "cancelled"} => y.job \in {x.job, "none"}
  /\ x.job = "none" /\ x.build = 0 => y.job = "none"
Evolves == items' \in Seq(Item) /\ \A i \in Ids : i \in DOMAIN items' /\ Lasts(items[i], items'[i])

LEMMA SameEvolves == ASSUME Typed, UNCHANGED items PROVE Evolves
BY DEF Typed, Evolves, Lasts

LEMMA OneEvolves ==
  ASSUME Typed, NEW i \in Ids, NEW y, Lasts(items[i], y), items' = [items EXCEPT ![i] = y]
  PROVE  Evolves
<1>1. y \in Item  BY DEF Lasts
<1>2. items' \in Seq(Item) /\ DOMAIN items' = DOMAIN items  BY <1>1 DEF Typed
<1>3. \A j \in Ids : items'[j] = IF j = i THEN y ELSE items[j]  BY DEF Typed
<1>4. \A j \in Ids : Lasts(items[j], items[j])  BY DEF Lasts, Typed
<1> QED  BY <1>2, <1>3, <1>4 DEF Evolves

LEMMA JobEvolves ==
  ASSUME Typed, NEW i \in Ids, NEW s \in JobStatus, items' = Job(i, s),
         items[i].job \in {"queued", "running", "failed"}
  PROVE  Evolves
<1> DEFINE y == [items[i] EXCEPT !.job = s]
<1>1. items[i] \in Item  BY DEF Typed
<1>2. Lasts(items[i], y)  BY <1>1 DEF Lasts, Item
<1>3. items' = [items EXCEPT ![i] = y]  BY DEF Job, Typed
<1> HIDE DEF y
<1> QED  BY <1>2, <1>3, OneEvolves

LEMMA MayUpdateFacts ==
  ASSUME Typed, NEW i, MayUpdate(i)
  PROVE  i \in Ids /\ items[i].job \in {"queued", "running", "failed"}
<1>1. i \in Ids /\ items[i].job # "none" /\ items[i].job \notin {"completed", "cancelled"}
  BY DEF MayUpdate, HasJob
<1>2. items[i] \in Item  BY <1>1 DEF Typed
<1>3. items[i].job \in JobStatus  BY <1>2 DEF Item
<1> QED  BY <1>1, <1>3 DEF JobStatus

LEMMA FailedVersionEvolves == ASSUME Typed, NEW i, items' = FailedVersion(i) PROVE Evolves
<1>1. CASE Alive(i)
  <2> DEFINE y == [items[i] EXCEPT !.version = "failed"]
  <2>1. i \in Ids /\ items[i] \in Item  BY <1>1 DEF Alive, Typed
  <2>2. Lasts(items[i], y)  BY <2>1 DEF Lasts, Item
  <2>3. items' = [items EXCEPT ![i] = y]  BY <1>1, <2>1 DEF FailedVersion, Typed, Item
  <2> HIDE DEF y
  <2> QED  BY <2>1, <2>2, <2>3, OneEvolves
<1> QED  BY <1>1, SameEvolves DEF FailedVersion

LEMMA ProcessEvolves == ASSUME Typed, NEW p \in Procs, Process(p) PROVE Evolves
<1> DEFINE i == target[p]
<1> HIDE DEF i
<1>1. CASE Begin(p)
  <2>1. UNCHANGED items \/ (MayUpdate(i) /\ items' = Job(i, "running"))  BY <1>1 DEF Begin, i
  <2> QED  BY <2>1, SameEvolves, JobEvolves, MayUpdateFacts DEF JobStatus
<1>2. CASE Check(p)
  <2>1. UNCHANGED items \/ (MayUpdate(i) /\ items' = Job(i, "running"))  BY <1>2 DEF Check, i
  <2> QED  BY <2>1, SameEvolves, JobEvolves, MayUpdateFacts DEF JobStatus
<1>3. CASE Index(p)
  <2>1. CASE MayUpdate(i) /\ items' = [items EXCEPT ![i].indexed = TRUE, ![i].made = spec, ![i].job = "running"]
    <3> DEFINE y == [items[i] EXCEPT !.indexed = TRUE, !.made = spec, !.job = "running"]
    <3>1. i \in Ids /\ items[i].job \in {"queued", "running", "failed"} /\ items[i] \in Item
      BY <2>1, MayUpdateFacts DEF Typed
    <3>2. Lasts(items[i], y)  BY <3>1 DEF Lasts, Item, Typed, JobStatus
    <3>3. items' = [items EXCEPT ![i] = y]  BY <2>1, <3>1 DEF Typed, Item
    <3> HIDE DEF y
    <3> QED  BY <3>1, <3>2, <3>3, OneEvolves
  <2>2. CASE items' = [items EXCEPT ![i].indexed = TRUE, ![i].made = spec]
    <3>1. CASE i \in Ids
      <4> DEFINE y == [items[i] EXCEPT !.indexed = TRUE, !.made = spec]
      <4>1. items[i] \in Item  BY <3>1 DEF Typed
      <4>2. Lasts(items[i], y)  BY <4>1 DEF Lasts, Item, Typed
      <4>3. items' = [items EXCEPT ![i] = y]  BY <2>2, <3>1, <4>1 DEF Typed, Item
      <4> HIDE DEF y
      <4> QED  BY <3>1, <4>2, <4>3, OneEvolves
    <3>2. CASE i \notin Ids
      <4>1. items' = items  BY <2>2, <3>2 DEF Typed
      <4> QED  BY <4>1, SameEvolves
    <3> QED  BY <3>1, <3>2
  <2> QED  BY <1>3, <2>1, <2>2 DEF Index, i
<1>4. CASE Raise(p)  BY <1>4, SameEvolves DEF Raise
<1>5. CASE CompleteJob(p)
  <2>1. UNCHANGED items \/ (MayComplete(i) /\ Published(i))  BY <1>5 DEF CompleteJob, i
  <2>2. CASE MayComplete(i) /\ Published(i)
    <3> DEFINE y == [items[i] EXCEPT !.version = "ready", !.job = "completed"]
    <3>1. i \in Ids /\ items[i] \in Item /\ items[i].job = "running"
      BY <2>2 DEF MayComplete, Alive, Typed
    <3>2. Lasts(items[i], y)  BY <3>1 DEF Lasts, Item, JobStatus
    <3>3. items' = [items EXCEPT ![i] = y]  BY <2>2, <3>1 DEF Published, Typed, Item
    <3> HIDE DEF y
    <3> QED  BY <3>1, <3>2, <3>3, OneEvolves
  <2> QED  BY <2>1, <2>2, SameEvolves
<1>6. CASE FailVersion(p)  BY <1>6, FailedVersionEvolves DEF FailVersion
<1>7. CASE FailJob(p)
  <2>1. UNCHANGED items \/ (MayUpdate(i) /\ items' = Job(i, "failed"))  BY <1>7 DEF FailJob, i
  <2> QED  BY <2>1, SameEvolves, JobEvolves, MayUpdateFacts DEF JobStatus
<1> QED  BY <1>1, <1>2, <1>3, <1>4, <1>5, <1>6, <1>7 DEF Process

LEMMA PurgeEvolves == ASSUME Typed, NEW d, items' = Purged(d) PROVE Evolves
<1> DEFINE y(i) == IF items[i].doc = d THEN [items[i] EXCEPT !.removed = TRUE, !.job = "none"] ELSE items[i]
<1>1. items' = [i \in Ids |-> y(i)]  BY DEF Purged
<1>2. \A i \in Ids : Lasts(items[i], y(i))
  <2> TAKE i \in Ids
  <2>1. items[i] \in Item  BY DEF Typed
  <2> QED  BY <2>1 DEF Lasts, Item, JobStatus
<1> HIDE DEF y
<1>3. Ids = 1..Len(items) /\ Len(items) \in Nat  BY DEF Typed
<1>4. \A i \in Ids : y(i) \in Item  BY <1>2 DEF Lasts
<1>5. items' \in Seq(Item) /\ DOMAIN items' = Ids  BY <1>1, <1>3, <1>4
<1> QED  BY <1>1, <1>2, <1>5 DEF Evolves

LEMMA CancelledEvolves == ASSUME Typed, NEW b, b # 0, items' = Cancelled(b) PROVE Evolves
<1> DEFINE y(i) == IF i \in Targets(b) /\ items[i].job # "completed"
                   THEN [items[i] EXCEPT !.job = "cancelled"] ELSE items[i]
<1>1. items' = [i \in Ids |-> y(i)]  BY DEF Cancelled
<1>2. \A i \in Ids : Lasts(items[i], y(i))
  <2> TAKE i \in Ids
  <2>1. items[i] \in Item  BY DEF Typed
  <2> QED  BY <2>1 DEF Lasts, Item, JobStatus, Targets
<1> HIDE DEF y
<1>3. Ids = 1..Len(items) /\ Len(items) \in Nat  BY DEF Typed
<1>4. \A i \in Ids : y(i) \in Item  BY <1>2 DEF Lasts
<1>5. items' \in Seq(Item) /\ DOMAIN items' = Ids  BY <1>1, <1>3, <1>4
<1> QED  BY <1>1, <1>2, <1>5 DEF Evolves

LEMMA LongerEvolves ==
  ASSUME Typed, NEW new \in Seq(Item), items' = items \o new
  PROVE  Evolves /\ Len(items') = Len(items) + Len(new)
<1>1. items \in Seq(Item)  BY DEF Typed
<1>2. items' \in Seq(Item) /\ Len(items') = Len(items) + Len(new)
      /\ \A i \in Ids : i \in DOMAIN items' /\ items'[i] = items[i]
  BY <1>1
<1>3. \A i \in Ids : Lasts(items[i], items[i])  BY <1>1 DEF Lasts
<1> QED  BY <1>2, <1>3 DEF Evolves

-----------------------------------------------------------------------------
(* Steps that leave the generations, the saved versions and the builds.     *)

LEMMA Settles ==
  ASSUME Inv, Evolves, UNCHANGED <<gens, snaps, builds, scenario>>, space' \in {space, ClearedVersion},
         upload' \in {upload, NoUpload}, spec' \in Specs
  PROVE  Inv'
<1>1. space' \in Pointers /\ space'.gen = space.gen /\ space'.build = space.build
  BY DEF Inv, Typed, Pointers, ClearedVersion
<1>2. Typed'  BY <1>1 DEF Inv, Typed, Evolves
<1>3. Pointing' /\ GenerationsAgree'  BY <1>1 DEF Inv, Pointing, GenerationsAgree
<1>4. Submitting'  BY DEF Inv, Submitting, Evolves, Lasts
<1> QED  BY <1>2, <1>3, <1>4 DEF Inv

LEMMA ProcessKeeps == ASSUME Inv, NEW p \in Procs, Process(p) PROVE Inv' /\ Evolves
<1>1. Evolves  BY ProcessEvolves DEF Inv
<1>2. /\ UNCHANGED <<gens, snaps, builds, scenario, upload, spec>>
      /\ space' \in {space, ClearedVersion}
  BY DEF Process, Begin, Check, Index, Raise, CompleteJob, Published, FailVersion, FailJob, Untouched, bounds
<1>3. spec' \in Specs  BY <1>2 DEF Inv, Typed
<1> QED  BY <1>1, <1>2, <1>3, Settles

LEMMA WorkerKeeps == ASSUME Inv, WorkerStep PROVE Inv' /\ Evolves
<1>0. Typed /\ spec \in Specs  BY DEF Inv, Typed
<1>1. CASE Claim
  <2>1. PICK i \in Jobs("queued") : items' = Job(i, "running")  BY <1>1 DEF Claim, Claimable
  <2>2. Evolves  BY <1>0, <2>1, JobEvolves DEF Jobs, JobStatus
  <2> QED  BY <1>0, <1>1, <2>2, Settles DEF Claim, bounds
<1>2. CASE Process("worker")  BY <1>2, ProcessKeeps DEF Procs
<1>3. CASE Requeue
  <2> DEFINE i == target["worker"]
  <2>1. UNCHANGED items \/ (MayUpdate(i) /\ items' = Job(i, "queued"))  BY <1>3 DEF Requeue
  <2> HIDE DEF i
  <2>2. Evolves  BY <1>0, <2>1, SameEvolves, JobEvolves, MayUpdateFacts DEF JobStatus
  <2> QED  BY <1>0, <1>3, <2>2, Settles DEF Requeue, Untouched, bounds
<1> QED  BY <1>1, <1>2, <1>3 DEF WorkerStep

(* What a query that failed may have committed.                             *)
LEMMA UnreportedWrites ==
  ASSUME Typed, NEW p \in Procs, QueryFails(p)
  PROVE  \/ UNCHANGED items
         \/ \E i \in Ids, s \in {"running", "failed"} :
              items[i].job \in {"queued", "running", "failed"} /\ items' = Job(i, s)
         \/ pc[p] = "fail" /\ items' = FailedVersion(target[p])
<1>1. \A i \in Ids : Claimable(i) => items[i].job = "queued"  BY DEF Claimable, Jobs
<1>2. \A i \in Ids : MayUpdate(i) => items[i].job \in {"queued", "running", "failed"}  BY MayUpdateFacts
<1>3. items' \in Unreported(p) \/ UNCHANGED items  BY DEF QueryFails
<1>4. pc[p] \in {"idle", "begin", "fail", "failjob"}  BY DEF QueryFails
<1>5. CASE pc[p] = "idle"  BY <1>1, <1>3, <1>5 DEF Unreported
<1>6. CASE pc[p] = "begin"  BY <1>2, <1>3, <1>6 DEF Unreported
<1>7. CASE pc[p] = "fail"  BY <1>3, <1>7 DEF Unreported
<1>8. CASE pc[p] = "failjob"  BY <1>2, <1>3, <1>8 DEF Unreported
<1> QED  BY <1>4, <1>5, <1>6, <1>7, <1>8

LEMMA FailuresKeep == ASSUME Inv, NEW p \in Procs, QueryFails(p) PROVE Inv' /\ Evolves
<1>0. Typed /\ spec \in Specs  BY DEF Inv, Typed
<1>1. ASSUME NEW i \in Ids, NEW s \in {"running", "failed"}, items' = Job(i, s),
             items[i].job \in {"queued", "running", "failed"}
      PROVE  Evolves
  BY <1>0, <1>1, JobEvolves DEF JobStatus
<1>2. Evolves  BY <1>0, <1>1, UnreportedWrites, SameEvolves, FailedVersionEvolves
<1> QED  BY <1>0, <1>2, Settles DEF QueryFails, Untouched, bounds

LEMMA UpdatesKeep ==
  ASSUME Inv, \/ \E i \in Ids : ReadForRetry(i) \/ CancelJob(i)
              \/ \E d \in scenario.docs : ReadForArchive(d) \/ Purge(d)
              \/ \E update \in stale : Retry(update) \/ Archive(update)
  PROVE  Inv' /\ Evolves
<1>0. Typed /\ spec \in Specs  BY DEF Inv, Typed
<1>1. ASSUME NEW i \in Ids, ReadForRetry(i) PROVE Inv' /\ Evolves
  BY <1>0, <1>1, SameEvolves, Settles DEF ReadForRetry, tables
<1>2. ASSUME NEW i \in Ids, CancelJob(i) PROVE Inv' /\ Evolves
  <2>1. Evolves  BY <1>0, <1>2, JobEvolves DEF CancelJob, JobStatus
  <2> QED  BY <1>0, <1>2, <2>1, Settles DEF CancelJob, Untouched, bounds
<1>3. ASSUME NEW d, ReadForArchive(d) PROVE Inv' /\ Evolves
  BY <1>0, <1>3, SameEvolves, Settles DEF ReadForArchive, tables, bounds
<1>4. ASSUME NEW d, Purge(d) PROVE Inv' /\ Evolves
  <2>1. Evolves  BY <1>0, <1>4, PurgeEvolves DEF Purge
  <2> QED  BY <1>0, <1>4, <2>1, Settles DEF Purge, process, bounds
<1>5. ASSUME NEW update, Retry(update) PROVE Inv' /\ Evolves
  <2> DEFINE i == update.id
  <2>1. UNCHANGED items \/ (MayUpdate(i) /\ items' = Job(i, "queued"))  BY <1>5 DEF Retry
  <2> HIDE DEF i
  <2>2. Evolves  BY <1>0, <2>1, SameEvolves, JobEvolves, MayUpdateFacts DEF JobStatus
  <2> QED  BY <1>0, <1>5, <2>2, Settles DEF Retry, bounds
<1>6. ASSUME NEW update, Archive(update) PROVE Inv' /\ Evolves
  BY <1>0, <1>6, SameEvolves, Settles DEF Archive, bounds
<1> QED  BY <1>1, <1>2, <1>3, <1>4, <1>5, <1>6

LEMMA LifeKeeps == ASSUME Inv, Life PROVE Inv' /\ Evolves
<1>0. Typed /\ spec \in Specs  BY DEF Inv, Typed
<1>1. CASE Stop  BY <1>0, <1>1, SameEvolves, Settles DEF Stop, Untouched
<1>2. ASSUME NEW s \in scenario.specs, Restart(s) \/ Kill(s) PROVE Inv' /\ Evolves
  <2>1. s \in Specs  BY <1>0, ScenarioFacts
  <2> QED  BY <1>0, <1>2, <2>1, SameEvolves, Settles DEF Restart, Kill, Fresh, tables, bounds
<1> QED  BY <1>1, <1>2 DEF Life

-----------------------------------------------------------------------------
(* Submitting: the version, then its job.                                   *)

Ended(s) == s \in {"completed", "cancelled"}
EndedStay == \A i \in Ids : Ended(items[i].job) => items'[i].job \in {items[i].job, "none"}

LEMMA EvolvesStays == Evolves => EndedStay
BY DEF Evolves, Lasts, EndedStay, Ended

LEMMA SubmittingStays == ASSUME Submitting, Evolves, upload' = upload PROVE Submitting'
BY DEF Submitting, Evolves, Lasts

LEMMA AddJobKeeps == ASSUME Inv, AddJob PROVE Inv' /\ EndedStay
<1> DEFINE i == upload.id
<1>1. i \in Ids /\ items[i] \in Item /\ items[i].job = "none"
  BY DEF AddJob, Inv, Submitting, Typed
<1>2. PICK s \in {"failed", "queued", "none"} : items' = Job(i, s) \/ UNCHANGED items
  BY DEF AddJob
<1>3. items' \in Seq(Item) /\ EndedStay
  <2>1. CASE UNCHANGED items  BY <2>1 DEF Inv, Typed, EndedStay
  <2>2. CASE items' = Job(i, s)
    <3> DEFINE y == [items[i] EXCEPT !.job = s]
    <3>1. y \in Item  BY <1>1 DEF Item, JobStatus
    <3>2. items' = [items EXCEPT ![i] = y]  BY <1>1, <2>2 DEF Job, Inv, Typed
    <3> HIDE DEF y
    <3>3. items' \in Seq(Item)  BY <1>1, <3>1, <3>2 DEF Inv, Typed
    <3>4. \A j \in Ids : j # i => items'[j] = items[j]  BY <3>2 DEF Inv, Typed
    <3> QED  BY <1>1, <3>3, <3>4 DEF EndedStay, Ended
  <2> QED  BY <1>2, <2>1, <2>2
<1>4. UNCHANGED <<gens, snaps, builds, space, spec, scenario>> /\ upload' = NoUpload
  BY DEF AddJob, bounds
<1>5. Typed'  BY <1>3, <1>4 DEF Inv, Typed
<1>6. Pointing' /\ GenerationsAgree' /\ Submitting'
  BY <1>4 DEF Inv, Pointing, GenerationsAgree, Submitting
<1> QED  BY <1>3, <1>5, <1>6 DEF Inv

(* A step appends a generation with this status, or leaves them alone.      *)
LEMMA OneMoreGeneration ==
  ASSUME Typed, NEW s \in {"building", "active"},
         gens' = Append(gens, [spec |-> spec, status |-> s])
  PROVE  /\ gens' \in Seq(Generation) /\ Len(gens') = Len(gens) + 1
         /\ gens'[Len(gens) + 1].status = s
         /\ \A g \in DOMAIN gens : gens'[g] = gens[g]
         /\ DOMAIN gens' = DOMAIN gens \cup {Len(gens) + 1}
<1> DEFINE new == [spec |-> spec, status |-> s]
<1>1. new \in Generation /\ new.status = s  BY DEF Typed, Generation
<1> HIDE DEF new
<1>2. gens \in Seq(Generation) /\ gens' = Append(gens, new)  BY DEF Typed, new
<1> QED  BY <1>1, <1>2

LEMMA UploadKeeps ==
  ASSUME Inv, NEW d \in Docs, NEW c \in Contents, NEW direct \in BOOLEAN, Upload(d, c, direct)
  PROVE  Inv' /\ Evolves
<1>0. Typed /\ Pointing /\ GenerationsAgree /\ space \in Pointers /\ spec \in Specs
  BY DEF Inv, Typed
<1> DEFINE first == space.gen = 0
           g == IngestionGeneration
           blocked == ~first /\ gens[g].spec # spec
<1>1. g \in Nat /\ g >= space.gen  BY <1>0 DEF IngestionGeneration, Typed, Pointers
<1>2. /\ upload = NoUpload /\ space.build = 0
      /\ gens' = IF first THEN Append(gens, [spec |-> spec, status |-> "active"]) ELSE gens
      /\ space' = IF first \/ d \notin Present THEN [ClearedVersion EXCEPT !.gen = g] ELSE space
      /\ UNCHANGED <<snaps, builds, spec, scenario>>
      /\ \/ UNCHANGED <<items, upload>>
         \/ /\ items' = Append(items, NewItem(d, c, spec, g, 0,
                                              IF blocked THEN "failed" ELSE "pending", "none"))
            /\ upload' = [id |-> Len(items) + 1, direct |-> direct]
  BY DEF Upload, bounds
<1>3. Evolves /\ Submitting'
  <2>1. CASE UNCHANGED <<items, upload>>
    BY <1>0, <1>2, <2>1, SameEvolves DEF Submitting
  <2>2. CASE /\ items' = Append(items, NewItem(d, c, spec, g, 0,
                                              IF blocked THEN "failed" ELSE "pending", "none"))
             /\ upload' = [id |-> Len(items) + 1, direct |-> direct]
    <3> DEFINE new == NewItem(d, c, spec, g, 0, IF blocked THEN "failed" ELSE "pending", "none")
    <3>1. new \in Item /\ new.job = "none" /\ new.build = 0
      <4> HIDE DEF g, blocked
      <4> QED  BY <1>0, <1>1 DEF NewItem, Item, JobStatus
    <3>2. items \in Seq(Item) /\ items' = Append(items, new)  BY <1>0, <2>2 DEF Typed
    <3> HIDE DEF new
    <3>3. items' = items \o <<new>> /\ <<new>> \in Seq(Item)  BY <3>1, <3>2
    <3>4. Evolves  BY <1>0, <3>3, LongerEvolves
    <3>5. Len(items) + 1 \in DOMAIN items' /\ items'[Len(items) + 1] = new  BY <3>2
    <3>6. Submitting'  BY <2>2, <3>1, <3>5 DEF Submitting
    <3> QED  BY <3>4, <3>6
  <2> QED  BY <1>2, <2>1, <2>2
<1>4. space' \in Pointers /\ space'.build = 0
  <2> HIDE DEF g
  <2> QED  BY <1>0, <1>1, <1>2 DEF Pointers, ClearedVersion
<1>5. CASE first
  <2>1. gens' = Append(gens, [spec |-> spec, status |-> "active"])  BY <1>2, <1>5
  <2>2. g = Len(gens) + 1  BY <1>5 DEF IngestionGeneration
  <2>3. space'.gen = Len(gens) + 1
    BY <1>0, <1>2, <1>5, <2>2 DEF Pointers, ClearedVersion
  <2>4. /\ gens' \in Seq(Generation) /\ Len(gens') = Len(gens) + 1
        /\ gens'[Len(gens) + 1].status = "active"
        /\ \A h \in DOMAIN gens : gens'[h] = gens[h]
        /\ DOMAIN gens' = DOMAIN gens \cup {Len(gens) + 1}
    BY <1>0, <2>1, OneMoreGeneration
  <2>5. Len(gens) \in Nat /\ DOMAIN gens = 1..Len(gens)  BY <1>0 DEF Typed
  <2>6. Typed'  BY <1>0, <1>2, <1>3, <1>4, <2>4 DEF Typed, Evolves
  <2>7. Pointing'
    BY <1>0, <1>2, <1>4, <2>3, <2>4, <2>5, SnapFacts, BuildFacts DEF Pointing
  <2>8. GenerationsAgree'
    BY <1>0, <1>2, <1>4, <1>5, <2>3, <2>4, <2>5 DEF GenerationsAgree
  <2> QED  BY <1>3, <2>6, <2>7, <2>8 DEF Inv
<1>6. CASE ~first
  <2>1. gens' = gens /\ space'.gen = space.gen
    BY <1>0, <1>2, <1>6 DEF Pointers, ClearedVersion, IngestionGeneration
  <2>2. Typed'  BY <1>0, <1>2, <1>3, <1>4, <2>1 DEF Typed, Evolves
  <2>3. Pointing' /\ GenerationsAgree'
    BY <1>0, <1>2, <1>4, <2>1 DEF Pointing, GenerationsAgree, Typed
  <2> QED  BY <1>3, <2>2, <2>3 DEF Inv
<1> QED  BY <1>3, <1>5, <1>6

-----------------------------------------------------------------------------
(* Saved versions.                                                          *)

LEMMA SnapAppended ==
  ASSUME Typed, NEW n \in Nat, NEW m,
         snaps' = Append(snaps, [gen |-> n, docs |-> m, deleted |-> FALSE])
  PROVE  /\ \E M : snaps' \in Seq(Saved(M))
         /\ \A v \in DOMAIN snaps' : \/ snaps'[v].gen = n
                                     \/ v \in DOMAIN snaps /\ snaps'[v] = snaps[v]
<1> DEFINE new == [gen |-> n, docs |-> m, deleted |-> FALSE]
<1>1. PICK M : snaps \in Seq(Saved(M))  BY DEF Typed
<1> DEFINE Wide == Saved(M \cup {m})
<1>2. Saved(M) \subseteq Wide /\ new \in Wide /\ new.gen = n  BY DEF Saved
<1> HIDE DEF new, Wide
<1>3. \A v \in DOMAIN snaps : snaps[v] \in Wide  BY <1>1, <1>2
<1>4. snaps \in Seq(Wide)  BY <1>1, <1>3, IsASeq
<1>5. snaps' = Append(snaps, new)  BY DEF new
<1>6. snaps' \in Seq(Wide)  BY <1>2, <1>4, <1>5
<1>7. \A v \in DOMAIN snaps' : snaps'[v] = new \/ (v \in DOMAIN snaps /\ snaps'[v] = snaps[v])
  BY <1>2, <1>4, <1>5
<1> QED  BY <1>2, <1>6, <1>7 DEF Wide

LEMMA SwitchedFacts ==
  ASSUME Typed, NEW g, gens' = Switched(g)
  PROVE  /\ gens' \in Seq(Generation) /\ Len(gens') = Len(gens) /\ DOMAIN gens' = DOMAIN gens
         /\ \A h \in DOMAIN gens :
              /\ gens'[h].status = "active" <=> h = g
              /\ gens'[h].status = "building" <=> h # g /\ gens[h].status = "building"
<1> DEFINE y(h) == CASE h = g -> [gens[h] EXCEPT !.status = "active"]
                     [] h # g /\ gens[h].status = "active" -> [gens[h] EXCEPT !.status = "retired"]
                     [] OTHER -> gens[h]
<1>1. gens' = [h \in DOMAIN gens |-> y(h)]  BY DEF Switched
<1>2. ASSUME NEW h \in DOMAIN gens
      PROVE  /\ y(h) \in Generation
             /\ y(h).status = "active" <=> h = g
             /\ y(h).status = "building" <=> h # g /\ gens[h].status = "building"
  <2>1. gens[h] \in Generation  BY DEF Typed
  <2> QED  BY <2>1 DEF Generation
<1> HIDE DEF y
<1>3. DOMAIN gens = 1..Len(gens) /\ Len(gens) \in Nat  BY DEF Typed
<1>4. gens' \in Seq(Generation) /\ Len(gens') = Len(gens)  BY <1>1, <1>2, <1>3, IsASeq
<1> QED  BY <1>1, <1>2, <1>4

LEMMA SaveKeeps == ASSUME Inv, SaveVersion PROVE Inv' /\ Evolves
<1>0. Typed /\ Pointing /\ GenerationsAgree /\ space \in Pointers /\ Submitting
  BY DEF Inv, Typed
<1>1. /\ snaps' = Append(snaps, [gen |-> space.gen, docs |-> Manifest, deleted |-> FALSE])
      /\ space' = [space EXCEPT !.version = Len(snaps) + 1]
      /\ UNCHANGED <<items, gens, builds, upload, spec, scenario>>
  BY DEF SaveVersion, process, bounds
<1>2. space' \in Pointers /\ space'.gen = space.gen /\ space'.build = space.build /\ space.gen \in Nat
  BY <1>0, <1>1, SnapFacts DEF Pointers
<1>3. /\ \E M : snaps' \in Seq(Saved(M))
      /\ \A v \in DOMAIN snaps' : \/ snaps'[v].gen = space.gen
                                  \/ v \in DOMAIN snaps /\ snaps'[v] = snaps[v]
  BY <1>0, <1>1, <1>2, SnapAppended
<1>4. Evolves  BY <1>0, <1>1, SameEvolves
<1>5. Typed'  BY <1>0, <1>1, <1>2, <1>3 DEF Typed
<1>6. Pointing'  BY <1>0, <1>1, <1>2, <1>3 DEF Pointing
<1>7. GenerationsAgree'  BY <1>0, <1>1, <1>2 DEF GenerationsAgree
<1> QED  BY <1>0, <1>1, <1>4, <1>5, <1>6, <1>7, SubmittingStays DEF Inv

LEMMA DeleteKeeps == ASSUME Inv, NEW v \in DOMAIN snaps, DeleteVersion(v) PROVE Inv' /\ Evolves
<1>0. Typed /\ Pointing /\ GenerationsAgree /\ Submitting  BY DEF Inv
<1>1. /\ snaps' = [snaps EXCEPT ![v].deleted = TRUE]
      /\ UNCHANGED <<items, gens, builds, space, upload, spec, scenario>>
  BY DEF DeleteVersion, process, bounds
<1>2. PICK M : snaps \in Seq(Saved(M))  BY <1>0 DEF Typed
<1> DEFINE y == [snaps[v] EXCEPT !.deleted = TRUE]
<1>3. snaps[v] \in Saved(M)  BY <1>2
<1>4. y \in Saved(M) /\ y.gen = snaps[v].gen  BY <1>3 DEF Saved
<1>5. snaps' = [snaps EXCEPT ![v] = y]  BY <1>1
<1> HIDE DEF y
<1>6. /\ snaps' \in Seq(Saved(M)) /\ DOMAIN snaps' = DOMAIN snaps
      /\ \A w \in DOMAIN snaps : snaps'[w].gen = snaps[w].gen
  BY <1>2, <1>4, <1>5
<1>7. Evolves  BY <1>0, <1>1, SameEvolves
<1>8. Typed'  BY <1>0, <1>1, <1>6 DEF Typed
<1>9. Pointing' /\ GenerationsAgree'  BY <1>0, <1>1, <1>6 DEF Pointing, GenerationsAgree
<1> QED  BY <1>0, <1>1, <1>7, <1>8, <1>9, SubmittingStays DEF Inv

LEMMA ActivateKeeps == ASSUME Inv, NEW v \in DOMAIN snaps, ActivateVersion(v) PROVE Inv' /\ Evolves
<1>0. Typed /\ Pointing /\ GenerationsAgree /\ Submitting /\ space \in Pointers  BY DEF Inv, Typed
<1> DEFINE g == snaps[v].gen
<1>1. /\ gens' = Switched(g) /\ space' = [space EXCEPT !.gen = g, !.version = v]
      /\ space.build = 0
      /\ UNCHANGED <<items, snaps, builds, upload, spec, scenario>>
  BY DEF ActivateVersion, Activatable, Idle, process, bounds
<1>2. g \in Nat /\ g <= Len(gens) /\ v \in Nat
  <2>1. v \in 1..Len(snaps)  BY <1>0 DEF Typed
  <2> QED  BY <1>0, <2>1, SnapFacts DEF Pointing
<1>3. space' \in Pointers /\ space'.gen = g /\ space'.build = 0
  <2> HIDE DEF g
  <2> QED  BY <1>0, <1>1, <1>2 DEF Pointers
<1>4. /\ gens' \in Seq(Generation) /\ Len(gens') = Len(gens) /\ DOMAIN gens' = DOMAIN gens
      /\ \A h \in DOMAIN gens :
           /\ gens'[h].status = "active" <=> h = g
           /\ gens'[h].status = "building" <=> h # g /\ gens[h].status = "building"
  BY <1>0, <1>1, SwitchedFacts
<1>5. Evolves  BY <1>0, <1>1, SameEvolves
<1>6. Typed'  BY <1>0, <1>1, <1>3, <1>4 DEF Typed
<1>7. Pointing'  BY <1>0, <1>1, <1>2, <1>3, <1>4 DEF Pointing
<1>8. GenerationsAgree'  BY <1>0, <1>1, <1>3, <1>4 DEF GenerationsAgree
<1> QED  BY <1>0, <1>1, <1>5, <1>6, <1>7, <1>8, SubmittingStays DEF Inv

-----------------------------------------------------------------------------
(* Builds.                                                                  *)

LEMMA BuildAppended ==
  ASSUME Typed, NEW v \in Nat, NEW n \in Nat, NEW m,
         builds' = Append(builds, [base |-> v, gen |-> n, status |-> "open", docs |-> m])
  PROVE  /\ \E M : builds' \in Seq(Staged(M))
         /\ Len(builds') = Len(builds) + 1 /\ Len(builds) \in Nat
         /\ builds'[Len(builds) + 1].gen = n
         /\ \A b \in DOMAIN builds' : \/ builds'[b].gen = n
                                      \/ b \in DOMAIN builds /\ builds'[b] = builds[b]
<1> DEFINE new == [base |-> v, gen |-> n, status |-> "open", docs |-> m]
<1>1. PICK M : builds \in Seq(Staged(M))  BY DEF Typed
<1> DEFINE Wide == Staged(M \cup {m})
<1>2. Staged(M) \subseteq Wide /\ new \in Wide /\ new.gen = n  BY DEF Staged
<1> HIDE DEF new, Wide
<1>3. \A b \in DOMAIN builds : builds[b] \in Wide  BY <1>1, <1>2
<1>4. builds \in Seq(Wide)  BY <1>1, <1>3, IsASeq
<1>5. builds' = Append(builds, new)  BY DEF new
<1>6. builds' \in Seq(Wide)  BY <1>2, <1>4, <1>5
<1>7. /\ \A b \in DOMAIN builds' : builds'[b] = new \/ (b \in DOMAIN builds /\ builds'[b] = builds[b])
      /\ Len(builds') = Len(builds) + 1 /\ Len(builds) \in Nat /\ builds'[Len(builds) + 1] = new
  BY <1>2, <1>4, <1>5
<1> QED  BY <1>2, <1>6, <1>7 DEF Wide

LEMMA BuildEnds ==
  ASSUME Typed, NEW b \in DOMAIN builds, NEW s \in {"published", "cancelled"},
         builds' = [builds EXCEPT ![b].status = s]
  PROVE  /\ \E M : builds' \in Seq(Staged(M))
         /\ Len(builds') = Len(builds) /\ DOMAIN builds' = DOMAIN builds
         /\ \A a \in DOMAIN builds : builds'[a].gen = builds[a].gen
<1>1. PICK M : builds \in Seq(Staged(M))  BY DEF Typed
<1> DEFINE y == [builds[b] EXCEPT !.status = s]
<1>2. builds[b] \in Staged(M)  BY <1>1
<1>3. y \in Staged(M) /\ y.gen = builds[b].gen  BY <1>2 DEF Staged
<1>4. builds' = [builds EXCEPT ![b] = y]  OBVIOUS
<1> HIDE DEF y
<1> QED  BY <1>1, <1>3, <1>4

LEMMA NewItems ==
  ASSUME Typed, NEW order \in Orders(Active(Manifest)), NEW g \in Nat, NEW b \in Nat,
         Buildable(Active(Manifest))
  PROVE  [k \in 1..Len(order) |->
            NewItem(order[k], items[docs[order[k]].current].content, spec, g, b, "pending", "queued")]
           \in Seq(Item)
<1> DEFINE A == Active(Manifest)
           y(k) == NewItem(order[k], items[docs[order[k]].current].content, spec, g, b, "pending", "queued")
<1>1. A \subseteq Docs  BY DEF Active, Manifest, Present
<1>2. IsFiniteSet(A)  BY <1>1, SpaceAssumption, FS_Subset
<1>3. Cardinality(A) \in Nat  BY <1>2, FS_CardinalityType
<1>4. order \in [1..Cardinality(A) -> A]  BY DEF Orders
<1>5. Len(order) = Cardinality(A)
  <2> HIDE DEF A
  <2>1. order \in Seq(A)  BY <1>3, <1>4, IsASeq
  <2> QED  BY <1>3, <1>4, <2>1, LenProperties
<1>6. \A d \in A : items[docs[d].current] \in Item
  BY DEF Buildable, Alive, Typed
<1>7. ASSUME NEW k \in 1..Len(order) PROVE y(k) \in Item
  <2>1. order[k] \in A  BY <1>4, <1>5
  <2>2. order[k] \in Docs /\ items[docs[order[k]].current].content \in Contents
    BY <1>1, <1>6, <2>1 DEF Item
  <2>3. spec \in Specs  BY DEF Typed
  <2> QED  BY <2>2, <2>3 DEF NewItem, Item, JobStatus
<1> HIDE DEF y, A
<1>8. [k \in 1..Len(order) |-> y(k)] \in Seq(Item)  BY <1>3, <1>5, <1>7, IsASeq
<1> QED  BY <1>8 DEF y

LEMMA StartKeeps ==
  ASSUME Inv, NEW order \in Orders(Active(Manifest)), StartBuild(order)
  PROVE  Inv' /\ Evolves
<1>0. Typed /\ Pointing /\ GenerationsAgree /\ Submitting /\ space \in Pointers /\ spec \in Specs
  BY DEF Inv, Typed
<1> DEFINE A == Active(Manifest)
           g == Len(gens) + 1
           b == Len(builds) + 1
           staged == [d \in Present |->
                        IF d \in A
                        THEN [status |-> "active",
                              current |-> Len(items) + CHOOSE k \in 1..Len(order) : order[k] = d]
                        ELSE docs[d]]
           new == [k \in 1..Len(order) |->
                     NewItem(order[k], items[docs[order[k]].current].content, spec, g, b,
                             "pending", "queued")]
<1>1. /\ Buildable(A) /\ space.build = 0
      /\ gens' = Append(gens, [spec |-> spec, status |-> "building"])
      /\ items' = items \o new
      /\ builds' = Append(builds, [base |-> space.version, gen |-> g, status |-> "open", docs |-> staged])
      /\ space' = [space EXCEPT !.build = b]
      /\ UNCHANGED <<snaps, upload, spec, scenario>>
  BY DEF StartBuild, Buildable, Idle, process, bounds
<1>2. Len(gens) \in Nat /\ DOMAIN gens = 1..Len(gens) /\ g \in Nat  BY <1>0 DEF Typed
<1>3. b \in Nat /\ b # 0 /\ space.version \in Nat  BY <1>0, BuildFacts DEF Pointers
<1>4. new \in Seq(Item)
  <2> HIDE DEF g, b
  <2> QED  BY <1>0, <1>1, <1>2, <1>3, NewItems
<1>5. Evolves
  <2> HIDE DEF new
  <2> QED  BY <1>0, <1>1, <1>4, LongerEvolves
<1>6. /\ gens' \in Seq(Generation) /\ Len(gens') = Len(gens) + 1
      /\ gens'[Len(gens) + 1].status = "building"
      /\ \A h \in DOMAIN gens : gens'[h] = gens[h]
      /\ DOMAIN gens' = DOMAIN gens \cup {Len(gens) + 1}
  BY <1>0, <1>1, OneMoreGeneration
<1>7. /\ \E M : builds' \in Seq(Staged(M))
      /\ Len(builds') = Len(builds) + 1
      /\ builds'[b].gen = g
      /\ \A a \in DOMAIN builds' : \/ builds'[a].gen = g
                                   \/ a \in DOMAIN builds /\ builds'[a] = builds[a]
  <2> HIDE DEF staged, g
  <2> QED  BY <1>0, <1>1, <1>2, <1>3, BuildAppended
<1>8. space' \in Pointers /\ space'.gen = space.gen /\ space'.build = b
  <2> HIDE DEF b
  <2> QED  BY <1>0, <1>1, <1>3 DEF Pointers
<1>9. Typed'  BY <1>0, <1>1, <1>5, <1>6, <1>7, <1>8 DEF Typed, Evolves
<1>10. Pointing'
  <2>1. space.gen \in Nat  BY <1>0 DEF Pointers
  <2> QED  BY <1>0, <1>1, <1>2, <1>3, <1>6, <1>7, <1>8, <2>1, SnapFacts, BuildFacts DEF Pointing
<1>11. GenerationsAgree'
  <2>1. \A h \in DOMAIN gens : gens[h].status # "building"  BY <1>0, <1>1 DEF GenerationsAgree
  <2>2. space.gen # Len(gens) + 1  BY <1>0, <1>2 DEF Pointing, Pointers
  <2>3. \A h \in DOMAIN gens : h # Len(gens) + 1  BY <1>2
  <2> QED  BY <1>0, <1>3, <1>6, <1>7, <1>8, <2>1, <2>2, <2>3 DEF GenerationsAgree
<1> QED  BY <1>0, <1>1, <1>5, <1>9, <1>10, <1>11, SubmittingStays DEF Inv

LEMMA PublishKeeps == ASSUME Inv, PublishBuild PROVE Inv' /\ Evolves
<1>0. Typed /\ Pointing /\ GenerationsAgree /\ Submitting /\ space \in Pointers  BY DEF Inv, Typed
<1> DEFINE b == space.build
           g == builds[b].gen
<1>1. /\ b # 0
      /\ snaps' = Append(snaps, [gen |-> g, docs |-> builds[b].docs, deleted |-> FALSE])
      /\ gens' = Switched(g)
      /\ space' = [gen |-> g, version |-> Len(snaps) + 1, build |-> 0]
      /\ builds' = [builds EXCEPT ![b].status = "published"]
      /\ UNCHANGED <<items, upload, spec, scenario>>
  BY DEF PublishBuild, process, bounds
<1>2. b \in DOMAIN builds /\ Len(builds) \in Nat
  <2>1. b \in 1..Len(builds) /\ Len(builds) \in Nat  BY <1>0, <1>1, BuildFacts DEF Pointing, Pointers
  <2>2. DOMAIN builds = 1..Len(builds)  BY <1>0 DEF Typed
  <2> QED  BY <2>1, <2>2
<1>3. g \in Nat /\ g <= Len(gens)  BY <1>0, <1>2, BuildFacts DEF Pointing
<1>4. /\ \E M : snaps' \in Seq(Saved(M))
      /\ \A v \in DOMAIN snaps' : \/ snaps'[v].gen = g
                                  \/ v \in DOMAIN snaps /\ snaps'[v] = snaps[v]
  <2> HIDE DEF g
  <2> QED  BY <1>0, <1>1, <1>3, SnapAppended
<1>5. /\ gens' \in Seq(Generation) /\ Len(gens') = Len(gens) /\ DOMAIN gens' = DOMAIN gens
      /\ \A h \in DOMAIN gens :
           /\ gens'[h].status = "active" <=> h = g
           /\ gens'[h].status = "building" <=> h # g /\ gens[h].status = "building"
  BY <1>0, <1>1, SwitchedFacts
<1>6. /\ \E M : builds' \in Seq(Staged(M))
      /\ Len(builds') = Len(builds) /\ DOMAIN builds' = DOMAIN builds
      /\ \A a \in DOMAIN builds : builds'[a].gen = builds[a].gen
  <2> HIDE DEF b
  <2> QED  BY <1>0, <1>1, <1>2, BuildEnds
<1>7. space' \in Pointers /\ space'.gen = g /\ space'.build = 0
  <2> HIDE DEF g
  <2> QED  BY <1>1, <1>0, <1>3, SnapFacts DEF Pointers
<1>8. Evolves  BY <1>0, <1>1, SameEvolves
<1>9. Typed'  BY <1>0, <1>1, <1>4, <1>5, <1>6, <1>7 DEF Typed
<1>10. Pointing'
  <2> HIDE DEF b, g
  <2>1. space'.gen <= Len(gens') /\ space'.build <= Len(builds')
    BY <1>2, <1>3, <1>5, <1>6, <1>7
  <2>2. \A v \in DOMAIN snaps' : snaps'[v].gen <= Len(gens')
    BY <1>0, <1>3, <1>4, <1>5 DEF Pointing
  <2>3. \A a \in DOMAIN builds' : builds'[a].gen <= Len(gens')
    BY <1>0, <1>5, <1>6 DEF Pointing
  <2> QED  BY <2>1, <2>2, <2>3 DEF Pointing
<1>11. GenerationsAgree'  BY <1>0, <1>1, <1>5, <1>7 DEF GenerationsAgree
<1> QED  BY <1>0, <1>1, <1>8, <1>9, <1>10, <1>11, SubmittingStays DEF Inv

LEMMA CancelBuildKeeps == ASSUME Inv, CancelBuild PROVE Inv' /\ Evolves
<1>0. Typed /\ Pointing /\ GenerationsAgree /\ Submitting /\ space \in Pointers  BY DEF Inv, Typed
<1> DEFINE b == space.build
           g == builds[b].gen
<1>1. /\ b # 0 /\ items' = Cancelled(b)
      /\ gens' = [gens EXCEPT ![g].status = "retired"]
      /\ space' = [space EXCEPT !.build = 0]
      /\ builds' = [builds EXCEPT ![b].status = "cancelled"]
      /\ UNCHANGED <<snaps, upload, spec, scenario>>
  BY DEF CancelBuild, process, bounds
<1>2. b \in DOMAIN builds /\ Len(builds) \in Nat
  <2>1. b \in 1..Len(builds) /\ Len(builds) \in Nat  BY <1>0, <1>1, BuildFacts DEF Pointing, Pointers
  <2>2. DOMAIN builds = 1..Len(builds)  BY <1>0 DEF Typed
  <2> QED  BY <2>1, <2>2
<1>3. Evolves
  <2> HIDE DEF b
  <2> QED  BY <1>0, <1>1, CancelledEvolves
<1>4. /\ gens' \in Seq(Generation) /\ Len(gens') = Len(gens) /\ DOMAIN gens' = DOMAIN gens
      /\ \A h \in DOMAIN gens :
           gens'[h].status = IF h = g THEN "retired" ELSE gens[h].status
  <2> HIDE DEF g
  <2>1. CASE g \in DOMAIN gens
    <3> DEFINE y == [gens[g] EXCEPT !.status = "retired"]
    <3>1. gens[g] \in Generation  BY <1>0, <2>1 DEF Typed
    <3>2. y \in Generation /\ y.status = "retired"  BY <3>1 DEF Generation
    <3>3. gens' = [gens EXCEPT ![g] = y]  BY <1>1, <2>1
    <3> HIDE DEF y
    <3> QED  BY <1>0, <2>1, <3>2, <3>3 DEF Typed
  <2>2. CASE g \notin DOMAIN gens
    <3>1. gens' = gens  BY <1>0, <1>1, <2>2 DEF Typed
    <3> QED  BY <1>0, <2>2, <3>1 DEF Typed
  <2> QED  BY <2>1, <2>2
<1>5. /\ \E M : builds' \in Seq(Staged(M))
      /\ Len(builds') = Len(builds) /\ DOMAIN builds' = DOMAIN builds
      /\ \A a \in DOMAIN builds : builds'[a].gen = builds[a].gen
  <2> HIDE DEF b
  <2> QED  BY <1>0, <1>1, <1>2, BuildEnds
<1>6. space' \in Pointers /\ space'.gen = space.gen /\ space'.build = 0
  BY <1>0, <1>1 DEF Pointers
<1>7. Typed'  BY <1>0, <1>1, <1>3, <1>4, <1>5, <1>6 DEF Typed, Evolves
<1>8. Pointing'  BY <1>0, <1>1, <1>2, <1>4, <1>5, <1>6 DEF Pointing
<1>9. GenerationsAgree'
  <2>1. \A h \in DOMAIN gens : gens[h].status = "building" <=> h = g  BY <1>0, <1>1 DEF GenerationsAgree
  <2> HIDE DEF g
  <2> QED  BY <1>0, <1>4, <1>6, <2>1 DEF GenerationsAgree
<1> QED  BY <1>0, <1>1, <1>3, <1>7, <1>8, <1>9, SubmittingStays DEF Inv

-----------------------------------------------------------------------------
LEMMA StepInv == Inv /\ [Next]_vars => Inv' /\ EndedStay
<1> SUFFICES ASSUME Inv, [Next]_vars PROVE Inv' /\ EndedStay  OBVIOUS
<1>0. Typed  BY DEF Inv
<1>1. CASE WorkerStep  BY <1>1, WorkerKeeps, EvolvesStays
<1>2. CASE Process("route")  BY <1>2, ProcessKeeps, EvolvesStays DEF Procs
<1>3. CASE AddJob  BY <1>3, AddJobKeeps
<1>4. ASSUME NEW d \in scenario.docs, NEW c \in scenario.contents, NEW direct \in BOOLEAN,
             Upload(d, c, direct)
      PROVE  Inv' /\ EndedStay
  <2>1. d \in Docs /\ c \in Contents  BY <1>0, ScenarioFacts
  <2> QED  BY <1>4, <2>1, UploadKeeps, EvolvesStays
<1>5. CASE \/ \E i \in Ids : ReadForRetry(i) \/ CancelJob(i)
           \/ \E d \in scenario.docs : ReadForArchive(d) \/ Purge(d)
           \/ \E update \in stale : Retry(update) \/ Archive(update)
  BY <1>5, UpdatesKeep, EvolvesStays
<1>6. CASE SaveVersion  BY <1>6, SaveKeeps, EvolvesStays
<1>7. CASE \E v \in DOMAIN snaps : DeleteVersion(v) \/ ActivateVersion(v)
  BY <1>7, DeleteKeeps, ActivateKeeps, EvolvesStays
<1>8. CASE \E order \in Orders(Active(Manifest)) : StartBuild(order)
  BY <1>8, StartKeeps, EvolvesStays
<1>9. CASE PublishBuild  BY <1>9, PublishKeeps, EvolvesStays
<1>10. CASE CancelBuild  BY <1>10, CancelBuildKeeps, EvolvesStays
<1>11. CASE Life  BY <1>11, LifeKeeps, EvolvesStays
<1>13. CASE \E p \in Procs : QueryFails(p)  BY <1>13, FailuresKeep, EvolvesStays
<1>12. CASE UNCHANGED vars
  <2>1. UNCHANGED <<items, gens, snaps, builds, space, spec, upload, scenario>>
    BY <1>12 DEF vars, tables, process, bounds
  <2>2. Evolves  BY <1>0, <2>1, SameEvolves
  <2>3. spec' \in Specs  BY <1>0, <2>1 DEF Typed
  <2> QED  BY <2>1, <2>2, <2>3, Settles, EvolvesStays
<1> QED  BY <1>1, <1>2, <1>3, <1>4, <1>5, <1>6, <1>7, <1>8, <1>9, <1>10, <1>11, <1>12, <1>13
         DEF Next, Command

(* The pointers of the space never disagree with its generations: the one   *)
(* active generation is the one the space points to, and one is being built *)
(* exactly while a build is open, for that build; whatever uploads, jobs,   *)
(* activations, builds, restarts and faults are interleaved                 *)
(* (_switch_generation, bind_ingestion_generation, the build commands).     *)
THEOREM GenerationsAlwaysAgree == Spec => []GenerationsAgree
<1>1. Inv => GenerationsAgree  BY DEF Inv
<1> QED  BY InitInv, StepInv, <1>1, PTL DEF Spec

(* No step makes a job run again, or end otherwise, that was completed or   *)
(* cancelled, whichever stale copy of it a processor, a retry, a submit or  *)
(* a restarted process still holds (update_job, complete_ingestion_job,     *)
(* cancel_space_build, purge).                                              *)
THEOREM EndedJobsStay == Spec => JobsEnd
<1>1. Inv /\ [Next]_vars =>
        [\A i \in Ids : items[i].job \in {"completed", "cancelled"} =>
           items'[i].job \in {items[i].job, "none"}]_vars
  BY StepInv DEF EndedStay, Ended
<1> QED  BY InitInv, StepInv, <1>1, PTL DEF Spec, JobsEnd

-----------------------------------------------------------------------------
(* What readers see.                                                        *)

Document == [status : DocumentStatus \cup {"absent", "purged"}, current : Nat]

(* The tables hold what they may, and no saved version is active that is    *)
(* not there.                                                               *)
Recorded ==
  /\ docs \in [Docs -> Document]
  /\ \A d \in Docs : docs[d].status = "absent" => docs[d].current = 0
  /\ \A v \in DOMAIN snaps : IsManifest(snaps[v].docs)
  /\ \A b \in DOMAIN builds : IsManifest(builds[b].docs)
  /\ space.version <= Len(snaps)

(* A version belongs to a generation that exists, and is deleted with its   *)
(* document.                                                                *)
Placed ==
  \A i \in Ids : /\ items[i].gen \in DOMAIN gens
                 /\ ~items[i].removed => docs[items[i].doc].status # "purged"

(* The open build prepares a version of its own for each document that was  *)
(* active in the saved version it is based on, and knows no other document. *)
Prepared ==
  space.build # 0 =>
    LET b == builds[space.build] IN
    /\ DOMAIN b.docs = DOMAIN snaps[b.base].docs
    /\ \A d \in Active(b.docs) :
         LET i == b.docs[d].current IN
         /\ i \in Ids /\ ~items[i].removed /\ items[i].build = space.build
         /\ items[i].doc = d /\ items[i].gen = b.gen

(* A ready version was completed by its job, and its vectors are of its     *)
(* generation.                                                              *)
Ready ==
  Sound => \A i \in Ids : items[i].version = "ready" /\ ~items[i].removed =>
             /\ items[i].job = "completed" /\ items[i].indexed
             /\ items[i].made = gens[items[i].gen].spec

Served ==
  /\ Recorded /\ Placed /\ Prepared /\ Ready
  /\ PublishedIsComplete /\ SavedStaysReadable /\ ActiveVersionIsLive

(* The worker's job is not completed, and from the check of its             *)
(* specification on the vectors are made with it; nobody else processes.    *)
Busy == InTry \cup {"begin", "fail", "failjob", "requeue"}
Working ==
  /\ DOMAIN pc = Procs /\ DOMAIN target = Procs /\ faults \in Nat
  /\ \A u \in stale : u.op = "archive" => u.current \in Nat
  /\ Sound =>
       /\ pc["route"] = "idle" /\ (upload # NoUpload => ~upload.direct)
       /\ LET i == target["worker"] IN
          /\ pc["worker"] \in Busy => i \in Ids /\ items[i].job # "completed"
          /\ pc["worker"] \in {"index", "complete"} =>
               items[i].spec = spec /\ gens[items[i].gen].spec = spec
          /\ pc["worker"] = "complete" => items[i].indexed /\ items[i].made = spec

Held == Inv /\ Served /\ Working

LEMMA InitHeld == Init => Held
<1> SUFFICES ASSUME Init PROVE Held  OBVIOUS
<1>1. /\ items = << >> /\ gens = << >> /\ snaps = << >> /\ builds = << >> /\ stale = {}
      /\ space = [gen |-> 0, version |-> 0, build |-> 0] /\ upload = NoUpload
      /\ docs = [d \in Docs |-> [status |-> "absent", current |-> 0]]
      /\ pc = [p \in Procs |-> "idle"] /\ target = [p \in Procs |-> 0] /\ faults = 0
  BY DEF Init
<1>2. Recorded /\ Placed /\ Prepared /\ Ready
  BY <1>1 DEF Recorded, Placed, Prepared, Ready, Document
<1>3. Present = {}  BY <1>1 DEF Present, DocumentStatus
<1>4. PublishedIsComplete /\ SavedStaysReadable /\ ActiveVersionIsLive
  BY <1>1, <1>3 DEF PublishedIsComplete, SavedStaysReadable, ActiveVersionIsLive, Active, Manifest
<1>5. Working  BY <1>1 DEF Working, Busy, InTry, Procs
<1> QED  BY <1>2, <1>4, <1>5, InitInv DEF Held, Served

-----------------------------------------------------------------------------
(* What a step may do to a version, and who notices.                        *)

SameVersion(x, y) ==
  y.doc = x.doc /\ y.gen = x.gen /\ y.build = x.build /\ y.spec = x.spec

(* Its job only: one that was completed stays so, and none is completed.    *)
OnlyJob(x, y) ==
  /\ SameVersion(x, y) /\ y.version = x.version /\ y.indexed = x.indexed /\ y.made = x.made
  /\ y.removed = x.removed
  /\ y.job = "completed" <=> x.job = "completed"

(* For who reads it: a ready version keeps its vectors, and none is ready   *)
(* that was not.                                                            *)
ReadsSame(x, y) ==
  /\ SameVersion(x, y) /\ y.removed = x.removed
  /\ x.version = "ready" /\ ~x.removed =>
       /\ y.version = "ready"
       /\ y.job = x.job /\ y.indexed = x.indexed /\ y.made = x.made
  /\ y.version = "ready" => x.version = "ready"

LEMMA OnlyJobReads ==
  ASSUME NEW x, NEW y, OnlyJob(x, y), x.version = "ready" /\ ~x.removed => x.job = "completed"
  PROVE  ReadsSame(x, y)
BY DEF OnlyJob, ReadsSame

(* A fault is never undone.                                                 *)
LEMMA FaultsStay ==
  ASSUME faults \in Nat, [Next]_vars
  PROVE  faults' \in Nat /\ (Sound' => Sound) /\ UNCHANGED scenario
<1>1. UNCHANGED scenario /\ faults' \in {faults, faults + 1}
  <2>1. ASSUME NEW p, Process(p) PROVE UNCHANGED scenario /\ faults' \in {faults, faults + 1}
    BY <2>1 DEF Process, Begin, Check, Index, Raise, CompleteJob, FailVersion, FailJob, bounds
  <2>2. CASE WorkerStep  BY <2>1, <2>2 DEF WorkerStep, Claim, Requeue, bounds
  <2>3. CASE Command
    BY <2>3 DEF Command, Upload, ReadForRetry, CancelJob, ReadForArchive, Purge, Retry, Archive,
         SaveVersion, DeleteVersion, ActivateVersion, StartBuild, PublishBuild, CancelBuild, bounds
  <2>4. CASE AddJob \/ Life \/ UNCHANGED vars
    BY <2>4 DEF AddJob, Life, Stop, Restart, Kill, vars, bounds
  <2>5. CASE \E p \in Procs : QueryFails(p)  BY <2>5 DEF QueryFails, bounds
  <2> QED  BY <2>1, <2>2, <2>3, <2>4, <2>5 DEF Next
<1> QED  BY <1>1 DEF Sound

(* A step after which the tables of the space, and the versions for those   *)
(* who read them, are as before.                                            *)
LEMMA NobodyNotices ==
  ASSUME Inv, Served, Inv', UNCHANGED <<docs, gens, snaps, builds, space>>, Sound' => Sound,
         DOMAIN items' = Ids,
         Sound' => \A i \in Ids : ReadsSame(items[i], items'[i]),
         \A i \in Ids : SameVersion(items[i], items'[i]) /\ items'[i].removed = items[i].removed
  PROVE  Served'
<1>1. Recorded' /\ Placed' /\ Prepared'
  BY DEF Served, Recorded, Placed, Prepared, SameVersion, Active
<1>2. Ready'  BY DEF Served, Ready, ReadsSame, SameVersion
<1>3. ASSUME NEW i, NEW d, NEW g, Sound', Searchable(i, d, g)
      PROVE  Searchable(i, d, g)' /\ items'[i].made = items[i].made
  BY <1>3 DEF Searchable, Alive, ReadsSame, SameVersion, Served
<1>4. PublishedIsComplete'
  BY <1>3 DEF Served, PublishedIsComplete, Active, Manifest, Present
<1>5. SavedStaysReadable'
  BY <1>3 DEF Served, SavedStaysReadable, Active
<1>6. ActiveVersionIsLive'
  BY DEF Served, ActiveVersionIsLive, Present
<1> QED  BY <1>1, <1>2, <1>4, <1>5, <1>6 DEF Served

-----------------------------------------------------------------------------
(* The processors.                                                          *)

(* Of the versions only jobs change, and none is completed.                 *)
LEMMA OnlyJobsServed ==
  ASSUME Inv, Served, Inv', UNCHANGED <<docs, gens, snaps, builds, space>>, Sound' => Sound,
         DOMAIN items' = Ids, \A i \in Ids : OnlyJob(items[i], items'[i])
  PROVE  Served'
<1>1. ASSUME Sound', NEW i \in Ids PROVE ReadsSame(items[i], items'[i])
  BY <1>1, OnlyJobReads DEF Served, Ready
<1>2. \A i \in Ids : SameVersion(items[i], items'[i]) /\ items'[i].removed = items[i].removed
  BY DEF OnlyJob
<1> QED  BY <1>1, <1>2, NobodyNotices

LEMMA JobIsOnlyJob ==
  ASSUME Typed, NEW i, NEW s \in JobStatus \ {"completed"},
         UNCHANGED items \/ (i \in Ids /\ items[i].job # "completed" /\ items' = Job(i, s))
  PROVE  DOMAIN items' = Ids /\ \A j \in Ids : OnlyJob(items[j], items'[j])
<1>1. CASE UNCHANGED items  BY <1>1 DEF OnlyJob, SameVersion
<1>2. CASE i \in Ids /\ items[i].job # "completed" /\ items' = Job(i, s)
  <2> DEFINE y == [items[i] EXCEPT !.job = s]
  <2>1. items[i] \in Item  BY <1>2 DEF Typed
  <2>2. OnlyJob(items[i], y)  BY <1>2, <2>1 DEF OnlyJob, SameVersion, Item
  <2>3. items' = [items EXCEPT ![i] = y]  BY <1>2 DEF Job
  <2> HIDE DEF y
  <2>4. \A j \in Ids : OnlyJob(items[j], items[j])  BY DEF OnlyJob, SameVersion
  <2> QED  BY <1>2, <2>2, <2>3, <2>4
<1> QED  BY <1>1, <1>2

(* A step of others: the worker goes on with its job as it was, as long as  *)
(* that is not completed by somebody else.                                  *)
LEMMA WorkingStays ==
  ASSUME Inv, Placed, Working, UNCHANGED <<pc, target, spec>>, Sound' => Sound, faults' \in Nat,
         \A u \in stale' : u.op = "archive" => u.current \in Nat,
         Sound' /\ upload' # NoUpload => ~upload'.direct,
         \A g \in DOMAIN gens : gens'[g].spec = gens[g].spec,
         \A i \in Ids : LET x == items[i]  y == items'[i] IN
            /\ i \in DOMAIN items' /\ SameVersion(x, y) /\ y.indexed = x.indexed /\ y.made = x.made
            /\ y.job = "completed" => x.job = "completed"
  PROVE  Working'
<1>1. DOMAIN pc' = Procs /\ DOMAIN target' = Procs  BY DEF Working
<1> SUFFICES ASSUME Sound'
               PROVE  /\ pc'["route"] = "idle" /\ (upload' # NoUpload => ~upload'.direct)
                      /\ LET i == target'["worker"] IN
                        /\ pc'["worker"] \in Busy => i \in DOMAIN items' /\ items'[i].job # "completed"
                        /\ pc'["worker"] \in {"index", "complete"} =>
                              items'[i].spec = spec' /\ gens'[items'[i].gen].spec = spec'
                        /\ pc'["worker"] = "complete" => items'[i].indexed /\ items'[i].made = spec'
  BY <1>1 DEF Working
<1> DEFINE i == target["worker"]
<1>3. /\ pc["route"] = "idle"
      /\ pc["worker"] \in Busy => i \in Ids /\ items[i].job # "completed"
      /\ pc["worker"] \in {"index", "complete"} => items[i].spec = spec /\ gens[items[i].gen].spec = spec
      /\ pc["worker"] = "complete" => items[i].indexed /\ items[i].made = spec
  BY DEF Working
<1>4. pc["worker"] \in {"index", "complete"} => pc["worker"] \in Busy  BY DEF Busy, InTry
<1>5. i \in Ids => items[i].gen \in DOMAIN gens  BY DEF Placed
<1> HIDE DEF i
<1>6. target'["worker"] = i  BY DEF i
<1> QED  BY <1>3, <1>4, <1>5, <1>6 DEF SameVersion

(* A processor goes on to label.                                            *)
LEMMA Goes ==
  ASSUME Working, NEW p \in Procs, NEW label, Go(p, label), pc[p] \in Busy,
         UNCHANGED <<spec, upload, stale>>, Sound' => Sound, faults' \in Nat,
         Sound' /\ label \in Busy => target[p] \in DOMAIN items' /\ items'[target[p]].job # "completed",
         Sound' /\ label \in {"index", "complete"} =>
           items'[target[p]].spec = spec /\ gens'[items'[target[p]].gen].spec = spec,
         Sound' /\ label = "complete" => items'[target[p]].indexed /\ items'[target[p]].made = spec
  PROVE  Working'
<1>1. DOMAIN pc' = Procs /\ DOMAIN target' = Procs  BY DEF Working, Go
<1>2. \A u \in stale' : u.op = "archive" => u.current \in Nat  BY DEF Working
<1>3. ASSUME Sound'
      PROVE  /\ p = "worker" /\ pc'["route"] = "idle" /\ (upload' # NoUpload => ~upload'.direct)
             /\ pc'["worker"] = label
             /\ label \in Busy => target'["worker"] = target["worker"]
  <2>1. pc["route"] = "idle" /\ (upload # NoUpload => ~upload.direct)  BY <1>3 DEF Working
  <2>2. p = "worker"  BY <2>1 DEF Busy, InTry, Procs
  <2>3. label \in Busy => label \notin {"idle", "stopped", "dead", "lost"}  BY DEF Busy, InTry
  <2> QED  BY <2>1, <2>2, <2>3 DEF Go, Working, Procs
<1>4. label \in {"index", "complete"} => label \in Busy  BY DEF Busy, InTry
<1> QED  BY <1>1, <1>2, <1>3, <1>4 DEF Working

(* A worker that is lost has no job; a route that gives up is idle again.   *)
LEMMA LeavingWorks ==
  ASSUME Working, NEW p \in Procs, QueryFails(p), Sound' => Sound, faults' \in Nat
  PROVE  Working'
<1>1. /\ UNCHANGED <<spec, upload, stale>>
      /\ Go(p, IF p = "worker" THEN "lost" ELSE "idle")
  BY DEF QueryFails, Untouched
<1>2. DOMAIN pc' = Procs /\ DOMAIN target' = Procs  BY <1>1 DEF Working, Go
<1>3. ASSUME Sound' PROVE pc'["route"] = "idle" /\ pc'["worker"] = "lost"
  <2>1. pc["route"] = "idle"  BY <1>3 DEF Working
  <2>2. p = "worker"  BY <2>1 DEF QueryFails, Procs
  <2> QED  BY <1>1, <2>1, <2>2 DEF Go, Working, Procs
<1> QED  BY <1>1, <1>2, <1>3 DEF Working, Busy, InTry

(* The steps of process_job that only save the job.                         *)
LEMMA JobStepsServe ==
  ASSUME Held, Inv', NEW p \in Procs, Begin(p) \/ Check(p) \/ Raise(p) \/ FailJob(p),
         Sound' => Sound, faults' \in Nat
  PROVE  Served' /\ Working'
<1> DEFINE i == target[p]
<1>0. Typed /\ Inv /\ Served /\ Working  BY DEF Held, Inv
<1>1. UNCHANGED <<docs, gens, snaps, builds, space, spec, upload, stale>>
  BY DEF Begin, Check, Raise, FailJob, Untouched
<1>2. \/ UNCHANGED items
      \/ \E s \in {"running", "failed"} : MayUpdate(i) /\ items' = Job(i, s)
  BY DEF Begin, Check, Raise, FailJob
<1>3. DOMAIN items' = Ids /\ \A j \in Ids : OnlyJob(items[j], items'[j])
  <2> HIDE DEF i
  <2>1. PICK s \in {"running", "failed"} : UNCHANGED items \/ (MayUpdate(i) /\ items' = Job(i, s))
    BY <1>2
  <2>2. MayUpdate(i) => i \in Ids /\ items[i].job # "completed"  BY DEF MayUpdate, HasJob
  <2> QED  BY <1>0, <2>1, <2>2, JobIsOnlyJob DEF JobStatus
<1>4. Served'  BY <1>0, <1>1, <1>3, OnlyJobsServed
<1>5. PICK label : Go(p, label) /\ (label = "index" => Check(p) /\ Bound(i))
                   /\ label # "complete" /\ (label = "check" => Begin(p))
  BY DEF Begin, Check, Raise, FailJob, Escape
<1>6. pc[p] \in Busy  BY DEF Begin, Check, Raise, FailJob, Busy, InTry
<1>7. ASSUME Sound' PROVE i \in Ids /\ items[i].job # "completed"
  <2>1. p = "worker"  BY <1>0, <1>6, <1>7 DEF Working, Busy, InTry, Procs
  <2> QED  BY <1>0, <1>6, <1>7, <2>1 DEF Working
<1>8. Sound' /\ label = "index" => items'[i].spec = spec /\ gens'[items'[i].gen].spec = spec
  <2> HIDE DEF i
  <2> QED  BY <1>1, <1>3, <1>5, <1>7 DEF Bound, OnlyJob, SameVersion
<1>9. Sound' => i \in DOMAIN items' /\ items'[i].job # "completed"
  <2> HIDE DEF i
  <2> QED  BY <1>3, <1>7 DEF OnlyJob
<1>10. Working'  BY <1>0, <1>1, <1>5, <1>6, <1>8, <1>9, Goes
<1> QED  BY <1>4, <1>10

LEMMA IndexServes ==
  ASSUME Held, Inv', NEW p \in Procs, Index(p), Sound' => Sound, faults' \in Nat
  PROVE  Served' /\ Working'
<1> DEFINE i == target[p]
<1>0. Typed /\ Inv /\ Served /\ Working  BY DEF Held, Inv
<1>1. /\ UNCHANGED <<docs, gens, snaps, builds, space, spec, upload, stale>>
      /\ pc[p] = "index"
  BY DEF Index, Untouched
<1>2. \/ /\ MayUpdate(i) /\ Go(p, "complete")
         /\ items' = [items EXCEPT ![i].indexed = TRUE, ![i].made = spec, ![i].job = "running"]
      \/ Go(p, "fail") /\ items' = [items EXCEPT ![i].indexed = TRUE, ![i].made = spec]
  BY DEF Index
<1>3. ASSUME Sound'
      PROVE  /\ i \in Ids /\ items[i].job # "completed"
             /\ items[i].spec = spec /\ gens[items[i].gen].spec = spec
  <2>1. p = "worker"  BY <1>0, <1>1, <1>3 DEF Working, Procs
  <2> QED  BY <1>0, <1>1, <1>3, <2>1 DEF Working, Busy, InTry
<1> HIDE DEF i
<1>4. /\ DOMAIN items' = Ids
      /\ \A j \in Ids : /\ items'[j].doc = items[j].doc /\ items'[j].gen = items[j].gen
                        /\ items'[j].build = items[j].build /\ items'[j].spec = items[j].spec
                        /\ items'[j].version = items[j].version /\ items'[j].removed = items[j].removed
                        /\ j # i => items'[j] = items[j]
                        /\ j = i => items'[j].indexed /\ items'[j].made = spec
                                   /\ items'[j].job \in {items[j].job, "running"}
  <2>1. \A j \in Ids : items[j] \in Item  BY <1>0 DEF Typed
  <2> QED  BY <1>2, <2>1 DEF Item
<1>5. ASSUME Sound', NEW j \in Ids PROVE ReadsSame(items[j], items'[j])
  <2>1. CASE j # i  BY <1>4, <2>1 DEF ReadsSame, SameVersion
  <2>2. CASE j = i
    <3>1. ~(items[i].version = "ready" /\ ~items[i].removed)
      BY <1>0, <1>3, <1>5 DEF Served, Ready
    <3> QED  BY <1>4, <2>2, <3>1 DEF ReadsSame, SameVersion
  <2> QED  BY <2>1, <2>2
<1>6. Served'
  <2>1. \A j \in Ids : SameVersion(items[j], items'[j]) /\ items'[j].removed = items[j].removed
    BY <1>4 DEF SameVersion
  <2> QED  BY <1>0, <1>1, <1>4, <1>5, <2>1, NobodyNotices
<1>7. PICK label \in {"complete", "fail"} : Go(p, label)  BY <1>2
<1>8. ASSUME Sound'
      PROVE  /\ i \in DOMAIN items' /\ items'[i].job # "completed"
             /\ items'[i].spec = spec /\ gens'[items'[i].gen].spec = spec
             /\ items'[i].indexed /\ items'[i].made = spec
  BY <1>1, <1>3, <1>4, <1>8
<1>9. Working'
  BY <1>0, <1>1, <1>7, <1>8, Goes DEF i, Busy, InTry
<1> QED  BY <1>6, <1>9

(* The handler marks the version of a job that is not completed.            *)
LEMMA FailedVersionServes ==
  ASSUME Held, Inv', Sound' => Sound, NEW i, items' = FailedVersion(i),
         UNCHANGED <<docs, gens, snaps, builds, space>>,
         Sound' => i \in Ids /\ items[i].job # "completed"
  PROVE  /\ Served' /\ DOMAIN items' = Ids
         /\ \A j \in Ids : items'[j].job = items[j].job
<1>0. Typed /\ Inv /\ Served /\ Working  BY DEF Held, Inv
<1>1. /\ DOMAIN items' = Ids
      /\ \A j \in Ids : /\ SameVersion(items[j], items'[j]) /\ items'[j].removed = items[j].removed
                        /\ items'[j].job = items[j].job
                        /\ j # i => items'[j] = items[j]
                        /\ j = i => items'[j].version \in {items[j].version, "failed"}
  <2>1. \A j \in Ids : items[j] \in Item  BY <1>0 DEF Typed
  <2> QED  BY <2>1 DEF Item, FailedVersion, SameVersion
<1>2. ASSUME Sound', NEW j \in Ids PROVE ReadsSame(items[j], items'[j])
  <2>1. CASE j # i  BY <1>1, <2>1 DEF ReadsSame, SameVersion
  <2>2. CASE j = i
    <3>1. ~(items[i].version = "ready" /\ ~items[i].removed)
      BY <1>0, <1>2 DEF Served, Ready
    <3> QED  BY <1>1, <2>2, <3>1 DEF ReadsSame
  <2> QED  BY <2>1, <2>2
<1>3. Served'  BY <1>0, <1>1, <1>2, NobodyNotices
<1> QED  BY <1>1, <1>3

LEMMA FailServes ==
  ASSUME Held, Inv', NEW p \in Procs, FailVersion(p), Sound' => Sound, faults' \in Nat
  PROVE  Served' /\ Working'
<1> DEFINE i == target[p]
<1>0. Working  BY DEF Held
<1>1. /\ UNCHANGED <<docs, gens, snaps, builds, space, spec, upload, stale>>
      /\ pc[p] = "fail" /\ Go(p, "failjob") /\ items' = FailedVersion(i)
  BY DEF FailVersion, Untouched
<1>2. ASSUME Sound' PROVE i \in Ids /\ items[i].job # "completed"
  <2>1. p = "worker"  BY <1>0, <1>1, <1>2 DEF Working, Procs
  <2> QED  BY <1>0, <1>1, <1>2, <2>1 DEF Working, Busy
<1> HIDE DEF i
<1>3. /\ Served' /\ DOMAIN items' = Ids
      /\ \A j \in Ids : items'[j].job = items[j].job
  BY <1>1, <1>2, FailedVersionServes
<1>4. Working'
  BY <1>0, <1>1, <1>2, <1>3, Goes DEF i, Busy, InTry
<1> QED  BY <1>3, <1>4

(* A query that fails outside the try block takes the worker away and       *)
(* leaves what readers see.                                                 *)
LEMMA FailuresServe ==
  ASSUME Held, Inv', NEW p \in Procs, QueryFails(p), Sound' => Sound, faults' \in Nat
  PROVE  Served' /\ Working'
<1>0. Typed /\ Inv /\ Served /\ Working  BY DEF Held, Inv
<1>1. UNCHANGED <<docs, gens, snaps, builds, space, spec, upload, stale>>
  BY DEF QueryFails, Untouched
<1>2. ASSUME NEW i \in Ids, NEW s \in {"running", "failed"}, items' = Job(i, s),
             items[i].job \in {"queued", "running", "failed"}
      PROVE  Served' /\ DOMAIN items' = Ids
  <2>1. DOMAIN items' = Ids /\ \A j \in Ids : OnlyJob(items[j], items'[j])
    BY <1>0, <1>2, JobIsOnlyJob DEF JobStatus
  <2> QED  BY <1>0, <1>1, <2>1, OnlyJobsServed
<1>3. CASE UNCHANGED items
  <2>1. \A j \in Ids : OnlyJob(items[j], items'[j])  BY <1>3 DEF OnlyJob, SameVersion
  <2> QED  BY <1>0, <1>1, <1>3, <2>1, OnlyJobsServed, LeavingWorks
<1>4. CASE pc[p] = "fail" /\ items' = FailedVersion(target[p])
  <2>1. ASSUME Sound' PROVE target[p] \in Ids /\ items[target[p]].job # "completed"
    <3>1. p = "worker"  BY <1>0, <1>4, <2>1 DEF Working, Procs
    <3> QED  BY <1>0, <1>4, <2>1, <3>1 DEF Working, Busy
  <2>2. Served'  BY <1>1, <1>4, <2>1, FailedVersionServes
  <2> QED  BY <1>0, <2>2, LeavingWorks
<1> QED  BY <1>0, <1>2, <1>3, <1>4, UnreportedWrites, LeavingWorks

(* The version that is published was indexed for the generation it is       *)
(* published in.                                                            *)
LEMMA PublishedServes ==
  ASSUME Inv, Served, Inv', NEW i, MayComplete(i), Published(i),
         UNCHANGED <<gens, snaps, builds>>, Sound' => Sound,
         Sound' => items[i].indexed /\ items[i].made = gens[items[i].gen].spec
  PROVE  Served'
<1>0. Typed /\ Recorded /\ Placed /\ Prepared /\ Ready /\ i \in Ids /\ ~items[i].removed
  BY DEF Inv, Served, MayComplete, Alive
<1>i. items[i] \in Item /\ items[i].build \in Nat /\ items[i].doc \in Docs /\ i \in Nat
  <2>1. items[i] \in Item /\ Ids = 1..Len(items)  BY <1>0 DEF Typed
  <2>2. items[i].build \in Nat /\ items[i].doc \in Docs  BY <2>1 DEF Item
  <2> QED  BY <1>0, <2>1, <2>2
<1>1. /\ DOMAIN items' = Ids
      /\ \A j \in Ids : /\ SameVersion(items[j], items'[j]) /\ items'[j].removed = items[j].removed
                        /\ j # i => items'[j] = items[j]
                        /\ items'[j].indexed = items[j].indexed /\ items'[j].made = items[j].made
      /\ items'[i].version = "ready" /\ items'[i].job = "completed"
  <2>1. \A j \in Ids : items[j] \in Item  BY <1>0 DEF Typed
  <2> QED  BY <1>0, <2>1 DEF Published, Item, SameVersion
<1>2. items[i].build = space.build /\ (items[i].build = 0 => space.gen = items[i].gen)
  BY DEF MayComplete, Open
<1>3. CASE items[i].build = 0
  <2>1. /\ docs' = [docs EXCEPT ![items[i].doc] = [status |-> "active", current |-> i]]
        /\ space' = ClearedVersion
    BY <1>3 DEF Published
  <2>2. space \in Pointers  BY <1>0 DEF Typed
  <2>3. space'.version = 0 /\ space'.gen = space.gen /\ space'.build = 0
    BY <1>2, <1>3, <2>1, <2>2 DEF ClearedVersion, Pointers
  <2>4. \A d \in Docs : docs'[d] = IF d = items[i].doc THEN [status |-> "active", current |-> i]
                                   ELSE docs[d]
    BY <1>0, <1>i, <2>1 DEF Recorded
  <2>5. docs' \in [Docs -> Document]
    BY <1>0, <1>i, <2>1 DEF Recorded, Document, DocumentStatus
  <2>6. Recorded'
    <3>1. Len(snaps) \in Nat  BY <1>0, SnapFacts
    <3>2. \A d \in Docs : docs'[d].status = "absent" => docs'[d].current = 0
      BY <1>0, <2>4 DEF Recorded
    <3> QED  BY <1>0, <2>3, <2>5, <3>1, <3>2 DEF Recorded
  <2>7. Placed'
    <3>1. \A j \in Ids : items[j] \in Item  BY <1>0 DEF Typed
    <3>2. \A j \in Ids : items[j].doc \in Docs  BY <3>1 DEF Item
    <3> QED  BY <1>0, <1>1, <2>4, <3>2 DEF Placed, SameVersion
  <2>8. Prepared'  BY <2>3 DEF Prepared
  <2>9. Ready'
    <3>1. SUFFICES ASSUME Sound', NEW j \in DOMAIN items',
                          items'[j].version = "ready" /\ ~items'[j].removed
                   PROVE  /\ items'[j].job = "completed" /\ items'[j].indexed
                          /\ items'[j].made = gens'[items'[j].gen].spec
      BY DEF Ready
    <3> QED  BY <1>0, <1>1, <3>1 DEF Ready, SameVersion
  <2>10. ASSUME Sound', NEW j, NEW d, NEW g, Searchable(j, d, g)
         PROVE  Searchable(j, d, g)'
    BY <1>0, <1>1, <2>10 DEF Searchable, Alive, Ready, SameVersion
  <2>11. Sound' => Searchable(i, items[i].doc, space.gen)'
    BY <1>0, <1>1, <1>2, <1>3, <2>3 DEF Searchable, Alive, SameVersion
  <2>12. PublishedIsComplete'
    <3>1. SUFFICES ASSUME Sound', NEW d \in Active(Manifest)', docs'[d].current # 0
                   PROVE  /\ Searchable(docs[d].current, d, space.gen)'
                          /\ items'[docs'[d].current].made = gens[space.gen].spec
      BY <2>3 DEF PublishedIsComplete
    <3>2. CASE d = items[i].doc
      <4>1. d \in Docs /\ docs'[d].current = i  BY <1>i, <2>4, <3>2
      <4>2. items[i].made = gens[space.gen].spec  BY <1>2, <1>3, <3>1
      <4> QED  BY <1>0, <1>1, <2>11, <3>1, <3>2, <4>1, <4>2 DEF Searchable, Alive, SameVersion
    <3>3. CASE d # items[i].doc
      <4>1. d \in Active(Manifest) /\ docs'[d] = docs[d]
        BY <2>4, <3>3, <1>0, <2>5 DEF Active, Manifest, Present
      <4>2. Searchable(docs[d].current, d, space.gen)
            /\ items[docs[d].current].made = gens[space.gen].spec
        BY <3>1, <4>1 DEF Served, PublishedIsComplete
      <4>3. docs[d].current \in Ids  BY <4>2 DEF Searchable, Alive
      <4> QED  BY <1>1, <2>3, <2>10, <3>1, <4>1, <4>2, <4>3 DEF Searchable, Alive
    <3> QED  BY <3>2, <3>3
  <2>13. SavedStaysReadable'
    <3>1. SUFFICES ASSUME Sound', NEW v \in DOMAIN snaps, NEW d \in Active(snaps[v].docs),
                          docs'[d].status # "purged"
                   PROVE  Searchable(snaps[v].docs[d].current, d, snaps[v].gen)'
      BY DEF SavedStaysReadable, Active, Searchable, Alive
    <3>2. d \in Docs  BY <1>0 DEF Recorded, IsManifest, Active
    <3>3. docs[d].status # "purged"  BY <1>0, <2>4, <3>1, <3>2 DEF Placed
    <3> QED  BY <2>10, <3>1, <3>3 DEF Served, SavedStaysReadable
  <2>14. ActiveVersionIsLive'  BY <2>3 DEF ActiveVersionIsLive
  <2> QED  BY <2>6, <2>7, <2>8, <2>9, <2>12, <2>13, <2>14 DEF Served
<1>4. CASE items[i].build # 0
  <2>1. UNCHANGED <<docs, space>>  BY <1>4 DEF Published
  <2>2. Recorded' /\ Placed' /\ Prepared'
    <3>1. Recorded'  BY <1>0, <2>1 DEF Recorded
    <3>2. Placed'  BY <1>0, <1>1, <2>1 DEF Placed, SameVersion
    <3>3. Prepared'  BY <1>0, <1>1, <2>1 DEF Prepared, SameVersion, Active
    <3> QED  BY <3>1, <3>2, <3>3
  <2>3. Ready'
    <3>1. SUFFICES ASSUME Sound', NEW j \in DOMAIN items',
                          items'[j].version = "ready" /\ ~items'[j].removed
                   PROVE  /\ items'[j].job = "completed" /\ items'[j].indexed
                          /\ items'[j].made = gens'[items'[j].gen].spec
      BY DEF Ready
    <3> QED  BY <1>0, <1>1, <3>1 DEF Ready, SameVersion
  <2>4. ASSUME Sound', NEW j, NEW d, NEW g, Searchable(j, d, g)
        PROVE  Searchable(j, d, g)' /\ items'[j].made = items[j].made
    BY <1>0, <1>1, <2>4 DEF Searchable, Alive, Ready, SameVersion
  <2>5. PublishedIsComplete'
    BY <2>1, <2>4 DEF Served, PublishedIsComplete, Active, Manifest, Present
  <2>6. SavedStaysReadable'
    BY <2>1, <2>4 DEF Served, SavedStaysReadable, Active
  <2>7. ActiveVersionIsLive'
    BY <2>1 DEF Served, ActiveVersionIsLive, Present
  <2> QED  BY <2>2, <2>3, <2>5, <2>6, <2>7 DEF Served
<1> QED  BY <1>3, <1>4

LEMMA CompleteServes ==
  ASSUME Held, Inv', NEW p \in Procs, CompleteJob(p), Sound' => Sound, faults' \in Nat
  PROVE  Served' /\ Working'
<1> DEFINE i == target[p]
<1>0. Typed /\ Inv /\ Served /\ Working /\ pc[p] = "complete"  BY DEF Held, Inv, CompleteJob
<1>1. UNCHANGED <<gens, snaps, builds, spec, upload, stale>>  BY DEF CompleteJob
<1>2. ASSUME Sound'
      PROVE  /\ i \in Ids /\ items[i].job # "completed"
             /\ items[i].spec = spec /\ gens[items[i].gen].spec = spec
             /\ items[i].indexed /\ items[i].made = spec
  <2>1. p = "worker"  BY <1>0, <1>2 DEF Working, Procs
  <2> QED  BY <1>0, <1>2, <2>1 DEF Working, Busy, InTry
<1>3. CASE UNCHANGED <<items, docs, space>>
  <2>1. \A j \in Ids : OnlyJob(items[j], items'[j])  BY <1>3 DEF OnlyJob, SameVersion
  <2>2. Served'  BY <1>0, <1>1, <1>3, <2>1, OnlyJobsServed
  <2>3. PICK label \in {"idle", "fail"} : Go(p, label)
    <3>1. \/ Go(p, "idle")
          \/ Go(p, "fail")
      BY DEF CompleteJob
    <3> QED  BY <3>1
  <2>4. Working'
    <3> HIDE DEF i
    <3>1. Sound' => i \in DOMAIN items' /\ items'[i].job # "completed"  BY <1>2, <1>3
    <3> QED  BY <1>0, <1>1, <2>3, <3>1, Goes DEF i, Busy, InTry
  <2> QED  BY <2>2, <2>4
<1>4. CASE MayComplete(i) /\ Published(i)
  <2>1. Served'
    <3> HIDE DEF i
    <3> QED  BY <1>0, <1>1, <1>2, <1>4, PublishedServes
  <2>2. \/ Go(p, "idle")
        \/ Go(p, "fail") /\ (faults' = faults + 1 \/ UNCHANGED items)
    BY DEF CompleteJob
  <2>3. CASE Go(p, "idle")
    BY <1>0, <1>1, <2>3, Goes, <2>1 DEF Busy, InTry
  <2>4. CASE Go(p, "fail") /\ faults' = faults + 1
    <3>1. ~Sound'  BY <1>0, <2>4 DEF Sound, Working
    <3> QED  BY <1>0, <1>1, <2>4, <3>1, Goes, <2>1 DEF Busy, InTry
  <2>5. CASE Go(p, "fail") /\ UNCHANGED items
    <3> HIDE DEF i
    <3>1. Sound' => i \in DOMAIN items' /\ items'[i].job # "completed"  BY <1>2, <2>5
    <3> QED  BY <1>0, <1>1, <2>5, <3>1, Goes, <2>1 DEF i, Busy, InTry
  <2> QED  BY <2>2, <2>3, <2>4, <2>5
<1> QED  BY <1>3, <1>4 DEF CompleteJob

LEMMA ProcessServes ==
  ASSUME Held, Inv', NEW p \in Procs, Process(p), Sound' => Sound, faults' \in Nat
  PROVE  Served' /\ Working'
BY JobStepsServe, IndexServes, CompleteServes, FailServes DEF Process

LEMMA WorkerServes ==
  ASSUME Held, Inv', WorkerStep, Sound' => Sound, faults' \in Nat
  PROVE  Served' /\ Working'
<1>0. Typed /\ Inv /\ Served /\ Working  BY DEF Held, Inv
<1>1. CASE Claim
  <2>1. PICK i \in Jobs("queued") :
          items' = Job(i, "running") /\ target' = [target EXCEPT !["worker"] = i]
    BY <1>1 DEF Claim, Claimable
  <2>2. /\ UNCHANGED <<docs, gens, snaps, builds, space, spec, upload, stale>>
        /\ pc' = [pc EXCEPT !["worker"] = "begin"]
    BY <1>1 DEF Claim
  <2>3. i \in Ids /\ items[i].job = "queued"  BY DEF Jobs
  <2>4. DOMAIN items' = Ids /\ \A j \in Ids : OnlyJob(items[j], items'[j])
    BY <1>0, <2>1, <2>3, JobIsOnlyJob DEF JobStatus
  <2>5. Served'  BY <1>0, <2>2, <2>4, OnlyJobsServed
  <2>6. /\ DOMAIN pc' = Procs /\ DOMAIN target' = Procs
        /\ pc'["worker"] = "begin" /\ pc'["route"] = pc["route"] /\ target'["worker"] = i
    BY <1>0, <2>1, <2>2 DEF Working, Procs
  <2>7. items'[i].job # "completed"  BY <2>3, <2>4 DEF OnlyJob
  <2>8. Working'  BY <1>0, <2>2, <2>3, <2>4, <2>6, <2>7 DEF Working, Busy, InTry
  <2> QED  BY <2>5, <2>8
<1>2. CASE Process("worker")  BY <1>2, ProcessServes DEF Procs
<1>3. CASE Requeue
  <2> DEFINE i == target["worker"]
  <2>1. /\ UNCHANGED items \/ (MayUpdate(i) /\ items' = Job(i, "queued"))
        /\ UNCHANGED <<docs, gens, snaps, builds, space, spec, upload, stale>>
        /\ pc["worker"] = "requeue" /\ Go("worker", "stopped")
    BY <1>3 DEF Requeue, Untouched
  <2>2. MayUpdate(i) => i \in Ids /\ items[i].job # "completed"  BY DEF MayUpdate, HasJob
  <2>3. DOMAIN items' = Ids /\ \A j \in Ids : OnlyJob(items[j], items'[j])
    <3> HIDE DEF i
    <3> QED  BY <1>0, <2>1, <2>2, JobIsOnlyJob DEF JobStatus
  <2>4. Served'  BY <1>0, <2>1, <2>3, OnlyJobsServed
  <2>5. Working'  BY <1>0, <2>1, Goes DEF Busy, InTry, Procs
  <2> QED  BY <2>4, <2>5
<1> QED  BY <1>1, <1>2, <1>3 DEF WorkerStep

-----------------------------------------------------------------------------
(* The commands that leave the documents and the space alone.               *)

LEMMA LifeServes ==
  ASSUME Held, Inv', Life, Sound' => Sound, faults' \in Nat
  PROVE  Served' /\ Working'
<1>0. Typed /\ Inv /\ Served /\ Working  BY DEF Held, Inv
<1>1. UNCHANGED tables /\ UNCHANGED items
  BY DEF Life, Stop, Restart, Kill, Fresh, Untouched, tables
<1>2. \A j \in Ids : OnlyJob(items[j], items'[j])  BY <1>1 DEF OnlyJob, SameVersion
<1>3. Served'  BY <1>0, <1>1, <1>2, OnlyJobsServed DEF tables
<1>4. CASE Stop
  <2> DEFINE label == IF pc["worker"] \in InTry THEN "requeue" ELSE "stopped"
  <2>1. /\ Go("worker", label)
        /\ UNCHANGED <<items, gens, spec, upload, stale>>
    BY <1>4 DEF Stop, Untouched
  <2>2. /\ DOMAIN pc' = Procs /\ DOMAIN target' = Procs /\ pc'["route"] = pc["route"]
        /\ pc'["worker"] = label
        /\ pc["worker"] \in InTry => target'["worker"] = target["worker"]
    BY <1>0, <2>1 DEF Working, Procs, Go
  <2> QED  BY <1>0, <1>3, <2>1, <2>2 DEF Working, Busy, InTry
<1>5. CASE \E s \in scenario.specs : Restart(s) \/ Kill(s)
  <2>1. /\ pc' = [p \in Procs |-> "idle"] /\ target' = [p \in Procs |-> 0]
        /\ upload' = NoUpload /\ stale' = {}
    BY <1>5 DEF Restart, Kill, Fresh
  <2> QED  BY <1>3, <2>1 DEF Working, Busy, InTry, Procs
<1> QED  BY <1>4, <1>5 DEF Life

LEMMA AddJobServes ==
  ASSUME Held, Inv', AddJob, Sound' => Sound, faults' \in Nat
  PROVE  Served' /\ Working'
<1> DEFINE i == upload.id
<1>0. Typed /\ Inv /\ Served /\ Working  BY DEF Held, Inv
<1>1. i \in Ids /\ items[i].job = "none" /\ upload # NoUpload
  BY DEF AddJob, Held, Inv, Submitting
<1>2. PICK s \in {"failed", "queued"} : UNCHANGED items \/ items' = Job(i, s)
  BY DEF AddJob
<1>3. /\ UNCHANGED <<docs, gens, snaps, builds, space, spec, stale>> /\ upload' = NoUpload
      /\ UNCHANGED <<pc, target>> \/ Answer(i, upload.direct)
  BY DEF AddJob
<1>4. DOMAIN items' = Ids /\ \A j \in Ids : OnlyJob(items[j], items'[j])
  <2> HIDE DEF i
  <2> QED  BY <1>0, <1>1, <1>2, JobIsOnlyJob DEF JobStatus
<1>5. Served'  BY <1>0, <1>3, <1>4, OnlyJobsServed
<1>6. CASE UNCHANGED <<pc, target>>
  BY <1>0, <1>3, <1>4, <1>5, <1>6, WorkingStays DEF OnlyJob, Working, Served
<1>7. CASE ~UNCHANGED <<pc, target>>
  <2>1. upload.direct /\ DOMAIN pc' = Procs /\ DOMAIN target' = Procs
    BY <1>0, <1>3, <1>7 DEF Answer, Working
  <2>2. ~Sound'  BY <1>0, <1>1, <2>1 DEF Working
  <2> QED  BY <1>0, <1>3, <1>5, <2>1, <2>2 DEF Working
<1> QED  BY <1>6, <1>7

LEMMA UpdatesServe ==
  ASSUME Held, Inv', Sound' => Sound, faults' \in Nat,
         \/ \E i \in Ids : ReadForRetry(i) \/ CancelJob(i)
         \/ \E d \in scenario.docs : ReadForArchive(d)
         \/ \E update \in stale : Retry(update)
  PROVE  Served' /\ Working'
<1>0. Typed /\ Inv /\ Served /\ Working  BY DEF Held, Inv
<1>1. UNCHANGED <<docs, gens, snaps, builds, space, spec, upload, pc, target>>
  BY DEF ReadForRetry, CancelJob, ReadForArchive, Retry, Untouched, tables
<1>2. \E i : \E s \in {"cancelled", "queued"} :
        UNCHANGED items \/ (i \in Ids /\ items[i].job # "completed" /\ items' = Job(i, s))
  <2>1. CASE \E i \in Ids : CancelJob(i)
    <3>1. PICK i \in Ids : items[i].job \in {"queued", "failed"} /\ items' = Job(i, "cancelled")
      BY <2>1 DEF CancelJob
    <3> QED  BY <3>1
  <2>2. CASE \E update \in stale : Retry(update)
    <3>1. PICK update \in stale : items' = IF MayUpdate(update.id) THEN Job(update.id, "queued") ELSE items
      BY <2>2 DEF Retry
    <3>2. MayUpdate(update.id) => update.id \in Ids /\ items[update.id].job # "completed"
      BY DEF MayUpdate, HasJob
    <3> QED  BY <3>1, <3>2
  <2>3. CASE (\E i \in Ids : ReadForRetry(i)) \/ \E d \in scenario.docs : ReadForArchive(d)
    BY <2>3 DEF ReadForRetry, ReadForArchive, tables
  <2> QED  BY <2>1, <2>2, <2>3
<1>3. DOMAIN items' = Ids /\ \A j \in Ids : OnlyJob(items[j], items'[j])
  BY <1>0, <1>2, JobIsOnlyJob DEF JobStatus
<1>4. Served'  BY <1>0, <1>1, <1>3, OnlyJobsServed
<1>5. \A u \in stale' : u.op = "archive" => u.current \in Nat
  <2>1. ASSUME NEW d \in scenario.docs, ReadForArchive(d) PROVE docs[d].current \in Nat
    <3>1. d \in Docs  BY <1>0, ScenarioFacts
    <3> QED  BY <1>0, <3>1 DEF Served, Recorded, Document
  <2> QED
    BY <1>0, <2>1 DEF Working, ReadForRetry, CancelJob, ReadForArchive, Retry, Untouched, Kept
<1>6. Working'
  BY <1>0, <1>1, <1>3, <1>5, WorkingStays DEF OnlyJob, Working, Served
<1> QED  BY <1>4, <1>6

-----------------------------------------------------------------------------
(* The commands that clear the active version.                              *)

LEMMA ArchiveServes ==
  ASSUME Held, Inv', Sound' => Sound, faults' \in Nat, NEW update \in stale, Archive(update)
  PROVE  Served' /\ Working'
<1>0. Typed /\ Inv /\ Served /\ Working /\ Recorded /\ space \in Pointers
  BY DEF Held, Inv, Served, Typed
<1>1. UNCHANGED <<items, gens, snaps, builds, spec, pc, target, upload>> /\ stale' \subseteq stale
  BY DEF Archive, Kept
<1>2. Working'
  <2>1. \A j \in Ids : OnlyJob(items[j], items'[j])  BY <1>1 DEF OnlyJob, SameVersion
  <2> QED  BY <1>0, <1>1, <2>1, WorkingStays DEF OnlyJob, Working, Served
<1>3. CASE space.build # 0
  <2>1. UNCHANGED <<docs, space>>  BY <1>3 DEF Archive
  <2>2. \A j \in Ids : OnlyJob(items[j], items'[j])  BY <1>1 DEF OnlyJob, SameVersion
  <2> QED  BY <1>0, <1>1, <1>2, <2>1, <2>2, OnlyJobsServed
<1>4. CASE space.build = 0
  <2> DEFINE e == update.id
  <2>1. /\ docs' = IF docs[e].status \in DocumentStatus
                   THEN [docs EXCEPT ![e] = [status |-> "archived", current |-> update.current]]
                   ELSE docs
        /\ space' = ClearedVersion /\ update.op = "archive"
    BY <1>4 DEF Archive
  <2>2. update.current \in Nat  BY <1>0, <2>1 DEF Working
  <2> HIDE DEF e
  <2>3. space'.version = 0 /\ space'.gen = space.gen /\ space'.build = 0
    BY <1>0, <1>4, <2>1 DEF ClearedVersion, Pointers
  <2>4. /\ docs' \in [Docs -> Document]
        /\ \A d \in Docs : \/ docs'[d] = docs[d]
                           \/ docs[d].status \in DocumentStatus /\ docs'[d].status = "archived"
    BY <1>0, <2>1, <2>2 DEF Recorded, Document, DocumentStatus
  <2>5. Recorded'
    BY <1>0, <1>1, <2>3, <2>4, SnapFacts DEF Recorded
  <2>6. Placed'
    <3>1. \A j \in Ids : items[j] \in Item  BY <1>0 DEF Typed
    <3>2. \A j \in Ids : items[j].doc \in Docs  BY <3>1 DEF Item
    <3> QED  BY <1>0, <1>1, <2>4, <3>2 DEF Served, Placed
  <2>7. Prepared' /\ ActiveVersionIsLive'  BY <2>3 DEF Prepared, ActiveVersionIsLive
  <2>8. Ready'  BY <1>0, <1>1 DEF Served, Ready
  <2>9. PublishedIsComplete'
    <3>1. \A d \in Active(Manifest)' : d \in Active(Manifest) /\ docs'[d] = docs[d]
      BY <1>0, <2>4 DEF Active, Manifest, Present, Recorded
    <3> QED  BY <1>0, <1>1, <2>3, <3>1 DEF Served, PublishedIsComplete, Searchable, Alive
  <2>10. SavedStaysReadable'
    <3>1. \A v \in DOMAIN snaps : \A d \in Active(snaps[v].docs) : d \in Docs
      BY <1>0 DEF Recorded, IsManifest, Active
    <3>2. \A d \in Docs : docs'[d].status # "purged" => docs[d].status # "purged"
      BY <2>4 DEF DocumentStatus
    <3> QED  BY <1>0, <1>1, <3>1, <3>2 DEF Served, SavedStaysReadable, Searchable, Alive, Active
  <2> QED  BY <1>2, <2>5, <2>6, <2>7, <2>8, <2>9, <2>10 DEF Served
<1> QED  BY <1>3, <1>4

LEMMA PurgeServes ==
  ASSUME Held, Inv', Sound' => Sound, faults' \in Nat, NEW e \in scenario.docs, Purge(e)
  PROVE  Served' /\ Working'
<1>0. Typed /\ Inv /\ Served /\ Working /\ Recorded /\ space \in Pointers /\ e \in Docs
  BY ScenarioFacts DEF Held, Inv, Served, Typed
<1>1. /\ UNCHANGED <<gens, snaps, builds, spec, pc, target, upload, stale>> /\ space.build = 0
      /\ docs' = [docs EXCEPT ![e] = [status |-> "purged", current |-> 0]]
      /\ items' = Purged(e) /\ space' = ClearedVersion
  BY DEF Purge, process
<1>2. /\ DOMAIN items' = Ids
      /\ \A j \in Ids : /\ SameVersion(items[j], items'[j]) /\ items'[j].version = items[j].version
                        /\ items'[j].indexed = items[j].indexed /\ items'[j].made = items[j].made
                        /\ items[j].doc = e => items'[j].removed /\ items'[j].job = "none"
                        /\ items[j].doc # e => items'[j] = items[j]
  <2>1. \A j \in Ids : items[j] \in Item  BY <1>0 DEF Typed
  <2> QED  BY <1>1, <2>1 DEF Item, Purged, SameVersion
<1>3. space'.version = 0 /\ space'.gen = space.gen /\ space'.build = 0
  BY <1>0, <1>1 DEF ClearedVersion, Pointers
<1>4. /\ docs' \in [Docs -> Document]
      /\ \A d \in Docs : docs'[d] = IF d = e THEN [status |-> "purged", current |-> 0] ELSE docs[d]
  BY <1>0, <1>1 DEF Recorded, Document
<1>5. Recorded'  BY <1>0, <1>1, <1>3, <1>4, SnapFacts DEF Recorded
<1>6. Placed'
  <2>1. \A j \in Ids : items[j] \in Item  BY <1>0 DEF Typed
  <2>2. \A j \in Ids : items[j].doc \in Docs  BY <2>1 DEF Item
  <2> QED  BY <1>0, <1>1, <1>2, <1>4, <2>2 DEF Served, Placed, SameVersion
<1>7. Prepared' /\ ActiveVersionIsLive'  BY <1>3 DEF Prepared, ActiveVersionIsLive
<1>8. Ready'  BY <1>0, <1>1, <1>2 DEF Served, Ready, SameVersion
<1>9. ASSUME NEW i, NEW d, NEW g, Searchable(i, d, g), d # e
      PROVE  Searchable(i, d, g)' /\ items'[i].made = items[i].made
  BY <1>2, <1>9 DEF Searchable, Alive, SameVersion
<1>10. PublishedIsComplete'
  <2>1. \A d \in Active(Manifest)' : d \in Active(Manifest) /\ docs'[d] = docs[d] /\ d # e
    BY <1>0, <1>4 DEF Active, Manifest, Present, Recorded, DocumentStatus
  <2>2. SUFFICES ASSUME Sound', NEW d \in Active(Manifest)', docs'[d].current # 0
                 PROVE  /\ Searchable(docs[d].current, d, space.gen)'
                        /\ items'[docs'[d].current].made = gens[space.gen].spec
    BY <1>1, <1>3 DEF PublishedIsComplete
  <2>3. Searchable(docs[d].current, d, space.gen) /\ items[docs[d].current].made = gens[space.gen].spec
    BY <1>0, <2>1, <2>2 DEF Served, PublishedIsComplete
  <2> QED  BY <1>3, <1>9, <2>1, <2>2, <2>3 DEF Searchable, Alive
<1>11. SavedStaysReadable'
  <2>1. \A v \in DOMAIN snaps : \A d \in Active(snaps[v].docs) : d \in Docs
    BY <1>0 DEF Recorded, IsManifest, Active
  <2>2. \A d \in Docs : docs'[d].status # "purged" => docs[d].status # "purged" /\ d # e
    BY <1>4
  <2> QED  BY <1>0, <1>1, <1>9, <2>1, <2>2 DEF Served, SavedStaysReadable, Active
<1>12. Working'
  BY <1>0, <1>1, <1>2, WorkingStays DEF Working, Served
<1> QED  BY <1>5, <1>6, <1>7, <1>8, <1>10, <1>11, <1>12 DEF Served

LEMMA UploadServes ==
  ASSUME Held, Inv', Sound' => Sound, faults' \in Nat,
         NEW e \in Docs, NEW c \in Contents, NEW direct \in BOOLEAN, Upload(e, c, direct)
  PROVE  Served' /\ Working'
<1> DEFINE first == space.gen = 0
           g == IngestionGeneration
           blocked == ~first /\ gens[g].spec # spec
           new == NewItem(e, c, spec, g, 0, IF blocked THEN "failed" ELSE "pending", "none")
<1>0. Typed /\ Inv /\ Served /\ Working /\ Recorded /\ space \in Pointers /\ spec \in Specs /\ Pointing
  BY DEF Held, Inv, Served, Typed
<1>1. /\ UNCHANGED <<snaps, builds, spec, stale>> /\ space.build = 0 /\ docs[e].status # "purged"
      /\ gens' = IF first THEN Append(gens, [spec |-> spec, status |-> "active"]) ELSE gens
      /\ docs' = [docs EXCEPT ![e].status = IF @ = "absent" THEN "active" ELSE @]
      /\ space' = IF first \/ e \notin Present THEN [ClearedVersion EXCEPT !.gen = g] ELSE space
      /\ \/ UNCHANGED <<items, upload>>
         \/ items' = Append(items, new) /\ upload' = [id |-> Len(items) + 1, direct |-> direct]
      /\ direct => "ingest" \in scenario.commands
      /\ UNCHANGED <<pc, target>> \/ \E i : Answer(i, direct)
      /\ UNCHANGED scenario
  BY DEF Upload, bounds
<1>2. /\ new.version \in {"failed", "pending"} /\ ~new.removed /\ new.doc = e /\ new.gen = g
  <2> HIDE DEF g, blocked
  <2> QED  BY DEF NewItem
<1> HIDE DEF new, blocked
<1>3. Len(gens) \in Nat /\ DOMAIN gens = 1..Len(gens) /\ Ids = 1..Len(items) /\ Len(items) \in Nat
  BY <1>0 DEF Typed
<1>4. /\ DOMAIN gens \subseteq DOMAIN gens' /\ \A h \in DOMAIN gens : gens'[h] = gens[h]
      /\ g \in DOMAIN gens'
  <2>1. CASE first
    <3>1. /\ \A h \in DOMAIN gens : gens'[h] = gens[h]
          /\ DOMAIN gens' = DOMAIN gens \cup {Len(gens) + 1}
      BY <1>0, <1>1, <2>1, OneMoreGeneration
    <3>2. g = Len(gens) + 1  BY <2>1 DEF IngestionGeneration
    <3> QED  BY <3>1, <3>2
  <2>2. CASE ~first
    <3>1. g = space.gen /\ space.gen \in 1..Len(gens)
      BY <1>0, <1>3, <2>2 DEF IngestionGeneration, Pointing, Pointers
    <3> QED  BY <1>1, <1>3, <2>2, <3>1
  <2> QED  BY <2>1, <2>2
<1>5. /\ Ids \subseteq DOMAIN items' /\ \A j \in Ids : items'[j] = items[j]
      /\ \A j \in DOMAIN items' \ Ids : items'[j] = new
  <2>1. CASE items' = items  BY <2>1
  <2>2. CASE items' = Append(items, new)  BY <1>3, <2>2, <1>0 DEF Typed
  <2> QED  BY <1>1, <2>1, <2>2
<1>6. /\ space'.build = 0 /\ space'.version \in {0, space.version}
      /\ space.gen # 0 => space'.gen = space.gen
      /\ space' = space \/ space'.version = 0
      /\ space' = space \/ first \/ e \notin Present
      /\ e \notin Present => space'.version = 0
  <2>1. space.gen # 0 => g = space.gen  BY DEF IngestionGeneration
  <2> HIDE DEF g
  <2> QED  BY <1>0, <1>1, <2>1 DEF ClearedVersion, Pointers
<1> HIDE DEF g
<1>7. /\ docs' \in [Docs -> Document]
      /\ \A d \in Docs : /\ docs'[d].current = docs[d].current
                         /\ docs[d].status # "absent" => docs'[d] = docs[d]
                         /\ docs[d].status = "absent" => docs'[d].status \in {"absent", "active"}
                         /\ d # e => docs'[d] = docs[d]
  <2>1. docs[e] \in Document  BY <1>0 DEF Recorded
  <2> DEFINE y == [docs[e] EXCEPT !.status = IF @ = "absent" THEN "active" ELSE @]
  <2>2. y \in Document /\ y.current = docs[e].current
        /\ (docs[e].status # "absent" => y = docs[e])
        /\ (docs[e].status = "absent" => y.status = "active")
    BY <2>1 DEF Document, DocumentStatus
  <2>3. docs' = [docs EXCEPT ![e] = y]  BY <1>1
  <2> HIDE DEF y
  <2> QED  BY <1>0, <2>2, <2>3 DEF Recorded
<1>8. Recorded'
  <2>1. \A d \in Docs : docs'[d].status = "absent" => docs'[d].current = 0
    BY <1>0, <1>7 DEF Recorded
  <2> QED  BY <1>0, <1>1, <1>6, <1>7, <2>1, SnapFacts DEF Recorded
<1>9. Placed'
  <2>1. \A j \in Ids : items[j] \in Item  BY <1>0 DEF Typed
  <2>2. \A j \in Ids : items[j].doc \in Docs  BY <2>1 DEF Item
  <2>3. docs'[e].status # "purged"  BY <1>1, <1>7
  <2>4. \A d \in Docs : docs'[d].status = "purged" => docs[d].status = "purged"  BY <1>7
  <2> QED  BY <1>0, <1>2, <1>4, <1>5, <2>2, <2>3, <2>4 DEF Served, Placed
<1>10. Prepared'  BY <1>6 DEF Prepared
<1>11. Ready'
  BY <1>0, <1>2, <1>4, <1>5 DEF Served, Ready, Placed
<1>12. ASSUME NEW i, NEW d, NEW h, Searchable(i, d, h)
       PROVE  Searchable(i, d, h)' /\ items'[i] = items[i] /\ h \in DOMAIN gens
  BY <1>0, <1>5, <1>12 DEF Searchable, Alive, Served, Placed
<1>13. PublishedIsComplete'
  <2>1. SUFFICES ASSUME Sound', NEW d \in Active(Manifest)', docs'[d].current # 0
                 PROVE  /\ Searchable(docs[d].current, d, space.gen)'
                        /\ items'[docs'[d].current].made = gens'[space'.gen].spec
    BY DEF PublishedIsComplete
  <2>2. d \in Docs /\ docs'[d].status = "active" /\ docs[d].current # 0
    BY <1>7, <2>1 DEF Active, Manifest, Present
  <2>3. docs[d].status = "active"
    BY <1>0, <1>7, <2>2 DEF Recorded
  <2>4. d \in Active(Manifest)  BY <2>2, <2>3 DEF Active, Manifest, Present, DocumentStatus
  <2>5. Searchable(docs[d].current, d, space.gen) /\ items[docs[d].current].made = gens[space.gen].spec
    BY <1>0, <2>1, <2>2, <2>4 DEF Served, PublishedIsComplete
  <2>6. space.gen \in DOMAIN gens  BY <1>12, <2>5
  <2>7. space'.gen = space.gen  BY <1>3, <1>6, <2>6
  <2> QED  BY <1>4, <1>7, <1>12, <2>2, <2>5, <2>6, <2>7 DEF Searchable, Alive
<1>14. SavedStaysReadable'
  <2>1. \A v \in DOMAIN snaps : \A d \in Active(snaps[v].docs) : d \in Docs
    BY <1>0 DEF Recorded, IsManifest, Active
  <2>2. \A d \in Docs : docs'[d].status # "purged" => docs[d].status # "purged"
    BY <1>7
  <2> QED  BY <1>0, <1>1, <1>12, <2>1, <2>2 DEF Served, SavedStaysReadable, Active
<1>15. ActiveVersionIsLive'
  <2>1. CASE space'.version = 0  BY <2>1 DEF ActiveVersionIsLive
  <2>2. CASE space' = space /\ e \in Present
    <3>1. docs' = docs
      <4>1. docs[e].status # "absent"  BY <2>2 DEF Present, DocumentStatus
      <4>2. \A d \in Docs : docs'[d] = docs[d]  BY <1>7, <4>1
      <4> QED  BY <1>0, <1>7, <4>2 DEF Recorded
    <3> QED  BY <1>0, <1>1, <2>2, <3>1 DEF Served, ActiveVersionIsLive, Present
  <2> QED  BY <1>6, <2>1, <2>2
<1>16. Working'
  <2>1. CASE Sound'
    <3>1. ~direct  BY <1>0, <1>1, <2>1 DEF Sound
    <3>2. UNCHANGED <<pc, target>>  BY <1>1, <3>1 DEF Answer
    <3>3. upload' # NoUpload => ~upload'.direct  BY <1>0, <1>1, <2>1, <3>1 DEF Working
    <3>4. \A u \in stale' : u.op = "archive" => u.current \in Nat  BY <1>0, <1>1 DEF Working
    <3>5. \A i \in Ids : /\ i \in DOMAIN items' /\ SameVersion(items[i], items'[i])
                         /\ items'[i].indexed = items[i].indexed /\ items'[i].made = items[i].made
                         /\ items'[i].job = "completed" => items[i].job = "completed"
      BY <1>5 DEF SameVersion
    <3>6. \A h \in DOMAIN gens : gens'[h].spec = gens[h].spec  BY <1>4
    <3> QED  BY <1>0, <1>1, <3>2, <3>3, <3>4, <3>5, <3>6, WorkingStays DEF Served
  <2>2. CASE ~Sound'
    <3>1. DOMAIN pc' = Procs /\ DOMAIN target' = Procs  BY <1>0, <1>1 DEF Answer, Working
    <3> QED  BY <1>0, <1>1, <2>2, <3>1 DEF Working
  <2> QED  BY <2>1, <2>2
<1> QED  BY <1>8, <1>9, <1>10, <1>11, <1>13, <1>14, <1>15, <1>16 DEF Served

-----------------------------------------------------------------------------
(* Saved versions.                                                          *)

(* A saved version becomes the active one, and its documents the live ones. *)
LEMMA VersionServes ==
  ASSUME Inv, Served, Inv', Sound' => Sound, UNCHANGED items,
         DOMAIN gens' = DOMAIN gens, \A h \in DOMAIN gens : gens'[h].spec = gens[h].spec,
         docs' \in [Docs -> Document],
         \A d \in Docs : docs'[d] = docs[d] \/ (d \in Present /\ docs'[d].status \in DocumentStatus),
         NEW v \in DOMAIN snaps', DOMAIN snaps' = DOMAIN snaps \cup {v},
         \A w \in DOMAIN snaps : snaps'[w] = snaps[w],
         IsManifest(snaps'[v].docs), ~snaps'[v].deleted, snaps'[v].gen = space'.gen,
         Complete(snaps'[v].docs, snaps'[v].gen),
         \A d \in Present : IF d \in DOMAIN snaps'[v].docs THEN docs'[d] = snaps'[v].docs[d]
                                                           ELSE docs'[d].status = "archived",
         \A b \in DOMAIN builds' : IsManifest(builds'[b].docs),
         space'.build = 0, space'.version = v
  PROVE  Served'
<1>0. Typed /\ Typed' /\ Recorded /\ Placed /\ Ready  BY DEF Inv, Served
<1>1. v <= Len(snaps')
  <2>1. PICK M : snaps' \in Seq(Saved(M))  BY <1>0 DEF Typed
  <2>2. DOMAIN snaps' = 1..Len(snaps') /\ Len(snaps') \in Nat  BY <2>1, LenProperties
  <2>3. v \in 1..Len(snaps')  BY <2>2
  <2> QED  BY <2>2, <2>3
<1>2. Recorded'  BY <1>0, <1>1 DEF Recorded, DocumentStatus
<1>3. \A d \in Docs : docs'[d].status = "purged" <=> docs[d].status = "purged"
  BY DEF DocumentStatus, Present
<1>4. Placed'
  <2>1. \A j \in Ids : items[j] \in Item  BY <1>0 DEF Typed
  <2>2. \A j \in Ids : items[j].doc \in Docs  BY <2>1 DEF Item
  <2> QED  BY <1>0, <1>3, <2>2 DEF Placed
<1>5. Prepared'  BY DEF Prepared
<1>6. Ready'  BY <1>0 DEF Ready, Placed
<1>7. Present' = Present  BY DEF Present, DocumentStatus
<1>8. ActiveVersionIsLive'  BY <1>7 DEF ActiveVersionIsLive
<1>9. ASSUME NEW i, NEW d, NEW g, Searchable(i, d, g) PROVE Searchable(i, d, g)'
  BY <1>9 DEF Searchable, Alive
<1>10. SavedStaysReadable'
  <2>1. SUFFICES ASSUME Sound', NEW w \in DOMAIN snaps', NEW d \in Active(snaps'[w].docs),
                        docs'[d].status # "purged"
                 PROVE  Searchable(snaps'[w].docs[d].current, d, snaps'[w].gen)
    BY <1>9 DEF SavedStaysReadable, Active
  <2>2. CASE w = v  BY <2>1, <2>2 DEF Complete
  <2>3. CASE w # v
    <3>1. w \in DOMAIN snaps /\ snaps'[w] = snaps[w]  BY <2>3
    <3>2. d \in Docs  BY <1>0, <2>1, <3>1 DEF Recorded, IsManifest, Active
    <3> QED  BY <1>3, <2>1, <3>1, <3>2 DEF Served, SavedStaysReadable
  <2> QED  BY <2>2, <2>3
<1>11. PublishedIsComplete'
  <2>1. SUFFICES ASSUME Sound', NEW d \in Active(Manifest)'
                 PROVE  /\ Searchable(docs[d].current, d, space.gen)'
                        /\ items'[docs'[d].current].made = gens'[space'.gen].spec
    BY DEF PublishedIsComplete
  <2>2. d \in Present /\ docs'[d].status = "active"
    BY <1>7, <2>1 DEF Active, Manifest
  <2>3. docs'[d] = snaps'[v].docs[d] /\ d \in Active(snaps'[v].docs)  BY <2>2 DEF Active
  <2>4. Searchable(docs'[d].current, d, space'.gen)  BY <2>3 DEF Complete
  <2> QED  BY <1>6, <1>9, <2>1, <2>4 DEF Searchable, Alive, Ready
<1> QED  BY <1>2, <1>4, <1>5, <1>6, <1>8, <1>10, <1>11 DEF Served

LEMMA SnapAdded ==
  ASSUME Typed, NEW new, snaps' = Append(snaps, new)
  PROVE  /\ Len(snaps) \in Nat /\ DOMAIN snaps' = DOMAIN snaps \cup {Len(snaps) + 1}
         /\ \A v \in DOMAIN snaps : snaps'[v] = snaps[v]
         /\ snaps'[Len(snaps) + 1] = new
<1>1. PICK M : snaps \in Seq(Saved(M))  BY DEF Typed
<1> DEFINE Wide == Saved(M) \cup {new}
<1>2. Saved(M) \subseteq Wide /\ new \in Wide  OBVIOUS
<1> HIDE DEF Wide
<1>3. \A v \in DOMAIN snaps : snaps[v] \in Wide  BY <1>1, <1>2
<1>4. snaps \in Seq(Wide)  BY <1>1, <1>3, IsASeq
<1> QED  BY <1>2, <1>4

(* The worker and the users go on while the tables of the space change.     *)
LEMMA WorkersStay ==
  ASSUME Held, UNCHANGED process, Sound' => Sound, faults' \in Nat, UNCHANGED items,
         \A g \in DOMAIN gens : gens'[g].spec = gens[g].spec
  PROVE  Working'
<1>0. Inv /\ Served /\ Working /\ Placed  BY DEF Held, Served
<1>1. UNCHANGED <<spec, pc, target, upload, stale>>  BY DEF process
<1>2. \A i \in Ids : i \in DOMAIN items' /\ SameVersion(items[i], items'[i])  BY DEF SameVersion
<1>3. \A u \in stale' : u.op = "archive" => u.current \in Nat  BY <1>0, <1>1 DEF Working
<1>4. Sound' /\ upload' # NoUpload => ~upload'.direct  BY <1>0, <1>1 DEF Working
<1> QED  BY <1>0, <1>1, <1>2, <1>3, <1>4, WorkingStays

LEMMA ManifestFacts ==
  ASSUME Recorded
  PROVE  IsManifest(Manifest) /\ DOMAIN Manifest = Present /\ \A d \in Present : Manifest[d] = docs[d]
<1>1. DOMAIN Manifest = Present /\ \A d \in Present : Manifest[d] = docs[d]  BY DEF Manifest
<1>2. \A d \in Present : d \in Docs /\ docs[d] \in [status : DocumentStatus, current : Nat]
  BY DEF Present, Recorded, Document
<1>3. Manifest \in [Present -> [status : DocumentStatus, current : Nat]]
  BY <1>2 DEF Manifest
<1> QED  BY <1>1, <1>2, <1>3 DEF IsManifest

LEMMA SaveServes ==
  ASSUME Held, Inv', Sound' => Sound, faults' \in Nat, SaveVersion
  PROVE  Served' /\ Working'
<1>0. Typed /\ Inv /\ Served /\ Recorded /\ space \in Pointers  BY DEF Held, Inv, Served, Typed
<1> DEFINE v == Len(snaps) + 1
           new == [gen |-> space.gen, docs |-> Manifest, deleted |-> FALSE]
<1>1. /\ UNCHANGED <<docs, items, gens, builds>> /\ UNCHANGED process /\ space.build = 0
      /\ snaps' = Append(snaps, new) /\ space' = [space EXCEPT !.version = v]
      /\ Complete(Manifest, space.gen)
  BY DEF SaveVersion, Idle
<1>2. space'.gen = space.gen /\ space'.build = 0 /\ space'.version = v
  BY <1>0, <1>1 DEF Pointers
<1>3. /\ DOMAIN snaps' = DOMAIN snaps \cup {v} /\ snaps'[v] = new
      /\ \A w \in DOMAIN snaps : snaps'[w] = snaps[w]
  <2> HIDE DEF new
  <2> QED  BY <1>0, <1>1, SnapAdded
<1>4. new.gen = space.gen /\ new.docs = Manifest /\ ~new.deleted  OBVIOUS
<1> HIDE DEF v, new
<1>5. IsManifest(snaps'[v].docs) /\ \A d \in Present :
        IF d \in DOMAIN snaps'[v].docs THEN docs'[d] = snaps'[v].docs[d] ELSE docs'[d].status = "archived"
  BY <1>0, <1>1, <1>3, <1>4, ManifestFacts
<1>6. Served'
  <2>1. \A b \in DOMAIN builds' : IsManifest(builds'[b].docs)  BY <1>0, <1>1 DEF Recorded
  <2>2. docs' \in [Docs -> Document]  BY <1>0, <1>1 DEF Recorded
  <2> QED  BY <1>0, <1>1, <1>2, <1>3, <1>4, <1>5, <2>1, <2>2, VersionServes
<1> QED  BY <1>1, <1>6, WorkersStay

LEMMA DeleteServes ==
  ASSUME Held, Inv', Sound' => Sound, faults' \in Nat, NEW v \in DOMAIN snaps, DeleteVersion(v)
  PROVE  Served' /\ Working'
<1>0. Typed /\ Inv /\ Served /\ Recorded  BY DEF Held, Inv, Served
<1>1. /\ UNCHANGED <<docs, items, gens, builds, space>> /\ UNCHANGED process /\ space.build = 0
      /\ snaps' = [snaps EXCEPT ![v].deleted = TRUE] /\ space.version # v
  BY DEF DeleteVersion, Idle
<1>2. /\ DOMAIN snaps' = DOMAIN snaps /\ Len(snaps') = Len(snaps)
      /\ \A w \in DOMAIN snaps : /\ snaps'[w].gen = snaps[w].gen /\ snaps'[w].docs = snaps[w].docs
                                 /\ w # v => snaps'[w] = snaps[w]
  <2>1. PICK M : snaps \in Seq(Saved(M))  BY <1>0 DEF Typed
  <2>2. snaps[v] \in Saved(M)  BY <2>1
  <2> DEFINE y == [snaps[v] EXCEPT !.deleted = TRUE]
  <2>3. y.gen = snaps[v].gen /\ y.docs = snaps[v].docs /\ y \in Saved(M)  BY <2>2 DEF Saved
  <2>4. snaps' = [snaps EXCEPT ![v] = y]  BY <1>1
  <2> HIDE DEF y
  <2> QED  BY <2>1, <2>3, <2>4
<1>3. Recorded' /\ Placed' /\ Ready'
  BY <1>0, <1>1, <1>2 DEF Served, Recorded, Placed, Ready
<1>4. Prepared'  BY <1>1 DEF Prepared
<1>5. PublishedIsComplete'
  BY <1>0, <1>1 DEF Served, PublishedIsComplete, Searchable, Alive, Active, Manifest, Present
<1>6. SavedStaysReadable'
  BY <1>0, <1>1, <1>2 DEF Served, SavedStaysReadable, Searchable, Alive, Active
<1>7. ActiveVersionIsLive'
  <2>1. space.version # 0 => space.version \in DOMAIN snaps
    <3>1. space.version \in Nat /\ Len(snaps) \in Nat  BY <1>0, SnapFacts DEF Typed, Pointers
    <3>2. DOMAIN snaps = 1..Len(snaps)  BY <1>0 DEF Typed
    <3> QED  BY <1>0, <3>1, <3>2 DEF Recorded
  <2>2. space.version # 0 => snaps'[space.version] = snaps[space.version]  BY <1>1, <1>2, <2>1
  <2>3. Present' = Present  BY <1>1 DEF Present
  <2> QED  BY <1>0, <1>1, <2>2, <2>3 DEF Served, ActiveVersionIsLive
<1>8. Working'  BY <1>1, WorkersStay
<1> QED  BY <1>3, <1>4, <1>5, <1>6, <1>7, <1>8 DEF Served

(* The specification of a generation is never changed.                      *)
LEMMA SwitchedSpecs ==
  ASSUME Typed, NEW g, gens' = Switched(g)
  PROVE  DOMAIN gens' = DOMAIN gens /\ \A h \in DOMAIN gens : gens'[h].spec = gens[h].spec
<1>1. \A h \in DOMAIN gens : gens[h] \in Generation  BY DEF Typed
<1> QED  BY <1>1 DEF Switched, Generation

LEMMA ActivateServes ==
  ASSUME Held, Inv', Sound' => Sound, faults' \in Nat, NEW v \in DOMAIN snaps, ActivateVersion(v)
  PROVE  Served' /\ Working'
<1>0. Typed /\ Inv /\ Served /\ Recorded /\ space \in Pointers  BY DEF Held, Inv, Served, Typed
<1> DEFINE m == snaps[v].docs
<1>1. /\ UNCHANGED <<items, snaps, builds>> /\ UNCHANGED process /\ space.build = 0
      /\ docs' = Restored(m) /\ gens' = Switched(snaps[v].gen)
      /\ space' = [space EXCEPT !.gen = snaps[v].gen, !.version = v]
      /\ ~snaps[v].deleted /\ DOMAIN m \subseteq Present /\ Complete(m, snaps[v].gen)
  BY DEF ActivateVersion, Activatable, Idle
<1>2. space'.gen = snaps[v].gen /\ space'.build = 0 /\ space'.version = v
  BY <1>0, <1>1 DEF Pointers
<1>3. DOMAIN gens' = DOMAIN gens /\ \A h \in DOMAIN gens : gens'[h].spec = gens[h].spec
  BY <1>0, <1>1, SwitchedSpecs
<1>4. IsManifest(m)  BY <1>0 DEF Recorded
<1> HIDE DEF m
<1>5. ASSUME NEW d \in Docs
      PROVE  /\ docs'[d] \in Document
             /\ docs'[d] = docs[d] \/ (d \in Present /\ docs'[d].status \in DocumentStatus)
             /\ d \in DOMAIN m => docs'[d] = m[d]
             /\ d \in Present \ DOMAIN m => docs'[d].status = "archived"
  <2>1. docs'[d] = CASE d \in DOMAIN m -> m[d]
                     [] d \in Present \ DOMAIN m -> [docs[d] EXCEPT !.status = "archived"]
                     [] OTHER -> docs[d]
    BY <1>1 DEF Restored
  <2>2. docs[d] \in Document  BY <1>0 DEF Recorded
  <2>3. CASE d \in DOMAIN m
    <3>1. docs'[d] = m[d] /\ d \in Present /\ m[d] \in [status : DocumentStatus, current : Nat]
      BY <1>1, <1>4, <2>1, <2>3 DEF IsManifest
    <3> QED  BY <2>3, <3>1 DEF Document, DocumentStatus
  <2>4. CASE d \notin DOMAIN m /\ d \in Present
    <3>1. docs'[d] = [docs[d] EXCEPT !.status = "archived"]  BY <2>1, <2>4
    <3> QED  BY <2>2, <2>4, <3>1 DEF Document, DocumentStatus
  <2>5. CASE d \notin DOMAIN m /\ d \notin Present
    <3>1. docs'[d] = docs[d]  BY <2>1, <2>5
    <3> QED  BY <2>2, <2>5, <3>1
  <2> QED  BY <2>3, <2>4, <2>5
<1>6. docs' \in [Docs -> Document]
  <2>1. DOMAIN docs' = Docs /\ docs' = [d \in Docs |-> docs'[d]]  BY <1>1 DEF Restored
  <2> QED  BY <1>5, <2>1
<1>7. \A d \in Present : IF d \in DOMAIN snaps'[v].docs THEN docs'[d] = snaps'[v].docs[d]
                                                        ELSE docs'[d].status = "archived"
  BY <1>1, <1>5 DEF m, Present
<1>8. Served'
  <2>1. \A b \in DOMAIN builds' : IsManifest(builds'[b].docs)  BY <1>0, <1>1 DEF Recorded
  <2>2. \A d \in Docs : docs'[d] = docs[d] \/ (d \in Present /\ docs'[d].status \in DocumentStatus)
    BY <1>5
  <2>3. /\ v \in DOMAIN snaps' /\ DOMAIN snaps' = DOMAIN snaps \cup {v}
        /\ \A w \in DOMAIN snaps : snaps'[w] = snaps[w]
        /\ IsManifest(snaps'[v].docs) /\ ~snaps'[v].deleted /\ snaps'[v].gen = space'.gen
        /\ Complete(snaps'[v].docs, snaps'[v].gen)
    BY <1>1, <1>2, <1>4 DEF m
  <2> QED  BY <1>0, <1>1, <1>2, <1>3, <1>6, <1>7, <2>1, <2>2, <2>3, VersionServes
<1> QED  BY <1>1, <1>3, <1>8, WorkersStay

-----------------------------------------------------------------------------
(* Builds.                                                                  *)

(* The build that is appended, and those that are there.                    *)
LEMMA BuildAdded ==
  ASSUME Typed, NEW new, builds' = Append(builds, new)
  PROVE  /\ DOMAIN builds' = DOMAIN builds \cup {Len(builds) + 1}
         /\ \A b \in DOMAIN builds : builds'[b] = builds[b]
         /\ builds'[Len(builds) + 1] = new
<1>1. PICK M : builds \in Seq(Staged(M))  BY DEF Typed
<1> DEFINE Wide == Staged(M) \cup {new}
<1>2. Staged(M) \subseteq Wide /\ new \in Wide  OBVIOUS
<1> HIDE DEF Wide
<1>3. \A b \in DOMAIN builds : builds[b] \in Wide  BY <1>1, <1>2
<1>4. builds \in Seq(Wide)  BY <1>1, <1>3, IsASeq
<1> QED  BY <1>2, <1>4

LEMMA BuildStatus ==
  ASSUME Typed, NEW b \in DOMAIN builds, NEW s \in {"published", "cancelled"},
         builds' = [builds EXCEPT ![b].status = s]
  PROVE  /\ DOMAIN builds' = DOMAIN builds /\ builds'[b].status = s
         /\ \A a \in DOMAIN builds : builds'[a].docs = builds[a].docs
<1>1. PICK M : builds \in Seq(Staged(M))  BY DEF Typed
<1> DEFINE y == [builds[b] EXCEPT !.status = s]
<1>2. builds[b] \in Staged(M)  BY <1>1
<1>3. y.docs = builds[b].docs /\ y.status = s  BY <1>2 DEF Staged
<1>4. builds' = [builds EXCEPT ![b] = y]  OBVIOUS
<1> HIDE DEF y
<1> QED  BY <1>3, <1>4

LEMMA OrderFacts ==
  ASSUME NEW A, IsFiniteSet(A), NEW order \in Orders(A)
  PROVE  /\ Len(order) \in Nat /\ DOMAIN order = 1..Len(order)
         /\ \A k \in 1..Len(order) : order[k] \in A
         /\ \A d \in A : \E k \in 1..Len(order) : order[k] = d
<1>1. Cardinality(A) \in Nat  BY FS_CardinalityType
<1>2. order \in [1..Cardinality(A) -> A] /\ \A d \in A : \E k \in DOMAIN order : order[k] = d
  BY DEF Orders
<1>3. order \in Seq(A)  BY <1>1, <1>2, IsASeq
<1>4. Len(order) = Cardinality(A)  BY <1>1, <1>2, <1>3, LenProperties
<1> QED  BY <1>1, <1>2, <1>4

LEMMA StartServes ==
  ASSUME Held, Inv', Sound' => Sound, faults' \in Nat,
         NEW order \in Orders(Active(Manifest)), StartBuild(order)
  PROVE  Served' /\ Working'
<1>0. /\ Typed /\ Inv /\ Served /\ Recorded /\ Placed /\ Working
      /\ space \in Pointers /\ Ids = 1..Len(items) /\ Len(items) \in Nat
  BY DEF Held, Inv, Served, Typed
<1> DEFINE A == Active(Manifest)
           n == Len(order)
           g == Len(gens) + 1
           b == Len(builds) + 1
           staged == [d \in Present |->
                        IF d \in A
                        THEN [status |-> "active",
                              current |-> Len(items) + CHOOSE k \in 1..n : order[k] = d]
                        ELSE docs[d]]
           y(k) == NewItem(order[k], items[docs[order[k]].current].content, spec, g, b,
                           "pending", "queued")
           build == [base |-> space.version, gen |-> g, status |-> "open", docs |-> staged]
<1>1. /\ UNCHANGED <<docs, snaps>> /\ UNCHANGED process
      /\ Buildable(A) /\ Baseline(space.version)
      /\ gens' = Append(gens, [spec |-> spec, status |-> "building"])
      /\ items' = items \o [k \in 1..n |-> y(k)]
      /\ builds' = Append(builds, build)
      /\ space' = [space EXCEPT !.build = b]
  BY DEF StartBuild, Buildable
<1>2. /\ DOMAIN gens' = DOMAIN gens \cup {g} /\ \A h \in DOMAIN gens : gens'[h] = gens[h]
  BY <1>0, <1>1, OneMoreGeneration
<1>3. /\ DOMAIN builds' = DOMAIN builds \cup {b} /\ \A a \in DOMAIN builds : builds'[a] = builds[a]
      /\ builds'[b] = build
  <2> HIDE DEF build
  <2> QED  BY <1>0, <1>1, BuildAdded
<1>4. space'.build = b /\ space'.gen = space.gen /\ space'.version = space.version /\ b \in Nat /\ b # 0
  <2>1. b \in Nat /\ b # 0  BY <1>0, BuildFacts
  <2> HIDE DEF b
  <2> QED  BY <1>0, <1>1, <2>1 DEF Pointers
<1>5. build.base = space.version /\ build.gen = g /\ build.docs = staged
  <2> HIDE DEF staged, g
  <2> QED  OBVIOUS
<1>6. A \subseteq Docs /\ A \subseteq Present /\ \A d \in Present \ A : docs[d].status # "active"
  BY DEF Active, Manifest, Present
<1>7. /\ n \in Nat /\ \A k \in 1..n : order[k] \in A
      /\ \A d \in A : \E k \in 1..n : order[k] = d
  <2>1. IsFiniteSet(A)  BY <1>6, SpaceAssumption, FS_Subset
  <2> HIDE DEF A
  <2> QED  BY <2>1, OrderFacts DEF A
<1>8. \A k \in 1..n : /\ y(k).doc = order[k] /\ y(k).gen = g /\ y(k).build = b
                      /\ y(k).version = "pending" /\ ~y(k).removed
  <2> HIDE DEF g, b, n
  <2> QED  BY DEF NewItem
<1>9. g \in Nat  BY <1>0 DEF Typed
<1>10. /\ DOMAIN items' = 1..(Len(items) + n)
       /\ \A i \in Ids : items'[i] = items[i]
       /\ \A k \in 1..n : items'[Len(items) + k] = y(k)
  <2>1. [k \in 1..n |-> y(k)] \in Seq(Item)
    <3> HIDE DEF g, b, n
    <3> QED  BY <1>0, <1>1, <1>4, <1>9, NewItems DEF n
  <2>2. items \in Seq(Item)  BY <1>0 DEF Typed
  <2> DEFINE new == [k \in 1..n |-> y(k)]
  <2>8. Len(new) = n
    <3> HIDE DEF y, n
    <3> QED  BY <1>7, <2>1, LenProperties
  <2>3. \A k \in 1..n : new[k] = y(k)
    <3> HIDE DEF y, n
    <3> QED  OBVIOUS
  <2> HIDE DEF y, n, new
  <2>4. new \in Seq(Item) /\ items' = items \o new  BY <1>1, <2>1 DEF new
  <2>5. Len(items') = Len(items) + n /\ items' \in Seq(Item)  BY <2>2, <2>8, <2>4, ConcatProperties
  <2>6. \A i \in 1..Len(items) : items'[i] = items[i]  BY <2>2, <2>4
  <2>7. \A k \in 1..n : items'[Len(items) + k] = new[k]
    BY <1>7, <2>2, <2>8, <2>4, ConcatProperties
  <2> QED  BY <1>0, <2>3, <2>5, <2>6, <2>7
<1>11. \A i \in DOMAIN items' : i \in Ids \/ \E k \in 1..n : i = Len(items) + k
  <2> HIDE DEF n, y
  <2>1. SUFFICES ASSUME NEW i \in 1..(Len(items) + n), i \notin 1..Len(items)
                 PROVE  \E k \in 1..n : i = Len(items) + k
    BY <1>0, <1>10
  <2>2. i - Len(items) \in 1..n /\ i = Len(items) + (i - Len(items))  BY <1>0, <1>7, <2>1
  <2> QED  BY <2>2
<1> DEFINE at == [d \in A |-> CHOOSE k \in 1..n : order[k] = d]
<1>12. \A d \in A : at[d] \in 1..n /\ order[at[d]] = d  BY <1>7
<1>13. /\ DOMAIN staged = Present
       /\ \A d \in A : staged[d] \in [status : {"active"}, current : {Len(items) + at[d]}]
       /\ \A d \in Present \ A : staged[d] = docs[d]
  BY <1>6
<1> HIDE DEF at, n, g, b, staged, build, y
<1>14. IsManifest(staged)
  <2>1. \A d \in A : Len(items) + at[d] \in Nat  BY <1>0, <1>7, <1>12
  <2>2. \A d \in Present : staged[d] \in [status : DocumentStatus, current : Nat]
    <3> TAKE d \in Present
    <3>1. CASE d \in A  BY <1>13, <2>1, <3>1 DEF DocumentStatus
    <3>2. CASE d \notin A
      <4>1. staged[d] = docs[d] /\ docs[d] \in Document /\ docs[d].status \in DocumentStatus
        BY <1>0, <1>13, <3>2 DEF Recorded, Present
      <4> QED  BY <4>1 DEF Document
    <3> QED  BY <3>1, <3>2
  <2>3. staged = [d \in Present |-> staged[d]]  BY DEF staged
  <2>4. staged \in [Present -> [status : DocumentStatus, current : Nat]]  BY <2>2, <2>3
  <2> QED  BY <1>13, <2>4 DEF IsManifest, Present
<1>15. Recorded'
  <2>1. \A a \in DOMAIN builds' : IsManifest(builds'[a].docs)
    BY <1>0, <1>3, <1>5, <1>14 DEF Recorded
  <2> QED  BY <1>0, <1>1, <1>4, <2>1 DEF Recorded
<1>16. Placed'
  <2>1. SUFFICES ASSUME NEW i \in DOMAIN items'
                 PROVE  /\ items'[i].gen \in DOMAIN gens'
                        /\ ~items'[i].removed => docs[items'[i].doc].status # "purged"
    BY <1>1 DEF Placed
  <2>2. CASE i \in Ids  BY <1>0, <1>2, <1>10, <2>2 DEF Placed
  <2>3. CASE \E k \in 1..n : i = Len(items) + k
    <3>1. PICK k \in 1..n : i = Len(items) + k  BY <2>3
    <3>2. items'[i].gen = g /\ items'[i].doc \in A  BY <1>7, <1>8, <1>10, <3>1
    <3>3. docs[items'[i].doc].status # "purged"
      BY <1>6, <3>2 DEF Present, DocumentStatus
    <3> QED  BY <1>2, <3>2, <3>3
  <2> QED  BY <1>11, <2>2, <2>3
<1>17. Prepared'
  <2>1. SUFFICES /\ DOMAIN staged = DOMAIN snaps[space.version].docs
                 /\ \A d \in Active(staged) :
                      LET i == staged[d].current IN
                      /\ i \in DOMAIN items' /\ ~items'[i].removed /\ items'[i].build = b
                      /\ items'[i].doc = d /\ items'[i].gen = g
    <3>1. LET c == builds'[space'.build] IN c.docs = staged /\ c.base = space.version /\ c.gen = g
      BY <1>3, <1>4, <1>5
    <3> QED  BY <1>1, <1>4, <3>1 DEF Prepared, Active
  <2>2. DOMAIN staged = DOMAIN snaps[space.version].docs
    BY <1>0, <1>1, <1>13, ManifestFacts DEF Baseline
  <2>3. ASSUME NEW d \in Active(staged)
        PROVE  LET i == staged[d].current IN
               /\ i \in DOMAIN items' /\ ~items'[i].removed /\ items'[i].build = b
               /\ items'[i].doc = d /\ items'[i].gen = g
    <3>1. d \in A  BY <1>6, <1>13 DEF Active
    <3>2. staged[d].current = Len(items) + at[d] /\ at[d] \in 1..n /\ order[at[d]] = d
      BY <1>12, <1>13, <3>1
    <3>3. Len(items) + at[d] \in DOMAIN items'  BY <1>0, <1>7, <1>10, <3>2
    <3> QED  BY <1>8, <1>10, <3>2, <3>3
  <2> QED  BY <2>2, <2>3
<1>18. Ready'
  <2>1. SUFFICES ASSUME Sound', NEW i \in DOMAIN items', items'[i].version = "ready" /\ ~items'[i].removed
                 PROVE  /\ items'[i].job = "completed" /\ items'[i].indexed
                        /\ items'[i].made = gens'[items'[i].gen].spec
    BY DEF Ready
  <2>2. i \in Ids  BY <1>8, <1>10, <1>11, <2>1
  <2> QED  BY <1>0, <1>2, <1>10, <2>1, <2>2 DEF Served, Ready, Placed
<1>19. ASSUME NEW i, NEW d, NEW h, Searchable(i, d, h)
       PROVE  Searchable(i, d, h)' /\ items'[i] = items[i] /\ h \in DOMAIN gens
  <2>1. i \in Ids /\ h = items[i].gen  BY <1>19 DEF Searchable, Alive
  <2>2. i \in DOMAIN items' /\ items'[i] = items[i]  BY <1>0, <1>7, <1>10, <2>1
  <2>3. h \in DOMAIN gens  BY <1>0, <2>1 DEF Placed
  <2> QED  BY <1>19, <2>1, <2>2, <2>3 DEF Searchable, Alive
<1>20. PublishedIsComplete'
  <2>1. SUFFICES ASSUME Sound', NEW d \in Active(Manifest), docs[d].current # 0
                 PROVE  /\ Searchable(docs[d].current, d, space.gen)'
                        /\ items'[docs[d].current].made = gens'[space.gen].spec
    BY <1>1, <1>4 DEF PublishedIsComplete, Active, Manifest, Present
  <2>2. Searchable(docs[d].current, d, space.gen) /\ items[docs[d].current].made = gens[space.gen].spec
    BY <1>0, <2>1 DEF Served, PublishedIsComplete
  <2>3. /\ Searchable(docs[d].current, d, space.gen)'
        /\ items'[docs[d].current] = items[docs[d].current] /\ space.gen \in DOMAIN gens
    <3>1. UNCHANGED docs /\ space'.gen = space.gen  BY <1>1, <1>4
    <3>2. /\ Searchable(docs[d].current, d, space.gen)'
          /\ items'[docs[d].current] = items[docs[d].current] /\ space.gen \in DOMAIN gens
      BY <1>19, <2>2, <3>1 DEF Searchable, Alive
    <3> QED  BY <3>2
  <2> QED  BY <1>2, <2>2, <2>3
<1>21. SavedStaysReadable'
  BY <1>0, <1>1, <1>19 DEF Served, SavedStaysReadable, Active
<1>22. ActiveVersionIsLive'
  BY <1>0, <1>1, <1>4 DEF Served, ActiveVersionIsLive, Present
<1>23. Working'
  <2>1. UNCHANGED <<spec, pc, target, upload, stale>>  BY <1>1 DEF process
  <2>2. \A i \in Ids : i \in DOMAIN items' /\ SameVersion(items[i], items'[i])
    BY <1>0, <1>7, <1>10 DEF SameVersion
  <2>3. \A u \in stale' : u.op = "archive" => u.current \in Nat  BY <1>0, <2>1 DEF Working
  <2>4. Sound' /\ upload' # NoUpload => ~upload'.direct  BY <1>0, <2>1 DEF Working
  <2>5. \A h \in DOMAIN gens : gens'[h].spec = gens[h].spec  BY <1>2
  <2>6. \A i \in Ids : LET x == items[i]  z == items'[i] IN
          /\ i \in DOMAIN items' /\ SameVersion(x, z) /\ z.indexed = x.indexed /\ z.made = x.made
          /\ z.job = "completed" => x.job = "completed"
    BY <1>10, <2>2
  <2> QED  BY <1>0, <2>1, <2>3, <2>4, <2>5, <2>6, WorkingStays
<1> QED  BY <1>15, <1>16, <1>17, <1>18, <1>20, <1>21, <1>22, <1>23 DEF Served

(* The open build has an index when its jobs are done.                      *)
LEMMA DoneIsComplete ==
  ASSUME Inv, Prepared, space.build # 0, Done(space.build)
  PROVE  Complete(builds[space.build].docs, builds[space.build].gen)
BY DEF Prepared, Done, Targets, Complete, Searchable, Alive

LEMMA BuildThere == ASSUME Inv, space.build # 0 PROVE space.build \in DOMAIN builds
<1>1. space.build \in 1..Len(builds) /\ DOMAIN builds = 1..Len(builds)
  BY BuildFacts DEF Inv, Typed, Pointing, Pointers
<1> QED  BY <1>1

LEMMA PublishServes ==
  ASSUME Held, Inv', Sound' => Sound, faults' \in Nat, PublishBuild
  PROVE  Served' /\ Working'
<1>0. Typed /\ Inv /\ Served /\ Recorded /\ Prepared /\ space \in Pointers
  BY DEF Held, Inv, Served, Typed
<1> DEFINE b == space.build
           m == builds[b].docs
           g == builds[b].gen
           v == Len(snaps) + 1
           new == [gen |-> g, docs |-> m, deleted |-> FALSE]
<1>1. /\ UNCHANGED items /\ UNCHANGED process /\ b # 0 /\ Baseline(builds[b].base) /\ Done(b)
      /\ snaps' = Append(snaps, new)
      /\ docs' = [d \in Docs |-> IF d \in Present THEN m[d] ELSE docs[d]]
      /\ gens' = Switched(g)
      /\ space' = [gen |-> g, version |-> v, build |-> 0]
      /\ builds' = [builds EXCEPT ![b].status = "published"]
  BY DEF PublishBuild
<1>2. b \in DOMAIN builds  BY <1>0, <1>1, BuildThere
<1>3. Complete(m, g)  BY <1>0, <1>1, DoneIsComplete
<1>4. DOMAIN m = Present
  <2>1. DOMAIN m = DOMAIN snaps[builds[b].base].docs  BY <1>0, <1>1 DEF Prepared
  <2> QED  BY <1>0, <1>1, <2>1, ManifestFacts DEF Baseline
<1>5. IsManifest(m)  BY <1>0, <1>2 DEF Recorded
<1>6. /\ DOMAIN snaps' = DOMAIN snaps \cup {v} /\ snaps'[v] = new
      /\ \A w \in DOMAIN snaps : snaps'[w] = snaps[w]
  <2> HIDE DEF new
  <2> QED  BY <1>0, <1>1, SnapAdded
<1>7. new.gen = g /\ new.docs = m /\ ~new.deleted
  <2> HIDE DEF g, m
  <2> QED  OBVIOUS
<1>8. DOMAIN gens' = DOMAIN gens /\ \A h \in DOMAIN gens : gens'[h].spec = gens[h].spec
  BY <1>0, <1>1, SwitchedSpecs
<1>9. \A a \in DOMAIN builds' : IsManifest(builds'[a].docs)
  <2> HIDE DEF b
  <2> QED  BY <1>0, <1>1, <1>2, BuildStatus DEF Recorded
<1>10. space'.gen = g /\ space'.version = v /\ space'.build = 0
  <2> HIDE DEF g, v
  <2> QED  BY <1>1
<1> HIDE DEF new, v, g, m, b
<1>11. ASSUME NEW d \in Docs
       PROVE  /\ docs'[d] \in Document
              /\ docs'[d] = docs[d] \/ (d \in Present /\ docs'[d].status \in DocumentStatus)
              /\ d \in Present => docs'[d] = m[d]
  <2>1. CASE d \in Present
    <3>1. docs'[d] = m[d] /\ m[d] \in [status : DocumentStatus, current : Nat]
      BY <1>1, <1>4, <1>5, <2>1 DEF IsManifest
    <3> QED  BY <2>1, <3>1 DEF Document, DocumentStatus
  <2>2. CASE d \notin Present
    <3>1. docs'[d] = docs[d] /\ docs[d] \in Document  BY <1>0, <1>1, <2>2 DEF Recorded
    <3> QED  BY <2>2, <3>1
  <2> QED  BY <2>1, <2>2
<1>12. docs' \in [Docs -> Document]
  <2>1. docs' = [d \in Docs |-> docs'[d]]  BY <1>1
  <2> QED  BY <1>11, <2>1
<1>13. Served'
  <2>1. \A d \in Docs : docs'[d] = docs[d] \/ (d \in Present /\ docs'[d].status \in DocumentStatus)
    BY <1>11
  <2>2. \A d \in Present : IF d \in DOMAIN snaps'[v].docs THEN docs'[d] = snaps'[v].docs[d]
                                                         ELSE docs'[d].status = "archived"
    BY <1>4, <1>6, <1>7, <1>11 DEF Present
  <2>3. /\ v \in DOMAIN snaps' /\ IsManifest(snaps'[v].docs) /\ ~snaps'[v].deleted
        /\ snaps'[v].gen = space'.gen /\ Complete(snaps'[v].docs, snaps'[v].gen)
    BY <1>3, <1>5, <1>6, <1>7, <1>10
  <2> QED  BY <1>0, <1>1, <1>6, <1>8, <1>9, <1>10, <1>12, <2>1, <2>2, <2>3, VersionServes
<1> QED  BY <1>1, <1>8, <1>13, WorkersStay

LEMMA CancelBuildServes ==
  ASSUME Held, Inv', Sound' => Sound, faults' \in Nat, CancelBuild
  PROVE  Served' /\ Working'
<1>0. Typed /\ Inv /\ Served /\ Working /\ Recorded /\ Placed /\ Ready /\ space \in Pointers
  BY DEF Held, Inv, Served, Typed
<1> DEFINE b == space.build
           g == builds[b].gen
<1>1. /\ UNCHANGED <<docs, snaps>> /\ UNCHANGED process /\ b # 0
      /\ items' = Cancelled(b) /\ gens' = [gens EXCEPT ![g].status = "retired"]
      /\ space' = [space EXCEPT !.build = 0]
      /\ builds' = [builds EXCEPT ![b].status = "cancelled"]
  BY DEF CancelBuild
<1>2. \A a \in DOMAIN builds' : IsManifest(builds'[a].docs)
  <2>1. b \in DOMAIN builds  BY <1>0, <1>1, BuildThere
  <2> HIDE DEF b
  <2> QED  BY <1>0, <1>1, <2>1, BuildStatus DEF Recorded
<1>3. DOMAIN gens' = DOMAIN gens /\ \A h \in DOMAIN gens : gens'[h].spec = gens[h].spec
  <2>1. \A h \in DOMAIN gens : gens[h] \in Generation  BY <1>0 DEF Typed
  <2> HIDE DEF g
  <2> QED  BY <1>1, <2>1 DEF Generation
<1>4. space'.build = 0 /\ space'.gen = space.gen /\ space'.version = space.version
  BY <1>0, <1>1 DEF Pointers
<1>5. DOMAIN items' = Ids /\ \A j \in Ids : OnlyJob(items[j], items'[j])
  <2>1. \A j \in Ids : items[j] \in Item  BY <1>0 DEF Typed
  <2> HIDE DEF b
  <2> QED  BY <1>1, <2>1 DEF Cancelled, Item, OnlyJob, SameVersion
<1>6. Recorded' /\ Placed'
  BY <1>0, <1>1, <1>2, <1>3, <1>4, <1>5 DEF Recorded, Placed, OnlyJob, SameVersion
<1>7. Prepared'  BY <1>4 DEF Prepared
<1>8. ASSUME Sound', NEW j \in Ids PROVE ReadsSame(items[j], items'[j])
  BY <1>0, <1>5, <1>8, OnlyJobReads DEF Ready
<1>9. Ready'  BY <1>0, <1>3, <1>5, <1>8 DEF Ready, Placed, ReadsSame, SameVersion
<1>10. ASSUME Sound', NEW i, NEW d, NEW h, Searchable(i, d, h)
       PROVE  Searchable(i, d, h)' /\ items'[i].made = items[i].made /\ h \in DOMAIN gens
  BY <1>0, <1>5, <1>8, <1>10 DEF Searchable, Alive, ReadsSame, SameVersion, Placed
<1>11. PublishedIsComplete'
  <2>1. SUFFICES ASSUME Sound', NEW d \in Active(Manifest), docs[d].current # 0
                 PROVE  /\ Searchable(docs[d].current, d, space.gen)'
                        /\ items'[docs[d].current].made = gens'[space.gen].spec
    BY <1>1, <1>4 DEF PublishedIsComplete, Active, Manifest, Present
  <2>2. Searchable(docs[d].current, d, space.gen) /\ items[docs[d].current].made = gens[space.gen].spec
    BY <1>0, <2>1 DEF Served, PublishedIsComplete
  <2> QED  BY <1>1, <1>3, <1>4, <1>10, <2>1, <2>2 DEF Searchable, Alive
<1>12. SavedStaysReadable'
  BY <1>0, <1>1, <1>10 DEF Served, SavedStaysReadable, Active
<1>13. ActiveVersionIsLive'
  BY <1>0, <1>1, <1>4 DEF Served, ActiveVersionIsLive, Present
<1>14. Working'
  <2>1. UNCHANGED <<spec, pc, target, upload, stale>>  BY <1>1 DEF process
  <2> QED  BY <1>0, <1>3, <1>5, <2>1, WorkingStays DEF OnlyJob, Working
<1> QED  BY <1>6, <1>7, <1>9, <1>11, <1>12, <1>13, <1>14 DEF Served

-----------------------------------------------------------------------------
LEMMA StepHeld == Held /\ [Next]_vars => Held'
<1> SUFFICES ASSUME Held, [Next]_vars PROVE Held'  OBVIOUS
<1>1. Inv' /\ Inv /\ Served /\ Working /\ Typed  BY StepInv DEF Held, Inv
<1>2. faults' \in Nat /\ (Sound' => Sound)  BY <1>1, FaultsStay DEF Working
<1> SUFFICES Served' /\ Working'  BY <1>1 DEF Held
<1>3. ASSUME NEW d \in scenario.docs, NEW c \in scenario.contents, NEW direct \in BOOLEAN,
             Upload(d, c, direct)
      PROVE  Served' /\ Working'
  <2>1. d \in Docs /\ c \in Contents  BY <1>1, ScenarioFacts
  <2> QED  BY <1>1, <1>2, <1>3, <2>1, UploadServes
<1>4. CASE WorkerStep  BY <1>1, <1>2, <1>4, WorkerServes
<1>5. CASE Process("route")  BY <1>1, <1>2, <1>5, ProcessServes DEF Procs
<1>6. CASE AddJob  BY <1>1, <1>2, <1>6, AddJobServes
<1>7. CASE \/ \E i \in Ids : ReadForRetry(i) \/ CancelJob(i)
           \/ \E d \in scenario.docs : ReadForArchive(d)
           \/ \E update \in stale : Retry(update)
  BY <1>1, <1>2, <1>7, UpdatesServe
<1>8. CASE (\E d \in scenario.docs : Purge(d)) \/ \E update \in stale : Archive(update)
  BY <1>1, <1>2, <1>8, PurgeServes, ArchiveServes
<1>9. CASE SaveVersion \/ \E v \in DOMAIN snaps : DeleteVersion(v) \/ ActivateVersion(v)
  BY <1>1, <1>2, <1>9, SaveServes, DeleteServes, ActivateServes
<1>10. CASE \E order \in Orders(Active(Manifest)) : StartBuild(order)
  BY <1>1, <1>2, <1>10, StartServes
<1>11. CASE PublishBuild \/ CancelBuild
  BY <1>1, <1>2, <1>11, PublishServes, CancelBuildServes
<1>12. CASE Life  BY <1>1, <1>2, <1>12, LifeServes
<1>14. CASE \E p \in Procs : QueryFails(p)  BY <1>1, <1>2, <1>14, FailuresServe
<1>13. CASE UNCHANGED vars
  <2>1. UNCHANGED <<docs, items, gens, snaps, builds, space>> /\ UNCHANGED process
    BY <1>13 DEF vars, tables
  <2>2. \A j \in Ids : OnlyJob(items[j], items'[j])  BY <2>1 DEF OnlyJob, SameVersion
  <2>3. Served'  BY <1>1, <1>2, <2>1, <2>2, OnlyJobsServed
  <2> QED  BY <1>2, <2>1, <2>3, WorkersStay
<1> QED
  BY <1>3, <1>4, <1>5, <1>6, <1>7, <1>8, <1>9, <1>10, <1>11, <1>12, <1>13, <1>14
      DEF Next, Command

(* A search of the live space never meets an active document whose current  *)
(* version is not ready, not indexed in the active generation, or whose     *)
(* vectors were made with another specification, whatever uploads, retries, *)
(* archivings, purges, builds and restarts are interleaved, as long as no   *)
(* commit is reported as failed and no job is processed by two at a time    *)
(* (complete_ingestion_job, activate_space_version, publish_space_build).   *)
THEOREM PublishedStaysComplete == Spec => []PublishedIsComplete
<1>1. Held => PublishedIsComplete  BY DEF Held, Served
<1> QED  BY InitHeld, StepHeld, <1>1, PTL DEF Spec

(* A saved version can be read for as long as its documents are not purged: *)
(* later uploads, failures, builds and cancelled builds leave the versions  *)
(* it names and their chunks in place (save_space_version,                  *)
(* activate_space_version, update_version).                                 *)
THEOREM SavedVersionsStayReadable == Spec => []SavedStaysReadable
<1>1. Held => SavedStaysReadable  BY DEF Held, Served
<1> QED  BY InitHeld, StepHeld, <1>1, PTL DEF Spec

(* The active saved version says what is live; whatever changes a document  *)
(* clears it in the same transaction, faults or not                         *)
(* (_clear_active_space_version).                                           *)
THEOREM ActiveVersionStaysLive == Spec => []ActiveVersionIsLive
<1>1. Held => ActiveVersionIsLive  BY DEF Held, Served
<1> QED  BY InitHeld, StepHeld, <1>1, PTL DEF Spec

(* While a build is open only its publication touches what is live.         *)
LEMMA OnlyPublication ==
  ASSUME Held, Next, space.build # 0
  PROVE  PublishBuild \/ UNCHANGED <<docs, space.gen, space.version>>
<1>0. space \in Pointers  BY DEF Held, Inv, Typed
<1>1. ASSUME NEW p, Process(p) PROVE UNCHANGED <<docs, space>>
  BY <1>1 DEF Process, Begin, Check, Index, Raise, CompleteJob, MayComplete, Published, Open,
       FailVersion, FailJob, Untouched
<1>2. CASE WorkerStep  BY <1>1, <1>2 DEF WorkerStep, Claim, Requeue, Untouched
<1>3. CASE AddJob \/ Life
  BY <1>3 DEF AddJob, Life, Stop, Restart, Kill, Fresh, Untouched, tables
<1>4. CASE Command
  <2>1. CASE CancelBuild  BY <1>0, <2>1 DEF CancelBuild, Pointers
  <2> QED
    BY <1>4, <2>1 DEF Command, Upload, ReadForRetry, CancelJob, ReadForArchive, Purge, Retry,
         Archive, SaveVersion, DeleteVersion, ActivateVersion, Activatable, StartBuild, Buildable,
         Idle, Untouched, tables
<1>5. CASE \E p \in Procs : QueryFails(p)  BY <1>5 DEF QueryFails, Untouched
<1> QED  BY <1>1, <1>2, <1>3, <1>4, <1>5 DEF Next

(* While a build is open no upload, archiving, restart or job changes the   *)
(* documents, the generation or the version that readers see; all are       *)
(* replaced in one step, by a build whose every active document is ready    *)
(* and indexed in the new generation (publish_space_build).                 *)
THEOREM OldSpaceStays == Spec => OldSpaceUntilPublished
<1> DEFINE Switch ==
      space.build # 0 /\ <<docs, space.gen, space.version>>' # <<docs, space.gen, space.version>> =>
        /\ space'.build = 0 /\ builds'[space.build].status = "published"
        /\ space'.gen = builds[space.build].gen
        /\ Complete(builds[space.build].docs, space'.gen)
<1>1. Held /\ [Next]_vars => [Switch]_vars
  <2> SUFFICES ASSUME Held, Next, space.build # 0,
                      <<docs, space.gen, space.version>>' # <<docs, space.gen, space.version>>
               PROVE  /\ space'.build = 0 /\ builds'[space.build].status = "published"
                      /\ space'.gen = builds[space.build].gen
                      /\ Complete(builds[space.build].docs, space'.gen)
    OBVIOUS
  <2>1. PublishBuild  BY OnlyPublication
  <2>2. Inv /\ Typed /\ Prepared  BY DEF Held, Inv, Served
  <2>3. space'.build = 0 /\ space'.gen = builds[space.build].gen /\ Done(space.build)
    BY <2>1 DEF PublishBuild
  <2>4. builds'[space.build].status = "published"
    <3>1. space.build \in DOMAIN builds  BY <2>2, BuildThere
    <3>2. builds' = [builds EXCEPT ![space.build].status = "published"]  BY <2>1 DEF PublishBuild
    <3> QED  BY <2>2, <3>1, <3>2, BuildStatus
  <2>5. Complete(builds[space.build].docs, builds[space.build].gen)  BY <2>2, <2>3, DoneIsComplete
  <2> QED  BY <2>3, <2>4, <2>5
<1> QED  BY InitHeld, StepHeld, <1>1, PTL DEF Spec, OldSpaceUntilPublished
=============================================================================
