---------------------------- MODULE KnowledgeSpace ----------------------------
(***************************************************************************)
(* ONE knowledge space (knowledge/): documents and their versions, index   *)
(* generations, ingestion jobs, staged builds of the whole space, and the  *)
(* saved versions of it that readers can pin.  Every transaction of        *)
(* PostgresKnowledgeRepository locks the row of the space first, hence is  *)
(* one step; KnowledgePlatform strings several of them together and reads  *)
(* in between, so its uploads, retries, archivings and the processing of a *)
(* job are sequences of steps.  What the platform checks before a          *)
(* transaction that checks it again under the lock is not repeated.        *)
(***************************************************************************)
EXTENDS Integers, Sequences, FiniteSets

CONSTANTS
  Docs,       \* documents (one per source_id)
  Contents,   \* content hashes
  Specs,      \* build specifications (IndexBuildSpec.request_hash)
  MaxItems,   \* bound: document versions
  Scenarios   \* what may happen to the space, and the other bounds

AllCommands == {"upload", "ingest", "retry", "cancel", "archive", "purge",
                "save", "delete", "activate", "build"}

(* commands: the commands of the users; on documents, contents and          *)
(* specifications; up to so many document versions (items), saved versions  *)
(* (snaps), index generations (gens), shutdowns and kills (stops), retries  *)
(* of failed jobs, and commits that are reported as failed (faults); and    *)
(* whether queries outside the try block of process_job may fail (outages). *)
ASSUME SpaceAssumption ==
  /\ MaxItems \in Nat /\ IsFiniteSet(Docs)
  /\ Scenarios \subseteq
       [commands : SUBSET AllCommands, docs : SUBSET Docs, contents : SUBSET Contents,
        specs : SUBSET Specs, items : 0..MaxItems, snaps : Nat, gens : Nat, stops : Nat,
        retries : Nat, faults : Nat, outages : BOOLEAN]

VARIABLES
  docs,       \* documents: status and current_version_id (0: None)
  items,      \* document versions, each with its ingestion job and its chunks
  gens,       \* index generations
  snaps,      \* saved versions of the space
  builds,     \* staged builds of the space
  space,      \* active_generation_id, active_version_id, active_build_id
  spec,       \* current_build_spec() of the process
  pc, target, \* who processes jobs: where it is, and which job it has
  upload,     \* submit() in progress
  stale,      \* updates that were prepared from a row read earlier
  scenario, stops, retries, faults

tables == <<docs, items, gens, snaps, builds, space>>
process == <<spec, pc, target, upload, stale>>
bounds == <<scenario, stops, retries, faults>>
vars == <<tables, process, bounds>>

Ids == DOMAIN items
DocumentStatus == {"active", "archived"}
JobStatus == {"none", "queued", "running", "failed", "completed", "cancelled"}
IsManifest(m) ==
  DOMAIN m \subseteq Docs /\ m \in [DOMAIN m -> [status : DocumentStatus, current : Nat]]

(* The loop of the knowledge worker, and the handler of POST /documents.    *)
Procs == {"worker", "route"}
InTry == {"check", "index", "complete"}

TypeOK ==
  /\ docs \in [Docs -> [status : DocumentStatus \cup {"absent", "purged"}, current : Nat]]
  /\ items \in Seq([doc : Docs, content : Contents, spec : Specs, gen : Nat, build : Nat,
                    version : {"pending", "ready", "failed"}, job : JobStatus,
                    indexed : BOOLEAN, made : Specs, removed : BOOLEAN])
  /\ gens \in Seq([spec : Specs, status : {"building", "active", "retired"}])
  /\ \A v \in DOMAIN snaps : IsManifest(snaps[v].docs) /\ snaps[v].gen \in Nat
  /\ \A b \in DOMAIN builds : /\ IsManifest(builds[b].docs)
                              /\ builds[b].status \in {"open", "published", "cancelled"}
  /\ space \in [gen : Nat, version : Nat, build : Nat]
  /\ spec \in Specs
  /\ pc \in [Procs -> InTry \cup {"idle", "begin", "fail", "failjob", "requeue", "stopped", "dead", "lost"}]
  /\ target \in [Procs -> Nat]

NoUpload == [id |-> 0, direct |-> FALSE]

Init ==
  /\ docs = [d \in Docs |-> [status |-> "absent", current |-> 0]]
  /\ items = << >> /\ gens = << >> /\ snaps = << >> /\ builds = << >>
  /\ space = [gen |-> 0, version |-> 0, build |-> 0]
  /\ scenario \in Scenarios /\ spec \in scenario.specs
  /\ pc = [p \in Procs |-> "idle"] /\ target = [p \in Procs |-> 0]
  /\ upload = NoUpload /\ stale = {}
  /\ stops = 0 /\ retries = 0 /\ faults = 0

-----------------------------------------------------------------------------
(* What the transactions look at.                                           *)

(* The version exists; the job exists.  A purge deletes both; a job can be  *)
(* created for a version that was purged in between.                        *)
Alive(i) == i \in Ids /\ ~items[i].removed
HasJob(i) == i \in Ids /\ items[i].job # "none"

(* ensure_job_allowed, and the check of claim_job.                          *)
Open(i) == items[i].build = space.build

Jobs(status) == {i \in Ids : items[i].job = status}

(* ensure_no_build, and no job in BUSY_JOB_STATUSES.                        *)
Idle == space.build = 0 /\ Jobs("queued") \cup Jobs("running") = {}

Present == {d \in Docs : docs[d].status \in DocumentStatus}
Manifest == [d \in Present |-> docs[d]]
Active(m) == {d \in DOMAIN m : m[d].status = "active"}

(* A ready version of the document with a complete child index.             *)
Searchable(i, d, g) ==
  /\ Alive(i) /\ items[i].doc = d /\ items[i].gen = g
  /\ items[i].version = "ready" /\ items[i].indexed

(* mutant: documents without a version are passed over.                     *)
CompleteOrNone(m, g) == \A d \in Active(m) : m[d].current = 0 \/ Searchable(m[d].current, d, g)
Complete(m, g) == \A d \in Active(m) : Searchable(m[d].current, d, g)

(* _clear_active_space_version.                                             *)
ClearedVersion == [space EXCEPT !.version = 0]

(* mutant: the generation that was active is not retired.                   *)
SwitchedOn(g) == [gens EXCEPT ![g].status = "active"]
(* _switch_generation.                                                      *)
Switched(g) ==
  [h \in DOMAIN gens |->
     CASE h = g -> [gens[h] EXCEPT !.status = "active"]
       [] h # g /\ gens[h].status = "active" -> [gens[h] EXCEPT !.status = "retired"]
       [] OTHER -> gens[h]]

(* update_job, for the statuses its callers write.                          *)
MayUpdateAny(i) == HasJob(i)   \* mutant: the caller's copy is written whatever the row says
MayUpdate(i) == HasJob(i) /\ Open(i) /\ items[i].job \notin {"completed", "cancelled"}

(* No request is served during a shutdown.                                  *)
Up == pc["worker"] \notin {"requeue", "stopped"}

Job(i, status) == [items EXCEPT ![i].job = status]

-----------------------------------------------------------------------------
(* submit: the version, then its job.                                       *)

NewItem(d, c, s, g, b, v, j) ==
  [doc |-> d, content |-> c, spec |-> s, gen |-> g, build |-> b, version |-> v, job |-> j,
   indexed |-> FALSE, made |-> s, removed |-> FALSE]

(* The version that already holds this content, or the one a job is making. *)
Reusable(i, d, c) ==
  /\ Alive(i) /\ items[i].doc = d /\ items[i].content = c /\ items[i].spec = spec
  /\ \/ i = docs[d].current /\ items[i].version = "ready"
     \/ items[i].version = "pending" /\ items[i].job \in {"queued", "running"}

(* POST /documents goes on to process the job it was given.                 *)
Answer(i, direct) ==
  IF direct
  THEN pc' = [pc EXCEPT !["route"] = "begin"] /\ target' = [target EXCEPT !["route"] = i]
  ELSE UNCHANGED <<pc, target>>

(* bind_ingestion_generation: the first upload of a space starts its first  *)
(* generation.                                                              *)
IngestionGeneration == IF space.gen = 0 THEN Len(gens) + 1 ELSE space.gen

(* create_document clears the active version.                               *)
Upload(d, c, direct) ==
  LET first == space.gen = 0
      g == IngestionGeneration
      blocked == ~first /\ gens[g].spec # spec IN
  /\ Up /\ upload = NoUpload /\ "upload" \in scenario.commands
  /\ direct => "ingest" \in scenario.commands /\ pc["route"] = "idle"
  /\ space.build = 0 /\ docs[d].status # "purged"
  /\ g <= scenario.gens
  /\ gens' = IF first THEN Append(gens, [spec |-> spec, status |-> "active"]) ELSE gens
  /\ docs' = [docs EXCEPT ![d].status = IF @ = "absent" THEN "active" ELSE @]
  /\ space' = IF first \/ d \notin Present THEN [ClearedVersion EXCEPT !.gen = g] ELSE space
  /\ \/ \E i \in Ids : /\ Reusable(i, d, c) /\ ~blocked
                       /\ Answer(i, direct) /\ UNCHANGED <<items, upload>>
     \/ /\ blocked \/ \A i \in Ids : ~Reusable(i, d, c)
        /\ Len(items) < scenario.items
        /\ items' = Append(items, NewItem(d, c, spec, g, 0,
                                          IF blocked THEN "failed" ELSE "pending", "none"))
        /\ upload' = [id |-> Len(items) + 1, direct |-> direct]
        /\ UNCHANGED <<pc, target>>
  /\ UNCHANGED <<snaps, builds, spec, stale, bounds>>

(* create_job: without it the version stays behind.                         *)
AddJob ==
  LET i == upload.id IN
  /\ upload # NoUpload /\ upload' = NoUpload
  /\ \/ /\ Open(i) /\ items[i].version = "failed"
        /\ items' = Job(i, "failed") /\ Answer(i, upload.direct)
     \/ /\ Open(i) /\ items[i].version = "pending" /\ space.gen = items[i].gen
        /\ items' = Job(i, "queued") /\ Answer(i, upload.direct)
     \/ /\ ~Open(i) \/ (items[i].version = "pending" /\ space.gen # items[i].gen)
        /\ UNCHANGED <<items, pc, target>>
  /\ UNCHANGED <<docs, gens, snaps, builds, space, spec, stale, bounds>>

-----------------------------------------------------------------------------
(* Processing a job.                                                        *)

Go(p, label) ==
  /\ pc' = [pc EXCEPT ![p] = label]
  /\ target' = [target EXCEPT ![p] = IF label \in {"idle", "stopped", "dead", "lost"} THEN 0 ELSE @]

(* An exception outside the try block ends the worker loop; the route       *)
(* answers with an error.                                                   *)
Escape(p) == Go(p, IF p = "worker" THEN "dead" ELSE "idle")

(* claim_job takes the oldest queued job, and gives up when it is not open. *)
Claimable(i) == i \in Jobs("queued") /\ Open(i) /\ \A j \in Jobs("queued") : i <= j

Claim ==
  /\ pc["worker"] = "idle"
  /\ \E i \in Ids : /\ Claimable(i)
                   /\ items' = Job(i, "running")
                   /\ target' = [target EXCEPT !["worker"] = i]
  /\ pc' = [pc EXCEPT !["worker"] = "begin"]
  /\ UNCHANGED <<docs, gens, snaps, builds, space, spec, upload, stale, bounds>>

Untouched == UNCHANGED <<docs, gens, snaps, builds, space, spec, upload, stale>>

(* process_job, before its try block.                                       *)
Begin(p) ==
  LET i == target[p] IN
  /\ pc[p] = "begin"
  /\ CASE items[i].job = "completed" -> Go(p, "idle") /\ UNCHANGED items
       [] MayUpdate(i) -> items' = Job(i, "running") /\ Go(p, "check")
       [] OTHER -> Escape(p) /\ UNCHANGED items
  /\ Untouched /\ UNCHANGED bounds

(* The stages save the job as the processor knows it: running.              *)
(* mutant: the identities are not compared.                                 *)
Unbound(i) == TRUE
Bound(i) == items[i].spec = gens[items[i].gen].spec /\ items[i].spec = spec

(* confirm_generation_spec, by which the dimension becomes known.           *)
Confirmable(i) == gens[items[i].gen].status # "retired"

(* The stages up to the embeddings write nothing but the job.               *)
Check(p) ==
  LET i == target[p]
      ok == /\ MayUpdate(i) /\ Alive(i) /\ Bound(i)
            /\ docs[items[i].doc].status \in DocumentStatus
            /\ Confirmable(i)
            /\ items[i].build = 0 => space.gen = items[i].gen IN
  /\ pc[p] = "check"
  /\ \/ ok /\ items' = Job(i, "running") /\ Go(p, "index")
     \/ ~ok /\ UNCHANGED items /\ Go(p, "fail")
  /\ Untouched /\ UNCHANGED bounds

(* replace_chunks, and the stage after it, which may be refused or fail.    *)
(* The vectors are made with the configuration of the process.              *)
Index(p) ==
  LET i == target[p] IN
  /\ pc[p] = "index"
  /\ \/ /\ MayUpdate(i) /\ Go(p, "complete")
        /\ items' = [items EXCEPT ![i].indexed = TRUE, ![i].made = spec, ![i].job = "running"]
     \/ /\ Go(p, "fail")
        /\ items' = [items EXCEPT ![i].indexed = TRUE, ![i].made = spec]
  /\ Untouched /\ UNCHANGED bounds

(* A document that cannot be parsed or embedded, or a query that failed.    *)
Raise(p) ==
  /\ pc[p] \in InTry /\ Go(p, "fail")
  /\ UNCHANGED items /\ Untouched /\ UNCHANGED bounds

(* mutant: the document of a build's job is switched at once, too.          *)
PublishedAtOnce(i) ==
  /\ items' = [items EXCEPT ![i].version = "ready", ![i].job = "completed"]
  /\ docs' = [docs EXCEPT ![items[i].doc] = [status |-> "active", current |-> i]]
  /\ space' = ClearedVersion
(* complete_ingestion_job.  The commit may be reported as failed.           *)
Published(i) ==
  /\ items' = [items EXCEPT ![i].version = "ready", ![i].job = "completed"]
  /\ IF items[i].build = 0
     THEN /\ docs' = [docs EXCEPT ![items[i].doc] = [status |-> "active", current |-> i]]
          /\ space' = ClearedVersion
     ELSE UNCHANGED <<docs, space>>

MayComplete(i) ==
  /\ Alive(i) /\ items[i].job = "running" /\ Open(i)
  /\ items[i].build = 0 => space.gen = items[i].gen

CompleteJob(p) ==
  LET i == target[p] IN
  /\ pc[p] = "complete"
  /\ \/ /\ items[i].job = "completed"
        /\ Go(p, "idle") /\ UNCHANGED <<items, docs, space, bounds>>
     \/ MayComplete(i) /\ Published(i) /\ Go(p, "idle") /\ UNCHANGED bounds
     \/ /\ MayComplete(i) /\ Published(i) /\ Go(p, "fail")
        /\ faults < scenario.faults /\ faults' = faults + 1 /\ UNCHANGED <<scenario, stops, retries>>
     \/ /\ ~MayComplete(i) /\ items[i].job # "completed"
        /\ Go(p, "fail") /\ UNCHANGED <<items, docs, space, bounds>>
  /\ UNCHANGED <<gens, snaps, builds, spec, upload, stale>>

(* The exception handler of process_job: the version, then the job.         *)
FailedVersion(i) == IF Alive(i) THEN [items EXCEPT ![i].version = "failed"] ELSE items

FailVersion(p) ==
  /\ pc[p] = "fail" /\ Go(p, "failjob")
  /\ items' = FailedVersion(target[p])
  /\ Untouched /\ UNCHANGED bounds

FailJob(p) ==
  LET i == target[p] IN
  /\ pc[p] = "failjob"
  /\ IF MayUpdate(i) THEN items' = Job(i, "failed") /\ Go(p, "idle")
                     ELSE UNCHANGED items /\ Escape(p)
  /\ Untouched /\ UNCHANGED bounds

(* Neither the loop nor the exception handler catches an error of its own   *)
(* queries, whose last write may be committed all the same: the worker is   *)
(* lost until the process is started again, the route answers with an error. *)
Unreported(p) ==
  LET i == target[p] IN
  CASE pc[p] = "idle"    -> {Job(j, "running") : j \in {k \in Ids : Claimable(k)}}
    [] pc[p] = "begin"   -> {Job(j, "running") : j \in {i} \cap {k \in Ids : MayUpdate(k)}}
    [] pc[p] = "fail"    -> {FailedVersion(i)}
    [] pc[p] = "failjob" -> {Job(j, "failed") : j \in {i} \cap {k \in Ids : MayUpdate(k)}}
    [] OTHER             -> {}

QueryFails(p) ==
  /\ scenario.outages
  /\ pc[p] \in {"begin", "fail", "failjob"} \/ (p = "worker" /\ pc[p] = "idle")
  /\ items' \in Unreported(p) \cup {items}
  /\ Go(p, IF p = "worker" THEN "lost" ELSE "idle")
  /\ Untouched /\ UNCHANGED bounds

(* retry_job and archive_document write what they read before.  Bound: one  *)
(* such update at a time, and one submit.                                   *)
Kept(update) == stale' = stale \ {update}

ReadForRetry(i) ==
  /\ Up /\ stale = {} /\ "retry" \in scenario.commands
  /\ i \in Jobs("failed") /\ Bound(i) /\ Open(i)
  /\ retries < scenario.retries /\ retries' = retries + 1 /\ UNCHANGED <<scenario, stops, faults>>
  /\ stale' = {[op |-> "retry", id |-> i]}
  /\ UNCHANGED <<tables, spec, pc, target, upload>>

Retry(update) ==
  /\ Up /\ update.op = "retry" /\ Kept(update)
  /\ items' = IF MayUpdate(update.id) THEN Job(update.id, "queued") ELSE items
  /\ UNCHANGED <<docs, gens, snaps, builds, space, spec, pc, target, upload, bounds>>

ReadForArchive(d) ==
  /\ Up /\ stale = {} /\ "archive" \in scenario.commands
  /\ d \in Present /\ space.build = 0
  /\ stale' = {[op |-> "archive", id |-> d, current |-> docs[d].current]}
  /\ UNCHANGED <<tables, spec, pc, target, upload, bounds>>

Archive(update) ==
  /\ Up /\ update.op = "archive" /\ Kept(update)
  /\ IF space.build = 0
     THEN /\ docs' = IF docs[update.id].status \in DocumentStatus
                     THEN [docs EXCEPT ![update.id] = [status |-> "archived", current |-> update.current]]
                     ELSE docs
          /\ space' = ClearedVersion
     ELSE UNCHANGED <<docs, space>>
  /\ UNCHANGED <<items, gens, snaps, builds, spec, pc, target, upload, bounds>>

CancelJob(i) ==
  /\ Up /\ "cancel" \in scenario.commands
  /\ items[i].build = 0 /\ items[i].job \in {"queued", "failed"}
  /\ items' = Job(i, "cancelled")
  /\ Untouched /\ UNCHANGED <<pc, target, bounds>>

Purged(d) == [i \in Ids |-> IF items[i].doc = d
                            THEN [items[i] EXCEPT !.removed = TRUE, !.job = "none"] ELSE items[i]]

Purge(d) ==
  /\ Up /\ "purge" \in scenario.commands /\ d \in Present /\ space.build = 0
  /\ docs' = [docs EXCEPT ![d] = [status |-> "purged", current |-> 0]]
  /\ items' = Purged(d)
  /\ space' = ClearedVersion
  /\ UNCHANGED <<gens, snaps, builds, process, bounds>>

-----------------------------------------------------------------------------
(* Saved versions of the space.                                             *)

SaveVersion ==
  /\ Up /\ "save" \in scenario.commands /\ Idle /\ Len(snaps) < scenario.snaps
  /\ Complete(Manifest, space.gen)
  /\ snaps' = Append(snaps, [gen |-> space.gen, docs |-> Manifest, deleted |-> FALSE])
  /\ space' = [space EXCEPT !.version = Len(snaps) + 1]
  /\ UNCHANGED <<docs, items, gens, builds, process, bounds>>

DeleteVersion(v) ==
  /\ Up /\ "delete" \in scenario.commands /\ Idle /\ ~snaps[v].deleted /\ space.version # v
  /\ snaps' = [snaps EXCEPT ![v].deleted = TRUE]
  /\ UNCHANGED <<docs, items, gens, builds, space, process, bounds>>

(* mutant: documents that the version does not know stay.                   *)
OnlyKnown(m) == [d \in Docs |-> IF d \in DOMAIN m THEN m[d] ELSE docs[d]]
(* Documents that the version does not know are archived.                   *)
Restored(m) ==
  [d \in Docs |-> CASE d \in DOMAIN m -> m[d]
                    [] d \in Present \ DOMAIN m -> [docs[d] EXCEPT !.status = "archived"]
                    [] OTHER -> docs[d]]

(* What activate_space_version asks of a saved version, of the platform and *)
(* of the repository.                                                       *)
Activatable(v) ==
  /\ Idle /\ ~snaps[v].deleted /\ space.version # v
  /\ DOMAIN snaps[v].docs \subseteq Present
  /\ Complete(snaps[v].docs, snaps[v].gen)

ActivateVersion(v) ==
  /\ Up /\ "activate" \in scenario.commands /\ Activatable(v)
  /\ docs' = Restored(snaps[v].docs)
  /\ gens' = Switched(snaps[v].gen)
  /\ space' = [space EXCEPT !.gen = snaps[v].gen, !.version = v]
  /\ UNCHANGED <<items, snaps, builds, process, bounds>>

-----------------------------------------------------------------------------
(* Staged builds of the whole space.  A space without an active saved       *)
(* version is saved first (SaveVersion).                                    *)

(* validate_build_baseline.                                                 *)
Baseline(v) ==
  /\ v \in DOMAIN snaps /\ space.version = v
  /\ space.gen = snaps[v].gen /\ Manifest = snaps[v].docs

Targets(b) == {i \in Ids : items[i].build = b}

Orders(A) ==
  {f \in [1..Cardinality(A) -> A] : \A d \in A : \E k \in DOMAIN f : f[k] = d}

(* What create_space_build asks of the space and of its documents.          *)
Buildable(A) ==
  /\ Idle /\ A # {} /\ Baseline(space.version)
  /\ \A d \in A : Alive(docs[d].current) /\ items[docs[d].current].version = "ready"

(* One new version and one job for each active document, in some order.     *)
StartBuild(order) ==
  LET A == Active(Manifest)
      n == Len(order)
      g == Len(gens) + 1
      b == Len(builds) + 1 IN
  /\ Up /\ "build" \in scenario.commands /\ Buildable(A)
  /\ Len(items) + n <= scenario.items /\ g <= scenario.gens
  /\ gens' = Append(gens, [spec |-> spec, status |-> "building"])
  /\ items' = items \o [k \in 1..n |->
       NewItem(order[k], items[docs[order[k]].current].content, spec, g, b, "pending", "queued")]
  /\ builds' = Append(builds,
       [base |-> space.version, gen |-> g, status |-> "open",
        docs |-> [d \in Present |->
                    IF d \in A
                    THEN [status |-> "active",
                          current |-> Len(items) + CHOOSE k \in 1..n : order[k] = d]
                    ELSE docs[d]]])
  /\ space' = [space EXCEPT !.build = b]
  /\ UNCHANGED <<docs, snaps, process, bounds>>

AnyDone(b) == \E i \in Targets(b) : items[i].job = "completed"   \* mutant: one is enough
Done(b) ==
  \A i \in Targets(b) : items[i].version = "ready" /\ items[i].job = "completed" /\ items[i].indexed

PublishBuild ==
  LET b == space.build IN
  /\ Up /\ b # 0 /\ Len(snaps) < scenario.snaps
  /\ Baseline(builds[b].base)
  /\ Done(b)
  /\ snaps' = Append(snaps, [gen |-> builds[b].gen, docs |-> builds[b].docs, deleted |-> FALSE])
  /\ docs' = [d \in Docs |-> IF d \in Present THEN builds[b].docs[d] ELSE docs[d]]
  /\ gens' = Switched(builds[b].gen)
  /\ space' = [gen |-> builds[b].gen, version |-> Len(snaps) + 1, build |-> 0]
  /\ builds' = [builds EXCEPT ![b].status = "published"]
  /\ UNCHANGED <<items, process, bounds>>

Cancelled(b) ==
  [i \in Ids |-> IF i \in Targets(b) /\ items[i].job # "completed"
                THEN [items[i] EXCEPT !.job = "cancelled"] ELSE items[i]]

AnyTime(b) == b # 0   \* mutant: running jobs are cancelled too
Quiet(b) == \A i \in Targets(b) : items[i].job # "running"

CancelBuild ==
  LET b == space.build IN
  /\ Up /\ b # 0
  /\ Quiet(b)
  /\ items' = Cancelled(b)
  /\ gens' = [gens EXCEPT ![builds[b].gen].status = "retired"]
  /\ space' = [space EXCEPT !.build = 0]
  /\ builds' = [builds EXCEPT ![b].status = "cancelled"]
  /\ UNCHANGED <<docs, snaps, process, bounds>>

-----------------------------------------------------------------------------
(* Shutdown cancels the worker: inside the try block the job is queued      *)
(* again, elsewhere nothing is done about it.                               *)
Stop ==
  /\ pc["worker"] \notin {"stopped", "dead", "lost", "requeue"}
  /\ stops < scenario.stops /\ stops' = stops + 1 /\ UNCHANGED <<scenario, retries, faults>>
  /\ Go("worker", IF pc["worker"] \in InTry THEN "requeue" ELSE "stopped")
  /\ UNCHANGED items /\ Untouched

Requeue ==
  LET i == target["worker"] IN
  /\ pc["worker"] = "requeue" /\ Go("worker", "stopped")
  /\ \/ MayUpdate(i) /\ items[i].job = "running" /\ items' = Job(i, "queued")
     \/ UNCHANGED items
  /\ Untouched /\ UNCHANGED bounds

(* A new process, with the configuration it is given.                       *)
Fresh(s) ==
  /\ spec' = s
  /\ pc' = [p \in Procs |-> "idle"] /\ target' = [p \in Procs |-> 0]
  /\ upload' = NoUpload /\ stale' = {}
  /\ UNCHANGED tables

Restart(s) == pc["worker"] = "stopped" /\ Fresh(s) /\ UNCHANGED bounds

Kill(s) ==
  /\ pc["worker"] # "stopped"
  /\ stops < scenario.stops /\ stops' = stops + 1 /\ UNCHANGED <<scenario, retries, faults>>
  /\ Fresh(s)

-----------------------------------------------------------------------------
Process(p) ==
  \/ Begin(p) \/ Check(p) \/ Index(p) \/ Raise(p) \/ CompleteJob(p)
  \/ FailVersion(p) \/ FailJob(p)

WorkerStep == Claim \/ Process("worker") \/ Requeue
Command ==
  \/ \E d \in scenario.docs, c \in scenario.contents, direct \in BOOLEAN : Upload(d, c, direct)
  \/ \E i \in Ids : ReadForRetry(i) \/ CancelJob(i)
  \/ \E d \in scenario.docs : ReadForArchive(d) \/ Purge(d)
  \/ \E update \in stale : Retry(update) \/ Archive(update)
  \/ SaveVersion \/ \E v \in DOMAIN snaps : DeleteVersion(v) \/ ActivateVersion(v)
  \/ \E order \in Orders(Active(Manifest)) : StartBuild(order)
  \/ PublishBuild \/ CancelBuild

Life == Stop \/ \E s \in scenario.specs : Restart(s) \/ Kill(s)

Next ==
  \/ WorkerStep \/ Process("route") \/ AddJob \/ Command \/ Life
  \/ \E p \in Procs : QueryFails(p)

(* The event loop resumes whoever can go on, requests and statements time   *)
(* out, and a process that was shut down is started again.  Nothing starts  *)
(* a worker that is dead or lost, no query has to fail, and users owe       *)
(* nothing.                                                                 *)
Fairness ==
  /\ WF_vars(WorkerStep) /\ WF_vars(Process("route")) /\ WF_vars(AddJob)
  /\ WF_vars(\E s \in scenario.specs : Restart(s))

Spec == Init /\ [][Next]_vars /\ Fairness

-----------------------------------------------------------------------------
(* Properties.                                                              *)

(* A completion whose commit is reported as failed is failed by the handler *)
(* although it is published, and so may be a job that is processed twice.   *)
Sound == faults = 0 /\ "ingest" \notin scenario.commands

(* What a search of the live space reads is complete: the current version   *)
(* of every active document is ready and indexed in the active generation,  *)
(* and its vectors were made with that generation's specification.          *)
PublishedIsComplete ==
  Sound => \A d \in Active(Manifest) : docs[d].current # 0 =>
    /\ Searchable(docs[d].current, d, space.gen)
    /\ items[docs[d].current].made = gens[space.gen].spec

(* The active saved version describes the live space; documents added since *)
(* are archived.                                                            *)
ActiveVersionIsLive ==
  space.version # 0 =>
    LET v == snaps[space.version] IN
    /\ ~v.deleted /\ v.gen = space.gen
    /\ \A d \in Present : IF d \in DOMAIN v.docs THEN docs[d] = v.docs[d]
                                                 ELSE docs[d].status = "archived"

(* A saved version stays readable, whatever happens to the space later, as  *)
(* long as its documents are not purged.                                    *)
SavedStaysReadable ==
  Sound => \A v \in DOMAIN snaps : \A d \in Active(snaps[v].docs) :
    docs[d].status # "purged" => Searchable(snaps[v].docs[d].current, d, snaps[v].gen)

(* While a build is open readers see the old space; it is replaced at once, *)
(* by a build all of whose documents are complete.                          *)
OldSpaceUntilPublished ==
  [][space.build # 0 /\ <<docs, space.gen, space.version>>' # <<docs, space.gen, space.version>> =>
       /\ space'.build = 0 /\ builds'[space.build].status = "published"
       /\ space'.gen = builds[space.build].gen
       /\ Complete(builds[space.build].docs, space'.gen)]_vars

(* The one active generation is the one the space points to, and the one    *)
(* being built is the open build's.                                         *)
GenerationsAgree ==
  /\ \A g \in DOMAIN gens : gens[g].status = "active" <=> g = space.gen
  /\ \A g \in DOMAIN gens :
       gens[g].status = "building" <=> space.build # 0 /\ g = builds[space.build].gen

(* A job that was completed or cancelled never runs again, whichever copy   *)
(* of it a processor or a retry still holds.                                *)
JobsEnd ==
  [][\A i \in Ids : items[i].job \in {"completed", "cancelled"} =>
       items'[i].job \in {items[i].job, "none"}]_vars

(* A queued job is taken up, however other jobs fail, are retried, archived *)
(* or cancelled: only an error of the database outside the try block keeps  *)
(* the worker from it, until the process is started again.                  *)
QueuedIsServed ==
  \A i \in 1..MaxItems :
    (i \in Jobs("queued")) ~> (i \notin Jobs("queued") \/ pc["worker"] = "lost")

(* Violated: a job is never processed twice at a time.                      *)
ProcessedOnce ==
  \A p, q \in Procs : p # q /\ pc[p] \in InTry /\ pc[q] \in InTry => target[p] # target[q]

(* Violated: a shutdown leaves the job it interrupts runnable.              *)
StoppedIsRunnable == pc["worker"] = "stopped" => Jobs("running") = {}
=============================================================================
