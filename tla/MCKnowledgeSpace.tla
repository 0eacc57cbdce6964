--------------------------- MODULE MCKnowledgeSpace ---------------------------
(* Instances of KnowledgeSpace for TLC.                                     *)
EXTENDS KnowledgeSpace, TLC

CONSTANTS d1, d2, c1, c2, s1, s2

(* No definition tells two documents, contents or specifications apart, and *)
(* the scenarios below do not either.                                       *)
Symmetry == Permutations(Docs) \cup Permutations(Contents) \cup Permutations(Specs)

Scenario(cmds, D, C, S, items_, snaps_, gens_, stops_, retries_, faults_, outages_) ==
  [commands |-> cmds, docs |-> D, contents |-> C, specs |-> S, items |-> items_,
   snaps |-> snaps_, gens |-> gens_, stops |-> stops_, retries |-> retries_, faults |-> faults_,
   outages |-> outages_]

(* Everything that can go wrong inside a job; a worker that is lost; builds *)
(* of a space of two documents; restarts with another configuration.        *)
Faulty(d, c, s) ==
  Scenario({"upload", "ingest", "retry", "cancel", "purge", "save", "build"},
           {d}, {c}, {s}, 2, 2, 2, 1, 1, 1, FALSE)
Outage(d, c, s) ==
  Scenario({"upload", "ingest", "retry", "purge", "save", "build"}, {d}, {c}, {s}, 2, 2, 2, 1, 1, 0, TRUE)
Rebuilt(c, s) ==
  Scenario({"upload", "save", "build", "retry", "delete"}, Docs, {c}, {s}, 4, 2, 2, 0, 1, 0, FALSE)
Restarted(d) ==
  Scenario({"upload", "save", "build", "activate", "archive"}, {d}, Contents, Specs, 3, 2, 2, 1, 0, 0, FALSE)
SafetyScenarios ==
  {Faulty(d, c, s) : d \in Docs, c \in Contents, s \in Specs}
    \cup {Outage(d, c, s) : d \in Docs, c \in Contents, s \in Specs}
    \cup {Rebuilt(c, s) : c \in Contents, s \in Specs} \cup {Restarted(d) : d \in Docs}

LiveScenarios ==
  {Scenario({"upload", "save", "build", "retry", "archive"}, {d1}, {c1}, {s1}, 3, 2, 2, 1, 1, 0, TRUE)}
StoppedScenarios == {Scenario({"upload"}, {d1}, {c1}, {s1}, 1, 0, 1, 1, 0, 0, FALSE)}
TwiceScenarios == {Scenario({"upload", "ingest"}, {d1}, {c1}, {s1}, 1, 0, 1, 0, 0, 0, FALSE)}
=============================================================================
