--------------------------- MODULE MCRunLifecycle ---------------------------
(* Instances of RunLifecycle for TLC.                                       *)
EXTENDS RunLifecycle

Scenario(kind, r, o, c, f, s) ==
  [auto |-> kind = "auto", revision |-> kind = "revision", replans |-> r,
   ops |-> o, crashes |-> c, faults |-> f, storeFaults |-> s]

(* A run with an approval: crashes of a process whose stores work, with a   *)
(* replan; stores that fail.  A run without one.  The revision of a report. *)
AllScenarios ==
  {Scenario("plan", 1, 4, 2, 0, 0), Scenario("plan", 0, 3, 1, 2, 1),
   Scenario("auto", 1, 3, 1, 0, 0), Scenario("revision", 0, 3, 1, 0, 0)}

(* SQLite fails once.                                                       *)
OneStoreFault == {Scenario("auto", 0, 1, 1, 0, 1)}
=============================================================================
