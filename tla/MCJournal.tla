------------------------------ MODULE MCJournal ------------------------------
(* An instance of Journal for TLC: two nodes of a parallel wave, with every *)
(* kind of call between them and a tool each.                               *)
EXTENDS Journal, TLC

CONSTANTS r1, r2, n1, n2, node1, decide1, tool1, http1, node2, llm2, tool2, x1

RequestSymmetry == Permutations(Requests)

WaveSlots == {node1, decide1, tool1, http1, node2, llm2, tool2}
WaveKind ==
  [s \in WaveSlots |-> CASE s \in {node1, node2} -> "node_result" [] s = llm2 -> "llm"
                          [] s = decide1 -> "tool_decision" [] s \in {tool1, tool2} -> "tool"
                          [] OTHER -> "http"]
WaveOf == [s \in WaveSlots |-> IF s \in {node1, decide1, tool1, http1} THEN n1 ELSE n2]
=============================================================================
