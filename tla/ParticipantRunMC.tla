-------------------------- MODULE ParticipantRunMC --------------------------
(* Instances of ParticipantRun for TLC. *)
EXTENDS ParticipantRun, TLC

CONSTANTS r1, r2

TwoThreads == {r1, r2}

(* Without main.py: runs and the tools of a task.                          *)
Tool(t, tool, cites) ==
  [NoRequest EXCEPT !.op = "tool", !.task = t, !.tool = tool, !.cites = cites]
Anything ==
  {[NoRequest EXCEPT !.op = "start"],
   [NoRequest EXCEPT !.op = "finalize", !.sub = 1],
   Tool(1, "search_knowledge", "none"), Tool(1, "escalate_to_tier2_soc", "POL")}

Lookups ==
  {Tool(1, "lookup_directory", "none"), Tool(1, "escalate_to_tier2_soc", "EMP"),
   [NoRequest EXCEPT !.op = "task"]}

Nobody == {}
=============================================================================
