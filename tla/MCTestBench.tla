----------------------------- MODULE MCTestBench -----------------------------
(***************************************************************************)
(* The test bench's C code for TLC: the visual debugger, and the names and *)
(* encodings of instructions, one or the other.                            *)
(***************************************************************************)
EXTENDS VisualDebugger, RiscvInst

VARIABLE part   \* which of the two runs; the other does not start

benchVars == <<debuggerVars, instVars, part>>

TestBenchInit ==
  /\ part \in {"debugger", "names"}
  /\ DebuggerInit
  /\ IF part = "names" THEN InstInit /\ bench.halt = 1
     ELSE /\ inst = [word |-> NOOP_INST, valid |-> "1"]
          /\ unit = <<>> /\ text = <<>> /\ step = "fetched"

TestBenchNext ==
  \/ part = "debugger" /\ DebuggerNext /\ UNCHANGED <<instVars, part>>
  \/ part = "names" /\ InstNext /\ UNCHANGED <<debuggerVars, part>>

\* The fairness of DebuggerSpec, while the debugger runs.
TestBenchSpec ==
  /\ TestBenchInit /\ [][TestBenchNext]_benchVars
  /\ WF_benchVars(part = "debugger" /\ BenchStep /\ UNCHANGED <<instVars, part>>)
  /\ WF_benchVars(part = "debugger" /\ ChildStep /\ UNCHANGED <<instVars, part>>)
=============================================================================
