--------------------------- MODULE MCTraceCompare ---------------------------
(* TraceCompare for TLC: programs of up to MaxRun instructions; the second  *)
(* simulator differs in one instruction, or one of the two is killed.       *)
EXTENDS TraceCompare

CONSTANTS a, b, MaxRun

Plain == {[kind |-> k, gpr |-> NoGpr] : k \in {"instr", "trap"}}
SomeWrites == {[kind |-> "instr", gpr |-> [reg |-> r, val |-> v]]
               : <<r, v>> \in {<<a, 0>>, <<a, 1>>, <<b, 1>>}}
Programs == UNION {[1..n -> Plain \cup SomeWrites] : n \in 0..MaxRun}

SomeExecutions ==
  {[run |-> <<p, p>>, killed |-> k] : p \in Programs, k \in {{}, {1}, {2}}}
  \cup UNION {{[run |-> <<p, [p EXCEPT ![n] = e]>>, killed |-> {}]
               : n \in DOMAIN p, e \in Plain \cup SomeWrites} : p \in Programs}

SpikeAndOthers == {p \in {"spike", "sail", "ovpsim"} \X {"spike", "sail", "ovpsim"} :
                     "spike" \in {p[1], p[2]}}
=============================================================================
