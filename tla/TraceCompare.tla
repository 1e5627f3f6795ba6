---------------------------- MODULE TraceCompare ----------------------------
(***************************************************************************)
(* The comparison of two instruction set simulators that ran one program   *)
(* (riscv-dv: compare_iss_log in run.py, instr_trace_compare.py).  Two     *)
(* logs are converted into CSV rows (IssLog), and the register changes of  *)
(* the first trace are compared, in order, with those of the second.  A    *)
(* simulator may compute something else than the other one, and a log may  *)
(* end early: run_cmd lets a simulator killed by a signal pass.            *)
(***************************************************************************)
EXTENDS IssLog, Integers, FiniteSets

CONSTANTS IssPairs,   \* pairs of simulators that --iss may name
          Executions  \* what the two execute, and which of them are killed

(* What an executed instruction shows: nothing, that it is wfi, an illegal  *)
(* instruction trap, or the register it writes.                             *)
Effect == [kind : {"instr", "wfi"}, gpr : Row] \cup {[kind |-> "trap", gpr |-> NoGpr]}

ASSUME ExecutionAssumption ==
  /\ IssPairs \subseteq {"spike", "sail", "ovpsim"} \X {"spike", "sail", "ovpsim"}
  /\ \A e \in Executions :
       e.killed \subseteq 1..2 /\ \A k \in 1..2 : e.run[k] \in Seq(Effect)

VARIABLES iss,       \* the pair of simulators
          execution, \* what each of them executes, and who is killed
          converting, line, reader, \* the log read, how far, the converter
          csv,       \* the rows of the two traces
          phase,     \* where compare_iss_log is
          index,     \* trace_1_index, trace_2_index
          gpr,       \* gpr_val_1, gpr_val_2
          matched,   \* matched_cnt
          mismatch   \* mismatch_cnt

vars == <<iss, execution, converting, line, reader, csv, phase, index, gpr, matched, mismatch>>

NotInDict == -1

Phase == {"convert", "compare", "advance", "judge", "left", "done", "exited"}

-----------------------------------------------------------------------------
(* The value of r before the n-th of the writes w, and whether that write   *)
(* changes the state of the registers, all 0 at the start.                  *)
LastWrite(w, n, r, m) ==
  m \in 1..(n - 1) /\ w[m].reg = r /\ \A l \in (m + 1)..(n - 1) : w[l].reg # r

Changes(w, n) ==
  /\ w[n].reg # NoReg
  /\ \/ \E m \in 1..(n - 1) : LastWrite(w, n, w[n].reg, m) /\ w[m].val # w[n].val
     \/ (\A m \in 1..(n - 1) : w[m].reg # w[n].reg) /\ w[n].val # 0

ChangeSet(w) == {n \in 1..Len(w) : Changes(w, n)}

(* What the executed instructions r write.                                  *)
Written(r) == [n \in 1..Len(r) |-> r[n].gpr]

(* The log of an execution.  Spike and sail log the boot code and every     *)
(* write; ovpsim (--tracechange) logs a write that changes the register.    *)
(* After the ecall the exit code follows.                                   *)
NoGprLine(kind) == [kind |-> kind, gpr |-> NoGpr]

InstrLine(effect) == NoGprLine(IF effect.kind = "trap" THEN "instr" ELSE effect.kind)

EffectLine(i, r, n) ==
  CASE r[n].kind = "trap" -> NoGprLine("trap")
    [] r[n].gpr.reg # NoReg
       /\ (i = "ovpsim" => Changes(Written(r), n)) ->
         [kind |-> "write", gpr |-> r[n].gpr]
    [] OTHER -> NoGprLine("other")

BootWrite == [kind |-> "write", gpr |-> [reg |-> CHOOSE r \in Regs : TRUE, val |-> 0]]

BootLines(i) ==
  IF i = "ovpsim" THEN <<>> ELSE <<NoGprLine("instr"), BootWrite, NoGprLine("boot")>>

BodyLines(i, r) ==
  [n \in 1..(2 * Len(r)) |-> IF n % 2 = 1 THEN InstrLine(r[(n + 1) \div 2])
                             ELSE EffectLine(i, r, n \div 2)]

EndLines == <<NoGprLine("ecall"), NoGprLine("instr")>>

LogOf(i, r) == (BootLines(i) \o BodyLines(i, r)) \o EndLines

Log(k) == LogOf(iss[k], execution.run[k])

-----------------------------------------------------------------------------
Init ==
  /\ iss \in IssPairs /\ execution \in Executions
  /\ converting = 1 /\ line = 0 /\ reader = Start(iss[1])
  /\ csv = << <<>>, <<>> >> /\ phase = "convert"
  /\ index = <<0, 0>>
  /\ gpr = [k \in 1..2 |-> [r \in Regs |-> NotInDict]]
  /\ matched = 0 /\ mismatch = 0

(* compare_iss_log converts the two logs, line by line.                     *)
ReadLine ==
  /\ phase = "convert" /\ reader.state # "stop" /\ line < Len(Log(converting))
  /\ line' = line + 1
  /\ reader' = NextLine(iss[converting], reader, Log(converting)[line + 1])
  /\ UNCHANGED <<iss, execution, converting, csv, phase, index, gpr, matched, mismatch>>

(* The converter stopped at the ecall, or the log is at its end, early if   *)
(* the simulator was killed.  A log of ovpsim without a row ends run.py.    *)
EndOfLog ==
  /\ phase = "convert"
  /\ reader.state = "stop" \/ line = Len(Log(converting)) \/ converting \in execution.killed
  /\ LET rows == FinalRows(iss[converting], reader)
     IN /\ csv' = [csv EXCEPT ![converting] = rows]
        /\ IF iss[converting] = "ovpsim" /\ rows = <<>>
           THEN phase' = "exited" /\ UNCHANGED <<converting, line, reader>>
           ELSE IF converting = 1
           THEN converting' = 2 /\ line' = 0 /\ reader' = Start(iss[2]) /\ UNCHANGED phase
           ELSE phase' = "compare" /\ UNCHANGED <<converting, line, reader>>
  /\ UNCHANGED <<iss, execution, index, gpr, matched, mismatch>>

-----------------------------------------------------------------------------
(* Mutant: every first write counts.                                        *)
IsChangeFirst(row, known) ==
  /\ row.reg # NoReg
  /\ IF known[row.reg] # NotInDict THEN row.val # known[row.reg] ELSE TRUE

(* check_update_gpr on a row.                                               *)
IsChange(row, known) ==
  /\ row.reg # NoReg
  /\ IF known[row.reg] # NotInDict THEN row.val # known[row.reg] ELSE row.val # 0

Update(row, known) ==
  IF row.reg = NoReg THEN known ELSE [known EXCEPT ![row.reg] = row.val]

(* The row trace k comes to next is read, and its register noted.           *)
ReadRow(k) ==
  /\ index' = [index EXCEPT ![k] = @ + 1]
  /\ gpr' = [gpr EXCEPT ![k] = Update(csv[k][index[k] + 1], @)]
  /\ UNCHANGED <<iss, execution, converting, line, reader, csv>>

NextIsChange(k) == IsChange(csv[k][index[k] + 1], gpr[k])

(* for trace in instr_trace_1: the rows that change nothing are passed.     *)
TakeRow ==
  /\ phase = "compare" /\ index[1] < Len(csv[1])
  /\ ReadRow(1)
  /\ phase' = IF NextIsChange(1) THEN "advance" ELSE "compare"
  /\ UNCHANGED <<matched, mismatch>>

EndOfTrace1 ==
  /\ phase = "compare" /\ index[1] = Len(csv[1])
  /\ phase' = "left"
  /\ UNCHANGED <<iss, execution, converting, line, reader, csv, index, gpr, matched, mismatch>>

(* "Move forward the other trace until a GPR update happens".               *)
Advance ==
  /\ phase = "advance" /\ index[2] < Len(csv[2])
  /\ ReadRow(2)
  /\ phase' = IF NextIsChange(2) THEN "judge" ELSE "advance"
  /\ UNCHANGED <<matched, mismatch>>

RunsOut ==
  /\ phase = "advance" /\ index[2] = Len(csv[2])
  /\ mismatch' = mismatch + 1 /\ phase' = "left"
  /\ UNCHANGED <<iss, execution, converting, line, reader, csv, index, gpr, matched>>

(* The two changes are compared; "Break the loop if it reaches the end of   *)
(* trace 2".                                                                *)
Judge ==
  /\ phase = "judge"
  /\ IF csv[1][index[1]] = csv[2][index[2]]
     THEN matched' = matched + 1 /\ UNCHANGED mismatch
     ELSE mismatch' = mismatch + 1 /\ UNCHANGED matched
  /\ phase' = IF index[2] = Len(csv[2]) THEN "left" ELSE "compare"
  /\ UNCHANGED <<iss, execution, converting, line, reader, csv, index, gpr>>

(* Mutant: what is left of trace 2 is passed over.                          *)
LeftoverIgnored ==
  /\ phase = "left" /\ index[2] < Len(csv[2])
  /\ ReadRow(2)
  /\ UNCHANGED <<matched, mismatch, phase>>

(* "Check if there's remaining instruction that change architectural state" *)
Leftover ==
  /\ phase = "left" /\ index[2] < Len(csv[2])
  /\ ReadRow(2)
  /\ IF NextIsChange(2)
     THEN mismatch' = mismatch + (Len(csv[2]) - index[2]) /\ phase' = "done"
     ELSE UNCHANGED <<mismatch, phase>>
  /\ UNCHANGED matched

NothingLeft ==
  /\ phase = "left" /\ index[2] = Len(csv[2])
  /\ phase' = "done"
  /\ UNCHANGED <<iss, execution, converting, line, reader, csv, index, gpr, matched, mismatch>>

Next == \/ ReadLine \/ EndOfLog \/ TakeRow \/ EndOfTrace1 \/ Advance \/ RunsOut \/ Judge
        \/ Leftover \/ NothingLeft

Spec == Init /\ [][Next]_vars

-----------------------------------------------------------------------------
(* The types of the variables.                                              *)
TypeOK ==
  /\ iss \in IssPairs /\ execution.killed \subseteq 1..2
  /\ \A k \in 1..2 : execution.run[k] \in Seq(Effect)
  /\ converting \in 1..2 /\ line \in Nat /\ reader \in Reader
  /\ csv \in [1..2 -> Seq(Row)] /\ phase \in Phase
  /\ index \in [1..2 -> Nat]
  /\ gpr \in [1..2 -> [Regs -> Vals \cup {NotInDict}]]
  /\ matched \in Nat /\ mismatch \in Nat

Passed == phase = "done" /\ mismatch = 0

(* The log of simulator k is complete.                                      *)
Whole(k) == k \notin execution.killed

(* The register writes among the rows w, and the place of row n among the   *)
(* rows S.                                                                  *)
WriteSet(w) == {n \in 1..Len(w) : w[n].reg # NoReg}
Place(S, n) == Cardinality(S \cap 1..n)

(* What a simulator of that name lets be seen of a run.                     *)
Shown(i, w) ==
  IF i = "ovpsim"
  THEN [n \in 1..Len(w) |-> IF Changes(w, n) THEN w[n] ELSE NoGpr]
  ELSE w

(* Each converter keeps exactly the register writes of the program, in      *)
(* order: nothing of the boot code, of trapped instructions, or of what     *)
(* follows the ecall, and of a log that ends early no more than was run.    *)
ConversionExact ==
  phase \notin {"convert", "exited"} =>
    \A k \in 1..2 :
      LET kept == WriteSet(csv[k])
          done == Shown(iss[k], Written(execution.run[k]))
      IN /\ \A j \in kept : \E n \in WriteSet(done) :
              Place(kept, j) = Place(WriteSet(done), n) /\ csv[k][j] = done[n]
         /\ Whole(k) => Cardinality(kept) = Cardinality(WriteSet(done))

(* No false alarm: if both simulators executed the same and neither log is  *)
(* cut, the comparison passes, although they log writes without effect,     *)
(* traps, wfi and the end of the program differently.                       *)
SameRunsPass ==
  /\ execution.run[1] = execution.run[2] /\ Whole(1) /\ Whole(2)
  /\ phase = "done"
  => Passed

(* The place of row n among the changes of a trace.                         *)
Rank(w, n) == Place(ChangeSet(w), n)

(* Every change of trace b stands in trace a, at the same place among the   *)
(* changes.                                                                 *)
Within(b, a) ==
  \A j \in ChangeSet(b) : \E i \in ChangeSet(a) :
    Rank(a, i) = Rank(b, j) /\ a[i] = b[j]

(* PASSED is never given to a second trace that has a change the first one  *)
(* lacks or has with another value, in whatever order rows without effect   *)
(* are mixed in.                                                            *)
PassMeansPrefix == Passed => Within(csv[2], csv[1])

(* The loop is left with the last row of trace 2 and changes of trace 1     *)
(* behind it are not looked at: what saves the comparison is the row spike  *)
(* gets for the ecall, which changes nothing.  With a whole spike log       *)
(* second, PASSED means that the traces have the same changes.              *)
PassMeansEqual ==
  Passed /\ iss[2] = "spike" /\ Whole(2) => Within(csv[1], csv[2])
=============================================================================
