------------------------------- MODULE IssLog -------------------------------
(***************************************************************************)
(* How the log converters of riscv-dv (spike_log_to_trace_csv.py,          *)
(* sail_log_to_trace_csv.py, ovpsim_log_to_trace_csv.py) turn the log of   *)
(* an instruction set simulator into the rows of a trace CSV.  A log line  *)
(* is abstracted to which regular expressions it matches, a CSV row to the *)
(* one GPR it says was written, if any; pc, mode, operands and the text of *)
(* the instruction are left out.                                           *)
(***************************************************************************)
EXTENDS Naturals, Sequences

CONSTANTS Regs,    \* the general purpose registers
          Vals     \* values, 0 among them

NoReg == "none"

ASSUME RegsAssumption ==
  Regs # {} /\ NoReg \notin Regs /\ Vals \subseteq Nat /\ 0 \in Vals

(* A row's gpr column: one "reg:val", or nothing.                           *)
Row   == [reg : Regs, val : Vals] \cup {[reg |-> NoReg, val |-> 0]}
NoGpr == [reg |-> NoReg, val |-> 0]

(* Lines by what they match: the last instruction of the boot code, an      *)
(* instruction (wfi and ecall apart), the illegal instruction trap, the     *)
(* commit or change of a register, and lines no expression matches.         *)
LineKind == {"boot", "instr", "wfi", "ecall", "trap", "write", "other"}
Line     == [kind : LineKind, gpr : Row]

IsInstr(line) == line.kind \in {"instr", "wfi", "ecall"}

-----------------------------------------------------------------------------
(* A converter's state: still in the boot code, reading or stopped at the   *)
(* ecall; the instruction in hand, or none, with its register; the rows         *)
(* written.                                                                 *)
Hand   == {"none", "instr", "wfi", "ecall"}
Reader == [state : {"boot", "run", "stop"}, hand : Hand, gpr : Row, rows : Seq(Row)]

Start(iss) == [state |-> IF iss = "ovpsim" THEN "run" ELSE "boot",
               hand |-> "none", gpr |-> NoGpr, rows |-> <<>>]

AfterInstr(line) == IF line.kind = "ecall" THEN "stop" ELSE "run"
AfterBoot(line)  == IF line.kind = "boot" THEN "run" ELSE "boot"

(* process_spike_sim_log (full_trace = 0): of the instructions yielded, a   *)
(* row for those that wrote a register, and for wfi and ecall.              *)
Yield(st) ==
  IF st.hand # "none" /\ (st.gpr.reg # NoReg \/ st.hand \in {"wfi", "ecall"})
  THEN [st EXCEPT !.hand = "none", !.gpr = NoGpr, !.rows = Append(@, st.gpr)]
  ELSE [st EXCEPT !.hand = "none", !.gpr = NoGpr]

(* Mutant: the loop is left before the ecall is taken in hand.              *)
SpikeLineNoEcall(st, line) ==
  IF st.state = "boot" THEN [st EXCEPT !.state = AfterBoot(line)]
  ELSE
  CASE IsInstr(line)       -> [Yield(st) EXCEPT
                                 !.hand = IF line.kind = "ecall" THEN "none" ELSE line.kind,
                                 !.state = AfterInstr(line)]
    [] line.kind = "trap"  -> Yield(st)
    [] line.kind = "write" -> [st EXCEPT !.gpr = IF st.hand = "none" THEN @ ELSE line.gpr]
    [] OTHER               -> st

(* read_spike_trace, states TRAMPOLINE, INSTR (nothing in hand) and EFFECT. *)
SpikeLine(st, line) ==
  IF st.state = "boot" THEN [st EXCEPT !.state = AfterBoot(line)]
  ELSE
  CASE IsInstr(line)       -> [Yield(st) EXCEPT !.hand = line.kind,
                                                !.state = AfterInstr(line)]
    [] line.kind = "trap"  -> Yield(st)
    [] line.kind = "write" -> [st EXCEPT !.gpr = IF st.hand = "none" THEN @ ELSE line.gpr]
    [] OTHER               -> st

(* process_sail_sim_log: a row at the first register write after an         *)
(* instruction; the ecall ends the reading, and leaves no row.              *)
SailLine(st, line) ==
  CASE line.kind = "boot"  -> [st EXCEPT !.state = "run"]
    [] line.kind = "ecall" -> [st EXCEPT !.state = "stop"]
    [] line.kind \in {"instr", "wfi"} /\ st.state # "boot" -> [st EXCEPT !.hand = line.kind]
    [] line.kind = "write" /\ st.state # "boot" /\ st.hand # "none" ->
         [st EXCEPT !.hand = "none", !.rows = Append(@, line.gpr)]
    [] OTHER               -> st

(* Mutant: one row object serves all instructions.                          *)
OvpsimLineStale(st, line) ==
  CASE IsInstr(line)       -> [st EXCEPT !.rows = IF st.hand = "none" THEN @
                                                  ELSE Append(@, st.gpr),
                                         !.hand = line.kind, !.state = AfterInstr(line)]
    [] line.kind = "write" -> [st EXCEPT !.gpr = line.gpr]
    [] OTHER               -> st

(* process_ovpsim_sim_log (full_trace): every instruction gets a row, when  *)
(* the next one is found; the log was cut behind the ecall by sed.          *)
OvpsimLine(st, line) ==
  CASE IsInstr(line)       -> [st EXCEPT !.rows = IF st.hand = "none" THEN @
                                                  ELSE Append(@, st.gpr),
                                         !.gpr = NoGpr,
                                         !.hand = line.kind, !.state = AfterInstr(line)]
    [] line.kind = "write" -> [st EXCEPT !.gpr = line.gpr]
    [] OTHER               -> st

NextLine(iss, st, line) ==
  CASE iss = "spike"  -> SpikeLine(st, line)
    [] iss = "sail"   -> SailLine(st, line)
    [] iss = "ovpsim" -> OvpsimLine(st, line)

(* The rows at the end of the log: spike's converter still yields what is   *)
(* in hand, the one of ovpsim drops it.                                     *)
FinalRows(iss, st) == IF iss = "spike" THEN Yield(st).rows ELSE st.rows
=============================================================================
