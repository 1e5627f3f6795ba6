------------------------- MODULE TraceCompareProofs -------------------------
(***************************************************************************)
(* TraceCompare for all registers, values, executions and log lengths: the *)
(* variables keep their types, a second trace that was given PASSED has no *)
(* change the first one lacks, and with a whole spike log second the two   *)
(* have the same changes; the converters keep what was executed, and two   *)
(* simulators that executed the same pass.                                 *)
(***************************************************************************)
EXTENDS TraceCompare, FiniteSetTheorems, SequenceTheorems, WellFoundedInduction, TLAPS

-----------------------------------------------------------------------------
(* The logs and the converters.                                             *)

LEMMA NoGprRow == NoGpr \in Row
BY DEF NoGpr, Row

LEMMA LogTyped ==
  ASSUME NEW i, NEW r \in Seq(Effect)
  PROVE  /\ LogOf(i, r) \in Seq(Line)
         /\ Len(LogOf(i, r)) = Len(BootLines(i)) + 2 * Len(r) + 2
         /\ LogOf(i, r)[Len(LogOf(i, r)) - 1] = NoGprLine("ecall")
         /\ \A n \in 1..Len(BootLines(i)) : LogOf(i, r)[n] = BootLines(i)[n]
         /\ Len(BootLines(i)) \in Nat
         /\ \A n \in 1..(2 * Len(r)) :
              LogOf(i, r)[Len(BootLines(i)) + n] = BodyLines(i, r)[n]
<1> DEFINE b == BootLines(i)
           m == BodyLines(i, r)
<1>1. ASSUME NEW kind \in LineKind PROVE NoGprLine(kind) \in Line
  BY NoGprRow DEF NoGprLine, Line
<1>2. BootWrite \in Line
  BY RegsAssumption DEF BootWrite, Line, LineKind, Row
<1>3. b \in Seq(Line)
  <2>1. NoGprLine("instr") \in Line /\ NoGprLine("boot") \in Line
    BY <1>1 DEF LineKind
  <2> QED
    BY <1>2, <2>1 DEF BootLines
<1>4. Len(r) \in Nat /\ \A n \in 1..Len(r) : r[n] \in Effect
  OBVIOUS
<1>5. ASSUME NEW n \in 1..Len(r)
      PROVE  InstrLine(r[n]) \in Line /\ EffectLine(i, r, n) \in Line
  <2>1. r[n] \in Effect
    BY <1>4
  <2>2. r[n].kind \in {"instr", "wfi", "trap"} /\ r[n].gpr \in Row
    BY <2>1, NoGprRow DEF Effect
  <2>3. InstrLine(r[n]) \in Line
    BY <1>1, <2>2 DEF InstrLine, LineKind
  <2>4. [kind |-> "write", gpr |-> r[n].gpr] \in Line
    BY <2>2 DEF Line, LineKind
  <2>5. NoGprLine("trap") \in Line /\ NoGprLine("other") \in Line
    BY <1>1 DEF LineKind
  <2>6. EffectLine(i, r, n) \in Line
    BY <2>4, <2>5 DEF EffectLine
  <2> QED
    BY <2>3, <2>6
<1>6. m \in Seq(Line) /\ Len(m) = 2 * Len(r)
  <2>1. ASSUME NEW n \in 1..(2 * Len(r)) PROVE m[n] \in Line
    <3>1. CASE n % 2 = 1
      <4>1. (n + 1) \div 2 \in 1..Len(r)
        BY <1>4, <3>1
      <4> QED
        BY <1>5, <3>1, <4>1 DEF BodyLines
    <3>2. CASE n % 2 # 1
      <4>1. n \div 2 \in 1..Len(r)
        BY <1>4, <3>2
      <4> QED
        BY <1>5, <3>2, <4>1 DEF BodyLines
    <3> QED
      BY <3>1, <3>2
  <2>2. m = [n \in 1..(2 * Len(r)) |-> m[n]]
    BY DEF BodyLines
  <2>3. 2 * Len(r) \in Nat
    BY <1>4
  <2> HIDE DEF m
  <2> QED
    BY <2>1, <2>2, <2>3
<1>7. EndLines \in Seq(Line) /\ Len(EndLines) = 2 /\ EndLines[1] = NoGprLine("ecall")
  BY <1>1 DEF EndLines, LineKind
<1> HIDE DEF b, m
<1>8. /\ b \o m \in Seq(Line) /\ Len(b \o m) = Len(b) + 2 * Len(r)
      /\ \A n \in 1..Len(b) : (b \o m)[n] = b[n]
      /\ \A n \in 1..(2 * Len(r)) : (b \o m)[Len(b) + n] = m[n]
  <2>1. b \in Seq(Line) /\ m \in Seq(Line)
    BY <1>3, <1>6
  <2>2. /\ b \o m \in Seq(Line) /\ Len(b \o m) = Len(b) + Len(m)
        /\ \A n \in 1..(Len(b) + Len(m)) : (b \o m)[n] =
             IF n <= Len(b) THEN b[n] ELSE m[n - Len(b)]
    BY <2>1, ConcatProperties, Zenon
  <2>3. Len(b) \in Nat /\ Len(m) \in Nat
    BY <2>1
  <2>4. ASSUME NEW n \in 1..(2 * Len(r)) PROVE (b \o m)[Len(b) + n] = m[n]
    <3>1. /\ Len(b) + n \in 1..(Len(b) + Len(m)) /\ ~(Len(b) + n <= Len(b))
          /\ Len(b) + n - Len(b) = n
      BY <1>4, <1>6, <2>3
    <3> QED
      BY <2>2, <3>1
  <2> QED
    BY <1>6, <2>2, <2>3, <2>4
<1> DEFINE c == b \o m
<1>9. c \in Seq(Line) /\ Len(c) = Len(b) + 2 * Len(r) /\ Len(b) \in Nat /\ Len(c) \in Nat
  BY <1>3, <1>8
<1>10. LogOf(i, r) = c \o EndLines
  BY DEF LogOf, b, m
<1>11. /\ \A n \in 1..Len(b) : c[n] = b[n]
       /\ \A n \in 1..(2 * Len(r)) : c[Len(b) + n] = m[n]
  BY <1>8
<1> HIDE DEF c
<1>12. /\ c \o EndLines \in Seq(Line)
       /\ Len(c \o EndLines) = Len(c) + 2
       /\ \A n \in 1..(Len(c) + 2) : (c \o EndLines)[n] =
            IF n <= Len(c) THEN c[n] ELSE EndLines[n - Len(c)]
  <2>1. c \in Seq(Line) /\ EndLines \in Seq(Line)
    BY <1>7, <1>9
  <2>2. /\ c \o EndLines \in Seq(Line) /\ Len(c \o EndLines) = Len(c) + Len(EndLines)
        /\ \A n \in 1..(Len(c) + Len(EndLines)) : (c \o EndLines)[n] =
             IF n <= Len(c) THEN c[n] ELSE EndLines[n - Len(c)]
    BY <2>1, ConcatProperties, Zenon
  <2> QED
    BY <1>7, <2>2
<1>13. (c \o EndLines)[Len(c) + 1] = EndLines[1]
  BY <1>9, <1>12
<1>14. \A n \in 1..Len(b) : (c \o EndLines)[n] = b[n]
  BY <1>4, <1>9, <1>11, <1>12
<1>15. ASSUME NEW n \in 1..(2 * Len(r)) PROVE (c \o EndLines)[Len(b) + n] = m[n]
  <2>1. Len(b) + n \in 1..(Len(c) + 2) /\ Len(b) + n <= Len(c)
    BY <1>4, <1>9
  <2> QED
    BY <1>11, <1>12, <2>1
<1> QED
  BY <1>4, <1>7, <1>9, <1>10, <1>12, <1>13, <1>14, <1>15 DEF b, m

LEMMA YieldTyped ==
  ASSUME NEW st \in Reader
  PROVE  Yield(st) \in Reader
<1>1. /\ st.state \in {"boot", "run", "stop"} /\ st.hand \in Hand /\ st.gpr \in Row
      /\ st.rows \in Seq(Row)
  BY DEF Reader
<1>2. Append(st.rows, st.gpr) \in Seq(Row)
  BY <1>1
<1> QED
  BY <1>1, <1>2, NoGprRow DEF Yield, Reader, Hand

LEMMA ReaderTyped ==
  ASSUME NEW st \in Reader, NEW l \in Line, NEW i \in {"spike", "sail", "ovpsim"}
  PROVE  /\ NextLine(i, st, l) \in Reader
         /\ FinalRows(i, st) \in Seq(Row)
         /\ Start(i) \in Reader
<1>1. /\ st.state \in {"boot", "run", "stop"} /\ st.hand \in Hand /\ st.gpr \in Row
      /\ st.rows \in Seq(Row) /\ l.kind \in LineKind /\ l.gpr \in Row
  BY DEF Reader, Line
<1>2. Yield(st) \in Reader
  BY YieldTyped
<1>4. IsInstr(l) => l.kind \in Hand
  BY DEF IsInstr, Hand
<1>5. SpikeLine(st, l) \in Reader
  BY <1>1, <1>2, <1>4 DEF SpikeLine, Reader, AfterInstr, AfterBoot
<1>6. SailLine(st, l) \in Reader
  <2>1. Append(st.rows, l.gpr) \in Seq(Row)
    BY <1>1
  <2> QED
    BY <1>1, <1>4, <2>1 DEF SailLine, Reader, Hand
<1>7. OvpsimLine(st, l) \in Reader
  <2>1. Append(st.rows, st.gpr) \in Seq(Row)
    BY <1>1
  <2> QED
    BY <1>1, <1>4, <2>1, NoGprRow DEF OvpsimLine, Reader, Hand, AfterInstr
<1>8. FinalRows(i, st) \in Seq(Row)
  BY <1>1, <1>2 DEF FinalRows, Reader
<1>9. Start(i) \in Reader
  <2>1. <<>> \in Seq(Row)
    OBVIOUS
  <2> QED
    BY <2>1, NoGprRow DEF Start, Reader, Hand
<1> QED
  BY <1>5, <1>6, <1>7, <1>8, <1>9 DEF NextLine

LEMMA LogLines ==
  ASSUME TypeOK, NEW k \in 1..2
  PROVE  /\ Log(k) \in Seq(Line) /\ Len(Log(k)) \in Nat
         /\ Len(Log(k)) = Len(BootLines(iss[k])) + 2 * Len(execution.run[k]) + 2
         /\ Log(k)[Len(Log(k)) - 1] = NoGprLine("ecall")
         /\ \A n \in 1..Len(BootLines(iss[k])) : Log(k)[n] = BootLines(iss[k])[n]
<1>1. execution.run[k] \in Seq(Effect)
  BY DEF TypeOK
<1>2. /\ LogOf(iss[k], execution.run[k]) \in Seq(Line)
      /\ Len(LogOf(iss[k], execution.run[k]))
           = Len(BootLines(iss[k])) + 2 * Len(execution.run[k]) + 2
      /\ LogOf(iss[k], execution.run[k])[Len(LogOf(iss[k], execution.run[k])) - 1]
           = NoGprLine("ecall")
      /\ \A n \in 1..Len(BootLines(iss[k])) :
           LogOf(iss[k], execution.run[k])[n] = BootLines(iss[k])[n]
  BY <1>1, LogTyped
<1>3. Log(k) = LogOf(iss[k], execution.run[k])
  BY DEF Log
<1>4. Log(k) \in Seq(Line) => Len(Log(k)) \in Nat
  OBVIOUS
<1> HIDE DEF Log
<1> QED
  BY <1>2, <1>3, <1>4

LEMMA IssNames ==
  ASSUME TypeOK
  PROVE  \A k \in 1..2 : iss[k] \in {"spike", "sail", "ovpsim"}
BY ExecutionAssumption DEF TypeOK

-----------------------------------------------------------------------------
(* Type correctness.                                                        *)

LEMMA TypeInit == Init => TypeOK
<1> SUFFICES ASSUME Init PROVE TypeOK
  OBVIOUS
<1>1. /\ iss \in IssPairs /\ execution.killed \subseteq 1..2
      /\ \A k \in 1..2 : execution.run[k] \in Seq(Effect)
  BY ExecutionAssumption DEF Init
<1>2. iss[1] \in {"spike", "sail", "ovpsim"}
  BY <1>1, ExecutionAssumption
<1>3. reader \in Reader
  <2>1. \A st \in Reader, l \in Line, i \in {"spike", "sail", "ovpsim"} : Start(i) \in Reader
    BY ReaderTyped
  <2>2. <<>> \in Seq(Row)
    OBVIOUS
  <2>3. Start(iss[1]) \in Reader
    BY <1>2, <2>2, NoGprRow DEF Start, Reader, Hand
  <2> QED
    BY <2>3 DEF Init
<1>4. csv \in [1..2 -> Seq(Row)] /\ index \in [1..2 -> Nat]
  <2>1. csv = << <<>>, <<>> >> /\ index = <<0, 0>>
    BY DEF Init
  <2>2. <<>> \in Seq(Row)
    OBVIOUS
  <2>3. \A S : \A x \in S, y \in S : <<x, y>> \in [1..2 -> S]
    OBVIOUS
  <2> QED
    BY <2>1, <2>2, <2>3
<1>5. gpr \in [1..2 -> [Regs -> Vals \cup {NotInDict}]]
  BY DEF Init
<1> QED
  BY <1>1, <1>3, <1>4, <1>5 DEF Init, TypeOK, Phase

LEMMA ReadRowTyped ==
  ASSUME TypeOK, NEW k \in 1..2, index[k] < Len(csv[k]), ReadRow(k)
  PROVE  /\ index' \in [1..2 -> Nat]
         /\ gpr' \in [1..2 -> [Regs -> Vals \cup {NotInDict}]]
         /\ index'[k] = index[k] + 1 /\ index'[k] \in 1..Len(csv[k])
         /\ csv[k][index'[k]] \in Row
         /\ gpr'[k] = Update(csv[k][index'[k]], gpr[k])
         /\ \A j \in 1..2 : j # k => index'[j] = index[j] /\ gpr'[j] = gpr[j]
         /\ csv' = csv
<1>1. /\ index \in [1..2 -> Nat] /\ csv \in [1..2 -> Seq(Row)] /\ csv' = csv
      /\ index' = [index EXCEPT ![k] = @ + 1]
      /\ gpr \in [1..2 -> [Regs -> Vals \cup {NotInDict}]]
      /\ gpr' = [gpr EXCEPT ![k] = Update(csv[k][index[k] + 1], @)]
  BY DEF TypeOK, ReadRow
<1>2. csv[k] \in Seq(Row) /\ index[k] \in Nat /\ index[k] + 1 \in 1..Len(csv[k])
  BY <1>1
<1> DEFINE row == csv[k][index[k] + 1]
<1>3. row \in Row
  BY <1>2
<1>4. Update(row, gpr[k]) \in [Regs -> Vals \cup {NotInDict}]
  <2>1. gpr[k] \in [Regs -> Vals \cup {NotInDict}]
    BY <1>1
  <2>2. row.reg = NoReg \/ (row.reg \in Regs /\ row.val \in Vals)
    BY <1>3 DEF Row
  <2> QED
    BY <2>1, <2>2 DEF Update
<1>5. index' \in [1..2 -> Nat] /\ index'[k] = index[k] + 1
      /\ \A j \in 1..2 : j # k => index'[j] = index[j]
  BY <1>1
<1>6. gpr' \in [1..2 -> [Regs -> Vals \cup {NotInDict}]] /\ gpr'[k] = Update(row, gpr[k])
      /\ \A j \in 1..2 : j # k => gpr'[j] = gpr[j]
  BY <1>1, <1>4
<1> QED
  BY <1>1, <1>2, <1>3, <1>5, <1>6

LEMMA TypeStep == TypeOK /\ [Next]_vars => TypeOK'
<1> SUFFICES ASSUME TypeOK, [Next]_vars PROVE TypeOK'
  OBVIOUS
<1>0. \A k \in 1..2 : iss[k] \in {"spike", "sail", "ovpsim"}
  BY IssNames
<1>1. CASE ReadLine
  <2>1. converting \in 1..2 /\ line \in Nat /\ reader \in Reader
    BY DEF TypeOK
  <2>2. Log(converting) \in Seq(Line) /\ line + 1 \in 1..Len(Log(converting))
    BY <1>1, <2>1, LogLines DEF ReadLine
  <2> DEFINE l == Log(converting)[line + 1]
  <2>3. l \in Line
    BY <2>2
  <2>4. NextLine(iss[converting], reader, l) \in Reader
    BY <1>0, <2>1, <2>3, ReaderTyped
  <2>5. reader' \in Reader /\ line' \in Nat
    BY <1>1, <2>1, <2>4 DEF ReadLine
  <2> QED
    BY <1>1, <2>5 DEF ReadLine, TypeOK
<1>2. CASE EndOfLog
  <2>1. converting \in 1..2 /\ line \in Nat /\ reader \in Reader
        /\ csv \in [1..2 -> Seq(Row)] /\ index \in [1..2 -> Nat]
    BY DEF TypeOK
  <2>2. FinalRows(iss[converting], reader) \in Seq(Row) /\ Start(iss[2]) \in Reader
    <3>1. NoGprLine("other") \in Line
      BY NoGprRow DEF NoGprLine, Line, LineKind
    <3>2. FinalRows(iss[converting], reader) \in Seq(Row)
      BY <1>0, <2>1, <3>1, ReaderTyped
    <3>3. iss[2] \in {"spike", "sail", "ovpsim"}
      BY <1>0
    <3>4. Start(iss[2]) \in Reader
      BY <2>1, <3>1, <3>3, ReaderTyped
    <3> QED
      BY <3>2, <3>4
  <2>3. csv' \in [1..2 -> Seq(Row)] /\ phase' \in Phase
    BY <1>2, <2>1, <2>2 DEF EndOfLog, TypeOK, Phase
  <2>4. converting' \in 1..2 /\ line' \in Nat /\ reader' \in Reader
    BY <1>2, <2>1, <2>2 DEF EndOfLog
  <2> QED
    BY <1>2, <2>3, <2>4 DEF EndOfLog, TypeOK
<1>3. CASE TakeRow
  <2>1. index' \in [1..2 -> Nat] /\ gpr' \in [1..2 -> [Regs -> Vals \cup {NotInDict}]]
    BY <1>3, ReadRowTyped DEF TakeRow
  <2> QED
    BY <1>3, <2>1 DEF TakeRow, ReadRow, TypeOK, Phase
<1>4. CASE Advance
  <2>1. index' \in [1..2 -> Nat] /\ gpr' \in [1..2 -> [Regs -> Vals \cup {NotInDict}]]
    BY <1>4, ReadRowTyped DEF Advance
  <2> QED
    BY <1>4, <2>1 DEF Advance, ReadRow, TypeOK, Phase
<1>5. CASE Leftover
  <2>1. index' \in [1..2 -> Nat] /\ gpr' \in [1..2 -> [Regs -> Vals \cup {NotInDict}]]
    BY <1>5, ReadRowTyped DEF Leftover
  <2>2. mismatch' \in Nat /\ phase' \in Phase
    <3>1. index[2] \in Nat /\ Len(csv[2]) \in Nat /\ mismatch \in Nat /\ phase \in Phase
      BY DEF TypeOK
    <3> QED
      BY <1>5, <3>1 DEF Leftover, Phase
  <2> QED
    BY <1>5, <2>1, <2>2 DEF Leftover, ReadRow, TypeOK
<1>6. CASE EndOfTrace1 \/ RunsOut \/ Judge \/ NothingLeft
  <2>1. mismatch' \in Nat /\ matched' \in Nat /\ phase' \in Phase
    BY <1>6 DEF EndOfTrace1, RunsOut, Judge, NothingLeft, TypeOK, Phase
  <2> QED
    BY <1>6, <2>1 DEF EndOfTrace1, RunsOut, Judge, NothingLeft, TypeOK
<1>7. CASE UNCHANGED vars
  BY <1>7 DEF vars, TypeOK
<1> QED
  BY <1>1, <1>2, <1>3, <1>4, <1>5, <1>6, <1>7 DEF Next

\* The variables hold what TypeOK says, however long the logs are.
THEOREM TypeCorrect == Spec => []TypeOK
BY TypeInit, TypeStep, PTL DEF Spec

-----------------------------------------------------------------------------
(* The inductive invariant.                                                 *)

\* Before the comparison nothing has been read.
Waiting ==
  phase = "convert" =>
    \A k \in 1..2 : index[k] = 0 /\ \A r \in Regs : gpr[k][r] = NotInDict

\* gpr_val holds the last value written to each register so far.
Known(k) ==
  \A r \in Regs :
    \/ gpr[k][r] = NotInDict /\ \A m \in 1..index[k] : csv[k][m].reg # r
    \/ \E m \in 1..index[k] :
         LastWrite(csv[k], index[k] + 1, r, m) /\ csv[k][m].val = gpr[k][r]

\* The changes of both traces are read at the same pace.
InStep ==
  /\ phase \notin {"convert", "exited"} => \A k \in 1..2 : index[k] <= Len(csv[k])
  /\ phase = "compare" => Rank(csv[1], index[1]) = Rank(csv[2], index[2])
  /\ phase = "advance" => /\ index[1] \in ChangeSet(csv[1])
                          /\ Rank(csv[1], index[1]) = Rank(csv[2], index[2]) + 1
  /\ phase = "judge" => /\ Rank(csv[1], index[1]) = Rank(csv[2], index[2])
                        /\ \A k \in 1..2 : index[k] \in ChangeSet(csv[k])

\* How far the changes of trace k have been compared.
Judged(k) ==
  IF phase = "judge" \/ (k = 1 /\ phase = "advance")
  THEN index[k] - 1 ELSE index[k]

\* As long as there is no mismatch every change compared has its partner.
Paired(b, a) ==
  \A j \in ChangeSet(csv[b]) :
    j <= Judged(b) =>
      \E i \in ChangeSet(csv[a]) :
        Rank(csv[a], i) = Rank(csv[b], j) /\ csv[a][i] = csv[b][j]

Matching ==
  mismatch = 0 /\ phase \notin {"convert", "exited"} => Paired(2, 1) /\ Paired(1, 2)

\* Trace 1 is read to its end, unless trace 2 ends with a change; trace 2 is.
Ended ==
  mismatch = 0 =>
    /\ phase \in {"left", "done"} =>
         index[1] = Len(csv[1]) \/ Len(csv[2]) \in ChangeSet(csv[2])
    /\ phase = "done" => index[2] = Len(csv[2])

\* The last row of a whole spike log is the one of the ecall.
EcallLast ==
  iss[2] = "spike" /\ Whole(2) =>
    /\ phase = "convert" /\ converting = 2 =>
         /\ reader.state = "boot" <=> line < 3
         /\ reader.state = "stop" => reader.hand = "ecall" /\ reader.gpr = NoGpr
         /\ line >= Len(Log(2)) - 1 => reader.state = "stop"
    /\ phase \notin {"convert", "exited"} =>
         csv[2] # <<>> /\ csv[2][Len(csv[2])] = NoGpr

IInv == Waiting /\ Known(1) /\ Known(2) /\ InStep /\ Matching /\ Ended /\ EcallLast

-----------------------------------------------------------------------------
(* Lemmas about ranks and about reading a row.                              *)

LEMMA RankType ==
  ASSUME NEW w, NEW n \in Nat
  PROVE  IsFiniteSet(ChangeSet(w) \cap 1..n) /\ Rank(w, n) \in Nat
<1>1. IsFiniteSet(1..n)
  BY FS_Interval
<1>2. IsFiniteSet(ChangeSet(w) \cap 1..n)
  <2>1. (ChangeSet(w) \cap 1..n) \in SUBSET (1..n)
    OBVIOUS
  <2> QED
    BY <1>1, <2>1, FS_Subset
<1> QED
  BY <1>2, FS_CardinalityType DEF Rank, Place

LEMMA RankNext ==
  ASSUME NEW w \in Seq(Row), NEW n \in Nat, n < Len(w)
  PROVE  /\ n + 1 \in ChangeSet(w) <=> Changes(w, n + 1)
         /\ Rank(w, n + 1) = IF n + 1 \in ChangeSet(w) THEN Rank(w, n) + 1 ELSE Rank(w, n)
<1> DEFINE S == ChangeSet(w) \cap 1..n
<1>1. Len(w) \in Nat /\ n + 1 \in 1..Len(w)
  OBVIOUS
<1>2. n + 1 \in ChangeSet(w) <=> Changes(w, n + 1)
  BY <1>1 DEF ChangeSet
<1>3. IsFiniteSet(S) /\ n + 1 \notin S
  <2>1. IsFiniteSet(S)
    BY RankType
  <2>2. n + 1 \notin 1..n
    OBVIOUS
  <2> QED
    BY <2>1, <2>2
<1>4. CASE n + 1 \in ChangeSet(w)
  <2>1. ChangeSet(w) \cap 1..(n + 1) = S \cup {n + 1}
    BY <1>4
  <2>2. Cardinality(S \cup {n + 1}) = Cardinality(S) + 1
    BY <1>3, FS_AddElement
  <2> QED
    BY <1>2, <1>4, <2>1, <2>2 DEF Rank, Place
<1>5. CASE n + 1 \notin ChangeSet(w)
  <2>1. ChangeSet(w) \cap 1..(n + 1) = S
    BY <1>5
  <2> QED
    BY <1>2, <1>5, <2>1 DEF Rank, Place
<1> QED
  BY <1>4, <1>5

\* check_update_gpr finds the changes of the trace.
LEMMA KnownChange ==
  ASSUME TypeOK, NEW k \in 1..2, Known(k), index[k] < Len(csv[k])
  PROVE  NextIsChange(k) <=> Changes(csv[k], index[k] + 1)
<1> DEFINE n == index[k]
           w == csv[k]
           row == w[n + 1]
<1>1. n \in Nat /\ w \in Seq(Row) /\ gpr[k] \in [Regs -> Vals \cup {NotInDict}]
  BY DEF TypeOK
<1>2. row \in Row
  BY <1>1
<1>3. row.reg = NoReg \/ (row.reg \in Regs /\ row.val \in Vals /\ row.reg # NoReg)
  BY <1>2, RegsAssumption DEF Row
<1>4. CASE row.reg = NoReg
  BY <1>4 DEF NextIsChange, IsChange, Changes
<1>5. CASE row.reg # NoReg
  <2>1. row.reg \in Regs
    BY <1>3, <1>5
  <2>2. CASE gpr[k][row.reg] = NotInDict /\ \A m \in 1..n : w[m].reg # row.reg
    <3>1. NextIsChange(k) <=> row.val # 0
      BY <1>5, <2>2 DEF NextIsChange, IsChange
    <3>2. Changes(w, n + 1) <=> row.val # 0
      BY <1>1, <1>5, <2>2 DEF Changes, LastWrite
    <3> QED
      BY <3>1, <3>2
  <2>3. CASE \E m \in 1..n : LastWrite(w, n + 1, row.reg, m) /\ w[m].val = gpr[k][row.reg]
    <3>1. PICK m \in 1..n : LastWrite(w, n + 1, row.reg, m) /\ w[m].val = gpr[k][row.reg]
      BY <2>3
    <3>2. w[m].reg = row.reg /\ \A l \in (m + 1)..n : w[l].reg # row.reg
      BY <1>1, <3>1 DEF LastWrite
    <3>3. gpr[k][row.reg] # NotInDict
      <4>1. m \in 1..Len(w)
        BY <1>1
      <4>2. w[m] \in Row
        BY <1>1, <4>1
      <4>3. w[m].val \in Vals
        BY <2>1, <3>2, <4>2, RegsAssumption DEF Row
      <4> QED
        BY <3>1, <4>3, RegsAssumption DEF NotInDict
    <3>4. NextIsChange(k) <=> row.val # w[m].val
      BY <1>5, <3>1, <3>3 DEF NextIsChange, IsChange
    <3>5. \A q \in 1..n : LastWrite(w, n + 1, row.reg, q) => q = m
      BY <1>1, <3>2 DEF LastWrite
    <3>6. Changes(w, n + 1) <=> row.val # w[m].val
      BY <1>1, <1>5, <3>1, <3>2, <3>5 DEF Changes
    <3> QED
      BY <3>4, <3>6
  <2> QED
    BY <2>1, <2>2, <2>3 DEF Known
<1> QED
  BY <1>4, <1>5

LEMMA KnownRead ==
  ASSUME TypeOK, NEW k \in 1..2, Known(k), index[k] < Len(csv[k]), ReadRow(k)
  PROVE  Known(k)'
<1> DEFINE n == index[k]
           w == csv[k]
           row == w[n + 1]
<1>1. n \in Nat /\ w \in Seq(Row) /\ gpr[k] \in [Regs -> Vals \cup {NotInDict}]
  BY DEF TypeOK
<1>2. index'[k] = n + 1 /\ csv' = csv /\ gpr'[k] = Update(row, gpr[k])
  <2>1. index'[k] = index[k] + 1 /\ gpr'[k] = Update(csv[k][index'[k]], gpr[k]) /\ csv' = csv
    BY ReadRowTyped
  <2> QED
    BY <2>1
<1>3. ASSUME NEW r \in Regs, row.reg = r
      PROVE  LastWrite(w, n + 2, r, n + 1) /\ w[n + 1].val = gpr'[k][r]
  <2>1. gpr'[k][r] = row.val
    BY <1>1, <1>2, <1>3, RegsAssumption DEF Update
  <2> QED
    BY <1>1, <1>3, <2>1 DEF LastWrite
<1>4. ASSUME NEW r \in Regs, row.reg # r
      PROVE  gpr'[k][r] = gpr[k][r]
  BY <1>1, <1>2, <1>4 DEF Update
<1>5. ASSUME NEW r \in Regs
      PROVE  \/ gpr'[k][r] = NotInDict /\ \A m \in 1..(n + 1) : w[m].reg # r
             \/ \E m \in 1..(n + 1) : LastWrite(w, n + 2, r, m) /\ w[m].val = gpr'[k][r]
  <2>1. CASE row.reg = r
    BY <1>1, <1>3, <2>1
  <2>2. CASE row.reg # r /\ gpr[k][r] = NotInDict /\ \A m \in 1..n : w[m].reg # r
    BY <1>1, <1>4, <2>2
  <2>3. CASE row.reg # r /\ \E m \in 1..n : LastWrite(w, n + 1, r, m) /\ w[m].val = gpr[k][r]
    <3>1. PICK m \in 1..n : LastWrite(w, n + 1, r, m) /\ w[m].val = gpr[k][r]
      BY <2>3
    <3>2. LastWrite(w, n + 2, r, m)
      BY <1>1, <2>3, <3>1 DEF LastWrite
    <3> QED
      BY <1>1, <1>4, <2>3, <3>1, <3>2
  <2> QED
    BY <2>1, <2>2, <2>3 DEF Known
<1>6. index'[k] + 1 = n + 2
  BY <1>1, <1>2
<1> QED
  BY <1>2, <1>5, <1>6 DEF Known

LEMMA ReadFacts ==
  ASSUME TypeOK, NEW k \in 1..2, Known(1), Known(2), index[k] < Len(csv[k]), ReadRow(k)
  PROVE  /\ csv' = csv /\ index'[k] = index[k] + 1 /\ index'[k] \in 1..Len(csv[k])
         /\ \A j \in 1..2 : j # k => index'[j] = index[j]
         /\ NextIsChange(k) <=> index'[k] \in ChangeSet(csv[k])
         /\ Rank(csv[k], index'[k]) =
              IF NextIsChange(k) THEN Rank(csv[k], index[k]) + 1 ELSE Rank(csv[k], index[k])
         /\ Known(1)' /\ Known(2)'
<1>1. /\ csv' = csv /\ index'[k] = index[k] + 1 /\ index'[k] \in 1..Len(csv[k])
      /\ \A j \in 1..2 : j # k => index'[j] = index[j] /\ gpr'[j] = gpr[j]
  BY ReadRowTyped
<1>2. csv[k] \in Seq(Row) /\ index[k] \in Nat
  BY DEF TypeOK
<1>3. Known(k)
  <2>1. k = 1 \/ k = 2
    OBVIOUS
  <2> QED
    BY <2>1
<1>4. NextIsChange(k) <=> Changes(csv[k], index[k] + 1)
  BY <1>3, KnownChange
<1>5. /\ index[k] + 1 \in ChangeSet(csv[k]) <=> Changes(csv[k], index[k] + 1)
      /\ Rank(csv[k], index[k] + 1) =
           IF index[k] + 1 \in ChangeSet(csv[k])
           THEN Rank(csv[k], index[k]) + 1 ELSE Rank(csv[k], index[k])
  BY <1>2, RankNext
<1>6. Known(k)'
  BY <1>3, KnownRead
<1>7. ASSUME NEW j \in 1..2, j # k PROVE Known(j)'
  <2>1. Known(j)
    <3>1. j = 1 \/ j = 2
      OBVIOUS
    <3> QED
      BY <3>1
  <2> QED
    BY <1>1, <1>7, <2>1 DEF Known
<1>8. Known(1)' /\ Known(2)'
  BY <1>6, <1>7
<1> QED
  BY <1>1, <1>4, <1>5, <1>8

-----------------------------------------------------------------------------
(* The steps.                                                               *)

LEMMA InvInit == Init => IInv
<1> SUFFICES ASSUME Init PROVE IInv
  OBVIOUS
<1>1. /\ phase = "convert" /\ converting = 1
      /\ \A k \in 1..2 : index[k] = 0 /\ \A r \in Regs : gpr[k][r] = NotInDict
  BY DEF Init
<1>2. Known(1) /\ Known(2)
  BY <1>1 DEF Known
<1> QED
  BY <1>1, <1>2 DEF IInv, Waiting, InStep, Matching, Ended, EcallLast

\* What has been paired stays paired while only rows without effect are read.
LEMMA PairedStays ==
  ASSUME NEW b, NEW a, csv' = csv, Paired(b, a),
         \A j \in ChangeSet(csv[b]) : j <= Judged(b)' => j <= Judged(b)
  PROVE  Paired(b, a)'
BY DEF Paired

LEMMA KnownStep ==
  ASSUME TypeOK, IInv, Next
  PROVE  Waiting' /\ Known(1)' /\ Known(2)'
<1>0. Waiting /\ Known(1) /\ Known(2)
  BY DEF IInv
<1>1. CASE TakeRow
  <2>1. Known(1)' /\ Known(2)'
    BY <1>0, <1>1, ReadFacts DEF TakeRow
  <2> QED
    BY <1>1, <2>1 DEF TakeRow, Waiting
<1>2. CASE Advance
  <2>1. Known(1)' /\ Known(2)'
    BY <1>0, <1>2, ReadFacts DEF Advance
  <2> QED
    BY <1>2, <2>1 DEF Advance, Waiting
<1>3. CASE Leftover
  <2>1. Known(1)' /\ Known(2)'
    BY <1>0, <1>3, ReadFacts DEF Leftover
  <2> QED
    BY <1>3, <2>1 DEF Leftover, Waiting
<1>4. CASE EndOfTrace1 \/ RunsOut \/ Judge \/ NothingLeft
  <2>1. csv' = csv /\ gpr' = gpr /\ index' = index /\ phase' # "convert"
    BY <1>4 DEF EndOfTrace1, RunsOut, Judge, NothingLeft
  <2> QED
    BY <1>0, <2>1 DEF Known, Waiting
<1>5. CASE ReadLine \/ EndOfLog
  <2>1. phase = "convert" /\ gpr' = gpr /\ index' = index
    BY <1>5 DEF ReadLine, EndOfLog
  <2>2. \A k \in 1..2 : index'[k] = 0 /\ \A r \in Regs : gpr'[k][r] = NotInDict
    BY <1>0, <2>1 DEF Waiting
  <2>3. Known(1)' /\ Known(2)'
    BY <2>2 DEF Known
  <2> QED
    BY <2>2, <2>3 DEF Waiting
<1> QED
  BY <1>1, <1>2, <1>3, <1>4, <1>5 DEF Next

LEMMA TakeRowStep ==
  ASSUME TypeOK, IInv, TakeRow
  PROVE  InStep' /\ Matching' /\ Ended'
<1>1. /\ phase = "compare" /\ mismatch' = mismatch
      /\ phase' = IF NextIsChange(1) THEN "advance" ELSE "compare"
      /\ csv' = csv /\ index'[1] = index[1] + 1 /\ index'[1] \in 1..Len(csv[1])
      /\ index'[2] = index[2]
      /\ NextIsChange(1) <=> index'[1] \in ChangeSet(csv[1])
      /\ Rank(csv[1], index'[1]) =
           IF NextIsChange(1) THEN Rank(csv[1], index[1]) + 1 ELSE Rank(csv[1], index[1])
  <2>1. index[1] < Len(csv[1]) /\ ReadRow(1) /\ Known(1) /\ Known(2)
    BY DEF TakeRow, IInv
  <2>2. \A j \in 1..2 : j # 1 => index'[j] = index[j]
    BY <2>1, ReadFacts
  <2> QED
    BY <2>1, <2>2, ReadFacts DEF TakeRow
<1>2. /\ Rank(csv[1], index[1]) = Rank(csv[2], index[2]) /\ index[2] <= Len(csv[2])
      /\ index[1] \in Nat /\ index[2] \in Nat
  BY <1>1 DEF IInv, InStep, TypeOK
<1>3. InStep'
  BY <1>1, <1>2 DEF InStep
<1>4. Matching'
  <2>1. SUFFICES ASSUME mismatch = 0 PROVE Paired(2, 1)' /\ Paired(1, 2)'
    BY <1>1 DEF Matching
  <2>2. Paired(2, 1) /\ Paired(1, 2)
    BY <1>1, <2>1 DEF IInv, Matching
  <2>3. Judged(1) = index[1] /\ Judged(2) = index[2] /\ Judged(2)' = index[2]
    BY <1>1 DEF Judged
  <2>4. \A j \in ChangeSet(csv[1]) : j <= Judged(1)' => j <= Judged(1)
    <3>1. \A j \in ChangeSet(csv[1]) : j \in Nat
      BY DEF ChangeSet
    <3> QED
      BY <1>1, <1>2, <2>3, <3>1 DEF Judged
  <2> QED
    BY <1>1, <2>2, <2>3, <2>4, PairedStays
<1>5. Ended'
  BY <1>1 DEF Ended
<1> QED
  BY <1>3, <1>4, <1>5

LEMMA AdvanceStep ==
  ASSUME TypeOK, IInv, Advance
  PROVE  InStep' /\ Matching' /\ Ended'
<1>1. /\ phase = "advance" /\ mismatch' = mismatch
      /\ phase' = IF NextIsChange(2) THEN "judge" ELSE "advance"
      /\ csv' = csv /\ index'[2] = index[2] + 1 /\ index'[2] \in 1..Len(csv[2])
      /\ index'[1] = index[1]
      /\ NextIsChange(2) <=> index'[2] \in ChangeSet(csv[2])
      /\ Rank(csv[2], index'[2]) =
           IF NextIsChange(2) THEN Rank(csv[2], index[2]) + 1 ELSE Rank(csv[2], index[2])
  <2>1. index[2] < Len(csv[2]) /\ ReadRow(2) /\ Known(1) /\ Known(2)
    BY DEF Advance, IInv
  <2>2. \A j \in 1..2 : j # 2 => index'[j] = index[j]
    BY <2>1, ReadFacts
  <2> QED
    BY <2>1, <2>2, ReadFacts DEF Advance
<1>2. /\ Rank(csv[1], index[1]) = Rank(csv[2], index[2]) + 1
      /\ index[1] <= Len(csv[1]) /\ index[1] \in ChangeSet(csv[1])
      /\ index[1] \in Nat /\ index[2] \in Nat
      /\ Rank(csv[2], index[2]) \in Nat
  <2>1. index[1] \in Nat /\ index[2] \in Nat
    BY DEF TypeOK
  <2>2. Rank(csv[2], index[2]) \in Nat
    BY <2>1, RankType
  <2> QED
    BY <1>1, <2>1, <2>2 DEF IInv, InStep
<1>3. InStep'
  <2>1. \A k \in 1..2 : index'[k] <= Len(csv'[k])
    BY <1>1, <1>2
  <2> QED
    BY <1>1, <1>2, <2>1 DEF InStep
<1>4. Matching'
  <2>1. SUFFICES ASSUME mismatch = 0 PROVE Paired(2, 1)' /\ Paired(1, 2)'
    BY <1>1 DEF Matching
  <2>2. Paired(2, 1) /\ Paired(1, 2)
    BY <1>1, <2>1 DEF IInv, Matching
  <2>3. Judged(1)' = Judged(1) /\ Judged(2) = index[2]
    BY <1>1 DEF Judged
  <2>4. \A j \in ChangeSet(csv[2]) : j <= Judged(2)' => j <= Judged(2)
    <3>1. \A j \in ChangeSet(csv[2]) : j \in Nat
      BY DEF ChangeSet
    <3>2. CASE NextIsChange(2)
      <4>1. Judged(2)' = index[2]
        BY <1>1, <1>2, <3>2 DEF Judged
      <4> QED
        BY <2>3, <4>1
    <3>3. CASE ~NextIsChange(2)
      <4>1. Judged(2)' = index[2] + 1 /\ index[2] + 1 \notin ChangeSet(csv[2])
        BY <1>1, <1>2, <3>3 DEF Judged
      <4> QED
        BY <1>2, <2>3, <3>1, <4>1
    <3> QED
      BY <3>2, <3>3
  <2> QED
    BY <1>1, <2>2, <2>3, <2>4, PairedStays
<1>5. Ended'
  BY <1>1 DEF Ended
<1> QED
  BY <1>3, <1>4, <1>5

LEMMA JudgeStep ==
  ASSUME TypeOK, IInv, Judge
  PROVE  InStep' /\ Matching' /\ Ended'
<1>1. /\ phase = "judge" /\ csv' = csv /\ index' = index
      /\ phase' = IF index[2] = Len(csv[2]) THEN "left" ELSE "compare"
      /\ mismatch \in Nat
      /\ mismatch' = IF csv[1][index[1]] = csv[2][index[2]] THEN mismatch ELSE mismatch + 1
  BY DEF Judge, TypeOK
<1>2. /\ Rank(csv[1], index[1]) = Rank(csv[2], index[2])
      /\ \A k \in 1..2 : /\ index[k] \in ChangeSet(csv[k]) /\ index[k] <= Len(csv[k])
                         /\ index[k] \in Nat
  BY <1>1 DEF IInv, InStep, TypeOK
<1>3. InStep'
  BY <1>1, <1>2 DEF InStep
<1>4. Matching'
  <2>1. SUFFICES ASSUME mismatch' = 0 PROVE Paired(2, 1)' /\ Paired(1, 2)'
    BY DEF Matching
  <2>2. mismatch = 0 /\ csv[1][index[1]] = csv[2][index[2]]
    BY <1>1, <2>1
  <2>3. Paired(2, 1) /\ Paired(1, 2)
    BY <1>1, <2>2 DEF IInv, Matching
  <2>4. \A k \in 1..2 : Judged(k) = index[k] - 1 /\ Judged(k)' = index[k]
    BY <1>1 DEF Judged
  <2>5. ASSUME NEW b \in 1..2, NEW a \in 1..2, a # b, Paired(b, a) PROVE Paired(b, a)'
    <3>1. ASSUME NEW j \in ChangeSet(csv[b]), j <= index[b]
          PROVE  \E i \in ChangeSet(csv[a]) :
                   Rank(csv[a], i) = Rank(csv[b], j) /\ csv[a][i] = csv[b][j]
      <4>1. CASE j = index[b]
        <5>1. Rank(csv[a], index[a]) = Rank(csv[b], index[b])
              /\ csv[a][index[a]] = csv[b][index[b]] /\ index[a] \in ChangeSet(csv[a])
          BY <1>2, <2>2, <2>5
        <5> QED
          BY <4>1, <5>1
      <4>2. CASE j # index[b]
        <5>1. j \in Nat
          BY DEF ChangeSet
        <5>2. j <= Judged(b)
          BY <1>2, <2>4, <3>1, <4>2, <5>1
        <5> QED
          BY <2>5, <5>2 DEF Paired
      <4> QED
        BY <4>1, <4>2
    <3> QED
      BY <1>1, <2>4, <3>1 DEF Paired
  <2> QED
    BY <2>3, <2>5
<1>5. Ended'
  BY <1>1, <1>2 DEF Ended
<1> QED
  BY <1>3, <1>4, <1>5

LEMMA LeftoverStep ==
  ASSUME TypeOK, IInv, Leftover
  PROVE  InStep' /\ Matching' /\ Ended'
<1>1. /\ phase = "left" /\ csv' = csv /\ index[2] < Len(csv[2])
      /\ index'[2] = index[2] + 1 /\ index'[2] \in 1..Len(csv[2])
      /\ index'[1] = index[1]
      /\ NextIsChange(2) <=> index'[2] \in ChangeSet(csv[2])
  <2>1. index[2] < Len(csv[2]) /\ ReadRow(2) /\ Known(1) /\ Known(2)
    BY DEF Leftover, IInv
  <2>2. \A j \in 1..2 : j # 2 => index'[j] = index[j]
    BY <2>1, ReadFacts
  <2> QED
    BY <2>1, <2>2, ReadFacts DEF Leftover
<1>2. index[1] \in Nat /\ index[2] \in Nat /\ index[1] <= Len(csv[1]) /\ mismatch \in Nat
      /\ Len(csv[2]) \in Nat
  BY <1>1 DEF IInv, InStep, TypeOK
<1>3. \A k \in 1..2 : index'[k] <= Len(csv'[k])
  BY <1>1, <1>2
<1>4. CASE NextIsChange(2)
  <2>1. phase' = "done" /\ mismatch' # 0
    BY <1>1, <1>2, <1>4 DEF Leftover
  <2> QED
    BY <1>3, <2>1 DEF InStep, Matching, Ended
<1>5. CASE ~NextIsChange(2)
  <2>1. phase' = "left" /\ mismatch' = mismatch
    BY <1>1, <1>5 DEF Leftover
  <2>2. ASSUME mismatch = 0 PROVE Paired(2, 1)' /\ Paired(1, 2)'
    <3>1. Paired(2, 1) /\ Paired(1, 2)
      BY <1>1, <2>2 DEF IInv, Matching
    <3>2. Judged(1)' = Judged(1) /\ Judged(2) = index[2] /\ Judged(2)' = index[2] + 1
      BY <1>1, <2>1 DEF Judged
    <3>3. \A j \in ChangeSet(csv[2]) : j <= Judged(2)' => j <= Judged(2)
      <4>1. \A j \in ChangeSet(csv[2]) : j \in Nat /\ j # index[2] + 1
        BY <1>1, <1>5 DEF ChangeSet
      <4> QED
        BY <1>2, <3>2, <4>1
    <3> QED
      BY <1>1, <3>1, <3>2, <3>3, PairedStays
  <2>3. Ended'
    BY <1>1, <2>1 DEF IInv, Ended
  <2> QED
    BY <1>3, <2>1, <2>2, <2>3 DEF InStep, Matching
<1> QED
  BY <1>4, <1>5

LEMMA QuietStep ==
  ASSUME TypeOK, IInv, EndOfTrace1 \/ RunsOut \/ NothingLeft
  PROVE  InStep' /\ Matching' /\ Ended'
<1>1. csv' = csv /\ index' = index /\ mismatch \in Nat /\ phase' \in {"left", "done"}
  BY DEF EndOfTrace1, RunsOut, NothingLeft, TypeOK
<1>2. \A k \in 1..2 : index[k] <= Len(csv[k])
  BY DEF EndOfTrace1, RunsOut, NothingLeft, IInv, InStep
<1>3. InStep'
  BY <1>1, <1>2 DEF InStep
<1>4. CASE RunsOut
  <2>1. mismatch' # 0
    BY <1>1, <1>4 DEF RunsOut
  <2> QED
    BY <1>3, <2>1 DEF Matching, Ended
<1>5. CASE EndOfTrace1 \/ NothingLeft
  <2>1. mismatch' = mismatch /\ Judged(1)' = Judged(1) /\ Judged(2)' = Judged(2)
    BY <1>1, <1>5 DEF EndOfTrace1, NothingLeft, Judged
  <2>2. ASSUME mismatch = 0 PROVE Paired(2, 1)' /\ Paired(1, 2)'
    <3>1. Paired(2, 1) /\ Paired(1, 2)
      BY <1>5, <2>2 DEF EndOfTrace1, NothingLeft, IInv, Matching
    <3> QED
      BY <1>1, <2>1, <3>1, PairedStays
  <2>3. Ended'
    BY <1>1, <1>5, <2>1 DEF EndOfTrace1, NothingLeft, IInv, Ended
  <2> QED
    BY <1>3, <2>1, <2>2, <2>3 DEF Matching
<1> QED
  BY <1>4, <1>5

LEMMA ConvertStep ==
  ASSUME TypeOK, IInv, ReadLine \/ EndOfLog
  PROVE  InStep' /\ Matching' /\ Ended'
<1>1. /\ phase = "convert" /\ index' = index
      /\ phase' \in {"convert", "compare", "exited"}
  BY DEF ReadLine, EndOfLog
<1>2. index'[1] = 0 /\ index'[2] = 0
  BY <1>1 DEF IInv, Waiting
<1>3. \A k \in 1..2 : csv'[k] \in Seq(Row) /\ ChangeSet(csv'[k]) \cap 1..0 = {}
  <2>1. TypeOK'
    BY TypeStep DEF Next
  <2> QED
    BY <2>1 DEF TypeOK
<1>4. InStep'
  <2>1. Rank(csv'[1], 0) = Rank(csv'[2], 0)
    BY <1>3 DEF Rank, Place
  <2>2. \A k \in 1..2 : index'[k] <= Len(csv'[k])
    <3>1. \A k \in 1..2 : Len(csv'[k]) \in Nat
      BY <1>3
    <3> QED
      BY <1>2, <3>1
  <2> QED
    BY <1>1, <1>2, <2>1, <2>2 DEF InStep
<1>5. Matching'
  <2>1. \A k \in 1..2 : phase' = "compare" => Judged(k)' = 0
    BY <1>2 DEF Judged
  <2>2. \A k \in 1..2 : \A j \in ChangeSet(csv'[k]) : j \in Nat /\ j > 0
    BY DEF ChangeSet
  <2>3. phase' = "compare" => Paired(2, 1)' /\ Paired(1, 2)'
    BY <2>1, <2>2 DEF Paired
  <2> QED
    BY <1>1, <2>3 DEF Matching
<1>6. Ended'
  BY <1>1 DEF Ended
<1> QED
  BY <1>4, <1>5, <1>6

\* A spike log: three lines of boot code, two for each instruction, the ecall
\* and the line after it.
LEMMA SpikeLog ==
  ASSUME TypeOK, iss[2] = "spike"
  PROVE  /\ Log(2) \in Seq(Line) /\ Len(Log(2)) \in Nat /\ Len(Log(2)) >= 5
         /\ Log(2)[1].kind # "boot" /\ Log(2)[2].kind # "boot" /\ Log(2)[3].kind = "boot"
         /\ Log(2)[Len(Log(2)) - 1].kind = "ecall"
<1>1. /\ Log(2) \in Seq(Line) /\ Len(Log(2)) \in Nat
      /\ Len(Log(2)) = Len(BootLines(iss[2])) + 2 * Len(execution.run[2]) + 2
      /\ Log(2)[Len(Log(2)) - 1] = NoGprLine("ecall")
      /\ \A n \in 1..Len(BootLines(iss[2])) : Log(2)[n] = BootLines(iss[2])[n]
  <2>1. 2 \in 1..2
    OBVIOUS
  <2> QED
    BY <2>1, LogLines, Zenon
<1> DEFINE b == <<NoGprLine("instr"), BootWrite, NoGprLine("boot")>>
<1>2. BootLines(iss[2]) = b
  BY DEF BootLines
<1>3. Len(b) = 3 /\ b[1] = NoGprLine("instr") /\ b[2] = BootWrite /\ b[3] = NoGprLine("boot")
  OBVIOUS
<1>4. Len(execution.run[2]) \in Nat
  BY DEF TypeOK
<1> HIDE DEF b
<1>5. Log(2)[1] = NoGprLine("instr") /\ Log(2)[2] = BootWrite /\ Log(2)[3] = NoGprLine("boot")
  <2>1. Len(BootLines(iss[2])) = 3
    BY <1>2, <1>3
  <2>2. \A n \in 1..3 : Log(2)[n] = b[n]
    BY <1>1, <1>2, <2>1
  <2>3. 1 \in 1..3 /\ 2 \in 1..3 /\ 3 \in 1..3
    OBVIOUS
  <2>4. Log(2)[1] = b[1] /\ Log(2)[2] = b[2] /\ Log(2)[3] = b[3]
    BY <2>2, <2>3, Zenon
  <2> QED
    BY <1>3, <2>4
<1> QED
  BY <1>1, <1>2, <1>3, <1>4, <1>5 DEF NoGprLine, BootWrite

LEMMA EcallReadLine ==
  ASSUME TypeOK, EcallLast, ReadLine
  PROVE  EcallLast'
<1>1. /\ phase = "convert" /\ phase' = "convert" /\ iss' = iss /\ execution' = execution
      /\ converting' = converting /\ line' = line + 1
      /\ reader.state # "stop" /\ line < Len(Log(converting))
      /\ reader' = NextLine(iss[converting], reader, Log(converting)[line + 1])
      /\ line \in Nat /\ reader \in Reader
  BY DEF ReadLine, TypeOK
<1>2. SUFFICES ASSUME iss[2] = "spike", Whole(2), converting = 2
               PROVE  /\ reader'.state = "boot" <=> line' < 3
                      /\ reader'.state = "stop" => reader'.hand = "ecall" /\ reader'.gpr = NoGpr
                      /\ line' >= Len(Log(2)') - 1 => reader'.state = "stop"
  BY <1>1 DEF EcallLast, Whole
<1> DEFINE l == Log(2)[line + 1]
           n == Len(Log(2))
<1>3. Log(2)' = Log(2)
  BY <1>1 DEF Log
<1>4. /\ n \in Nat /\ n >= 5 /\ Log(2)[1].kind # "boot" /\ Log(2)[2].kind # "boot"
      /\ Log(2)[3].kind = "boot" /\ Log(2)[n - 1].kind = "ecall"
  BY <1>2, SpikeLog
<1>5. /\ reader.state = "boot" <=> line < 3
      /\ line >= n - 1 => reader.state = "stop"
  BY <1>1, <1>2 DEF EcallLast
<1>6. reader' = SpikeLine(reader, l)
  BY <1>1, <1>2 DEF NextLine
<1>7. Yield(reader).state = reader.state /\ Yield(reader).gpr = NoGpr
  BY <1>1 DEF Yield, Reader
<1>8. reader.state \in {"boot", "run"}
  BY <1>1 DEF Reader
<1> HIDE DEF l, n
<1>9. CASE reader.state = "boot"
  <2>0. line < 3
    BY <1>5, <1>9
  <2>1. line < 3 /\ reader'.state = AfterBoot(l)
    <3>1. reader' = [reader EXCEPT !.state = AfterBoot(l)]
      BY <1>6, <1>9 DEF SpikeLine
    <3> QED
      BY <1>1, <2>0, <3>1 DEF Reader
  <2>2. reader'.state = "boot" <=> line + 1 < 3
    <3>1. line = 0 \/ line = 1 \/ line = 2
      BY <1>1, <2>1
    <3> QED
      BY <1>4, <2>1, <3>1 DEF AfterBoot, l
  <2>3. line + 1 < n - 1
    BY <1>1, <1>4, <2>1
  <2> QED
    BY <1>1, <1>3, <1>4, <2>1, <2>2, <2>3 DEF AfterBoot, n
<1>10. CASE reader.state # "boot" /\ IsInstr(l)
  <2>1. /\ reader'.hand = l.kind /\ reader'.state = AfterInstr(l) /\ reader'.gpr = NoGpr
    <3>1. reader' = [Yield(reader) EXCEPT !.hand = l.kind, !.state = AfterInstr(l)]
      BY <1>6, <1>10 DEF SpikeLine, IsInstr
    <3>2. Yield(reader) \in [state : {"boot", "run", "stop"}, hand : Hand, gpr : Row, rows : Seq(Row)]
      BY <1>1, YieldTyped DEF Reader
    <3> QED
      BY <1>7, <3>1, <3>2
  <2>2. line + 1 >= n - 1 => l.kind = "ecall"
    <3>1. line < n - 1
      BY <1>1, <1>4, <1>5
    <3> QED
      BY <1>1, <1>4, <3>1 DEF l
  <2> QED
    BY <1>1, <1>3, <1>5, <1>10, <2>1, <2>2 DEF AfterInstr, n
<1>11. CASE reader.state # "boot" /\ ~IsInstr(l)
  <2>1. reader'.state = "run"
    BY <1>1, <1>6, <1>7, <1>8, <1>11 DEF SpikeLine, IsInstr, Reader
  <2>2. line + 1 < n - 1
    <3>1. line < n - 1 /\ l.kind # "ecall"
      BY <1>1, <1>4, <1>5, <1>11 DEF IsInstr
    <3> QED
      BY <1>1, <1>4, <3>1 DEF l
  <2> QED
    BY <1>1, <1>3, <1>4, <1>5, <1>11, <2>1, <2>2 DEF n
<1> QED
  BY <1>9, <1>10, <1>11

LEMMA EcallEndOfLog ==
  ASSUME TypeOK, EcallLast, EndOfLog
  PROVE  EcallLast'
<1>1. /\ phase = "convert" /\ iss' = iss /\ execution' = execution
      /\ reader.state = "stop" \/ line = Len(Log(converting)) \/ converting \in execution.killed
      /\ csv' = [csv EXCEPT ![converting] = FinalRows(iss[converting], reader)]
      /\ converting \in 1..2 /\ line \in Nat /\ reader \in Reader
      /\ csv \in [1..2 -> Seq(Row)]
  BY DEF EndOfLog, TypeOK
<1>2. SUFFICES ASSUME iss[2] = "spike", Whole(2)
      PROVE  /\ phase' = "convert" /\ converting' = 2 =>
                  /\ reader'.state = "boot" <=> line' < 3
                  /\ reader'.state = "stop" => reader'.hand = "ecall" /\ reader'.gpr = NoGpr
                  /\ line' >= Len(Log(2)') - 1 => reader'.state = "stop"
             /\ phase' \notin {"convert", "exited"} =>
                  csv'[2] # <<>> /\ csv'[2][Len(csv'[2])] = NoGpr
  BY <1>1 DEF EcallLast, Whole
<1>3. Log(2)' = Log(2) /\ Len(Log(2)) \in Nat /\ Len(Log(2)) >= 5
  BY <1>1, <1>2, SpikeLog DEF Log
<1>4. CASE phase' = "exited"
  BY <1>4
<1>5. CASE phase' # "exited" /\ converting = 1
  <2>1. phase' = "convert" /\ line' = 0 /\ reader' = Start("spike")
    BY <1>1, <1>2, <1>5 DEF EndOfLog
  <2>2. reader'.state = "boot"
    BY <2>1 DEF Start
  <2>3. ~(line' >= Len(Log(2)') - 1)
    BY <1>3, <2>1
  <2> QED
    BY <1>3, <2>1, <2>2, <2>3
<1>6. CASE phase' # "exited" /\ converting = 2
  <2>1. phase' = "compare"
    BY <1>1, <1>6 DEF EndOfLog
  <2>2. reader.state = "stop"
    BY <1>1, <1>2, <1>3, <1>6 DEF EcallLast, Whole
  <2>3. reader.hand = "ecall" /\ reader.gpr = NoGpr
    BY <1>1, <1>2, <1>6, <2>2 DEF EcallLast
  <2>4. FinalRows("spike", reader) = Append(reader.rows, NoGpr)
    BY <1>1, <2>3 DEF FinalRows, Yield, Reader
  <2>5. csv'[2] = Append(reader.rows, NoGpr)
    BY <1>1, <1>2, <1>6, <2>4
  <2>6. reader.rows \in Seq(Row)
    BY <1>1 DEF Reader
  <2> QED
    BY <2>1, <2>5, <2>6, NoGprRow
<1> QED
  BY <1>1, <1>4, <1>5, <1>6

LEMMA EcallStep ==
  ASSUME TypeOK, IInv, Next
  PROVE  EcallLast'
<1>0. EcallLast
  BY DEF IInv
<1>1. CASE ReadLine
  BY <1>0, <1>1, EcallReadLine
<1>2. CASE EndOfLog
  BY <1>0, <1>2, EcallEndOfLog
<1>3. CASE \/ TakeRow \/ EndOfTrace1 \/ Advance \/ RunsOut \/ Judge \/ Leftover \/ NothingLeft
  <2>1. /\ phase \notin {"convert", "exited"} /\ phase' \notin {"convert", "exited"}
        /\ iss' = iss /\ execution' = execution /\ csv' = csv
    BY <1>3 DEF TakeRow, EndOfTrace1, Advance, RunsOut, Judge, Leftover, NothingLeft, ReadRow
  <2> QED
    BY <1>0, <2>1 DEF EcallLast, Whole
<1> QED
  BY <1>1, <1>2, <1>3 DEF Next

-----------------------------------------------------------------------------
(* The converters keep the register writes.                                 *)

\* f matches the places S of the rows with the places T of w, in order.
Matches(f, rows, S, w, T) ==
  /\ \A t \in T : \E s \in S : f[s] = t
  /\ \A i, j \in S : i < j => f[i] < f[j]
  /\ \A s \in S : rows[s] = w[f[s]]

\* The writes in the rows are those of the first q instructions.
Faithful(rows, w, q) ==
  \E f \in [WriteSet(rows) -> WriteSet(w) \cap 1..q] :
    Matches(f, rows, WriteSet(rows), w, WriteSet(w) \cap 1..q)

\* q instructions have been read.  Spike's converter has the last in hand, the
\* one of ovpsim its row.
Between(i, st, w, q) ==
  /\ st.state = "run"
  /\ i = "spike" => Faithful(Yield(st).rows, w, q)
  /\ i = "sail" => Faithful(st.rows, w, q)
  /\ i = "ovpsim" =>
       IF q = 0 THEN st.hand = "none" /\ st.rows = <<>>
       ELSE st.hand # "none" /\ st.gpr = w[q] /\ Faithful(st.rows, w, q - 1)

\* One more has been found, and its effect comes next.
InHand(i, st, w, q) ==
  /\ st.state = "run" /\ st.hand # "none"
  /\ i # "sail" => st.gpr = NoGpr
  /\ Faithful(st.rows, w, q)

ReaderOk(i, r, st, l) ==
  LET boot == Len(BootLines(i))
      w    == Shown(i, Written(r))
  IN \/ l < boot /\ st.state = "boot" /\ st.hand = "none" /\ st.rows = <<>>
     \/ \E q \in 0..Len(r) : l = boot + 2 * q /\ Between(i, st, w, q)
     \/ \E q \in 0..(Len(r) - 1) : l = boot + 2 * q + 1 /\ InHand(i, st, w, q)
     \/ /\ l = boot + 2 * Len(r) + 1 /\ st.state = "stop"
        /\ Faithful(FinalRows(i, st), w, Len(r))

Reading ==
  phase = "convert" =>
    ReaderOk(iss[converting], execution.run[converting], reader, line)

Exact(k) ==
  \E q \in 0..Len(execution.run[k]) :
    /\ Faithful(csv[k], Shown(iss[k], Written(execution.run[k])), q)
    /\ Whole(k) => q = Len(execution.run[k])

Converted ==
  /\ phase = "convert" /\ converting = 2 => Exact(1)
  /\ phase \notin {"convert", "exited"} => Exact(1) /\ Exact(2)

ConvInv == Reading /\ Converted

LEMMA RowKinds ==
  ASSUME NEW x \in Row
  PROVE  /\ x.reg = NoReg => x = NoGpr
         /\ x.reg # NoReg => x.reg \in Regs /\ x.val \in Vals
         /\ NoGpr.reg = NoReg
BY RegsAssumption DEF Row, NoGpr

LEMMA FaithfulNone ==
  ASSUME NEW w
  PROVE  Faithful(<<>>, w, 0)
<1>1. WriteSet(<<>>) = {} /\ WriteSet(w) \cap 1..0 = {}
  BY DEF WriteSet
<1> DEFINE f == [s \in {} |-> 0]
<1>2. f \in [{} -> {}] /\ Matches(f, <<>>, {}, w, {})
  BY DEF Matches
<1> HIDE DEF f
<1> QED
  BY <1>1, <1>2 DEF Faithful

LEMMA FaithfulSkip ==
  ASSUME NEW rows, NEW w, NEW q \in Nat, Faithful(rows, w, q), q + 1 \notin WriteSet(w)
  PROVE  Faithful(rows, w, q + 1)
<1>1. WriteSet(w) \cap 1..(q + 1) = WriteSet(w) \cap 1..q
  OBVIOUS
<1> QED
  BY <1>1 DEF Faithful

LEMMA AppendWrites ==
  ASSUME NEW rows \in Seq(Row), NEW x \in Row
  PROVE  /\ Append(rows, x) \in Seq(Row) /\ Len(rows) \in Nat
         /\ \A s \in 1..Len(rows) : Append(rows, x)[s] = rows[s]
         /\ Append(rows, x)[Len(rows) + 1] = x
         /\ WriteSet(rows) \subseteq 1..Len(rows)
         /\ x.reg = NoReg => WriteSet(Append(rows, x)) = WriteSet(rows)
         /\ x.reg # NoReg =>
              WriteSet(Append(rows, x)) = WriteSet(rows) \cup {Len(rows) + 1}
<1>1. /\ Append(rows, x) \in Seq(Row) /\ Len(Append(rows, x)) = Len(rows) + 1
      /\ \A s \in 1..Len(rows) : Append(rows, x)[s] = rows[s]
      /\ Append(rows, x)[Len(rows) + 1] = x /\ Len(rows) \in Nat
  OBVIOUS
<1>2. \A s \in 1..(Len(rows) + 1) : s \in 1..Len(rows) \/ s = Len(rows) + 1
  BY <1>1
<1> QED
  BY <1>1, <1>2 DEF WriteSet

LEMMA FaithfulBlank ==
  ASSUME NEW rows \in Seq(Row), NEW w, NEW q, Faithful(rows, w, q)
  PROVE  Faithful(Append(rows, NoGpr), w, q)
<1>1. /\ WriteSet(Append(rows, NoGpr)) = WriteSet(rows)
      /\ \A s \in WriteSet(rows) : Append(rows, NoGpr)[s] = rows[s]
  BY AppendWrites, NoGprRow, RowKinds
<1>2. PICK f \in [WriteSet(rows) -> WriteSet(w) \cap 1..q] :
        Matches(f, rows, WriteSet(rows), w, WriteSet(w) \cap 1..q)
  BY DEF Faithful
<1>3. Matches(f, Append(rows, NoGpr), WriteSet(rows), w, WriteSet(w) \cap 1..q)
  BY <1>1, <1>2 DEF Matches
<1> QED
  BY <1>1, <1>3 DEF Faithful

LEMMA FaithfulWrite ==
  ASSUME NEW rows \in Seq(Row), NEW w \in Seq(Row), NEW q \in Nat,
         q + 1 \in WriteSet(w), Faithful(rows, w, q)
  PROVE  Faithful(Append(rows, w[q + 1]), w, q + 1)
<1> DEFINE x == w[q + 1]
           n == Len(rows) + 1
           S == WriteSet(rows)
           T == WriteSet(w) \cap 1..q
<1>1. x \in Row /\ x.reg # NoReg
  BY DEF WriteSet
<1>2. /\ \A s \in 1..Len(rows) : Append(rows, x)[s] = rows[s]
      /\ Append(rows, x)[n] = x /\ Len(rows) \in Nat
      /\ S \subseteq 1..Len(rows) /\ WriteSet(Append(rows, x)) = S \cup {n}
  BY <1>1, AppendWrites
<1>3. PICK f \in [S -> T] : Matches(f, rows, S, w, T)
  BY DEF Faithful
<1>4. WriteSet(w) \cap 1..(q + 1) = T \cup {q + 1}
  OBVIOUS
<1>5. n \notin S /\ q + 1 \notin T /\ (\A s \in S : s \in Nat /\ s < n)
      /\ \A t \in T : t \in Nat /\ t < q + 1
  BY <1>2
<1> HIDE DEF n, S, T, x
<1> DEFINE g == [s \in S \cup {n} |-> IF s = n THEN q + 1 ELSE f[s]]
<1>6. g \in [S \cup {n} -> T \cup {q + 1}] /\ g[n] = q + 1
      /\ \A s \in S : g[s] = f[s] /\ f[s] \in T
  BY <1>3, <1>5
<1> HIDE DEF g
<1>7. \A t \in T \cup {q + 1} : \E s \in S \cup {n} : g[s] = t
  BY <1>3, <1>6 DEF Matches
<1>8. ASSUME NEW i \in S \cup {n}, NEW j \in S \cup {n}, i < j PROVE g[i] < g[j]
  <2>1. i \in S
    BY <1>2, <1>5, <1>8 DEF n
  <2>2. CASE j \in S
    BY <1>3, <1>6, <1>8, <2>1, <2>2 DEF Matches
  <2>3. CASE j = n
    BY <1>5, <1>6, <2>1, <2>3
  <2> QED
    BY <2>2, <2>3
<1>9. ASSUME NEW s \in S \cup {n} PROVE Append(rows, x)[s] = w[g[s]]
  <2>1. CASE s \in S
    BY <1>2, <1>3, <1>6, <2>1 DEF Matches
  <2>2. CASE s = n
    BY <1>2, <1>6, <2>2 DEF x
  <2> QED
    BY <2>1, <2>2
<1>10. Matches(g, Append(rows, x), S \cup {n}, w, T \cup {q + 1})
  BY <1>7, <1>8, <1>9 DEF Matches
<1> QED
  BY <1>2, <1>4, <1>6, <1>10 DEF Faithful, x

\* The row of the next instruction is put behind the others.
LEMMA FaithfulRow ==
  ASSUME NEW rows \in Seq(Row), NEW w \in Seq(Row), NEW q \in Nat,
         q + 1 \in 1..Len(w), Faithful(rows, w, q)
  PROVE  /\ Faithful(Append(rows, w[q + 1]), w, q + 1)
         /\ w[q + 1] = NoGpr => Faithful(rows, w, q + 1)
<1>1. w[q + 1] \in Row
  OBVIOUS
<1>2. CASE w[q + 1].reg # NoReg
  <2>1. q + 1 \in WriteSet(w)
    BY <1>2 DEF WriteSet
  <2>2. w[q + 1] # NoGpr
    BY <1>1, <1>2, RowKinds
  <2> QED
    BY <2>1, <2>2, FaithfulWrite
<1>3. CASE w[q + 1].reg = NoReg
  <2>1. q + 1 \notin WriteSet(w) /\ w[q + 1] = NoGpr
    BY <1>1, <1>3, RowKinds DEF WriteSet
  <2>2. Faithful(rows, w, q + 1)
    BY <2>1, FaithfulSkip
  <2> QED
    BY <2>1, <2>2, FaithfulBlank
<1> QED
  BY <1>2, <1>3

LEMMA ShownRows ==
  ASSUME NEW i, NEW r \in Seq(Effect)
  PROVE  /\ Written(r) \in Seq(Row) /\ Len(Written(r)) = Len(r) /\ Len(r) \in Nat
         /\ Shown(i, Written(r)) \in Seq(Row) /\ Len(Shown(i, Written(r))) = Len(r)
         /\ \A n \in 1..Len(r) :
              /\ r[n].kind \in {"instr", "wfi", "trap"} /\ r[n].gpr \in Row
              /\ r[n].kind = "trap" => r[n].gpr = NoGpr
              /\ Written(r)[n] = r[n].gpr
              /\ Shown(i, Written(r))[n] =
                   IF i = "ovpsim" /\ ~Changes(Written(r), n) THEN NoGpr ELSE r[n].gpr
<1>1. ASSUME NEW n \in 1..Len(r)
      PROVE  /\ r[n].kind \in {"instr", "wfi", "trap"} /\ r[n].gpr \in Row
             /\ r[n].kind = "trap" => r[n].gpr = NoGpr
  <2>1. r[n] \in Effect
    OBVIOUS
  <2> QED
    BY <2>1, NoGprRow DEF Effect
<1>2. Len(r) \in Nat
  OBVIOUS
<1> DEFINE g == Written(r)
<1>3. g \in Seq(Row) /\ Len(g) = Len(r) /\ \A n \in 1..Len(r) : g[n] = r[n].gpr
  <2>1. g = [n \in 1..Len(r) |-> r[n].gpr]
    BY DEF Written
  <2> HIDE DEF g
  <2> QED
    BY <1>1, <1>2, <2>1
<1> HIDE DEF g
<1>4. CASE i = "ovpsim"
  <2> DEFINE h == [n \in 1..Len(r) |-> IF Changes(g, n) THEN g[n] ELSE NoGpr]
  <2>1. Shown(i, g) = h
    BY <1>3, <1>4 DEF Shown
  <2>2. \A n \in 1..Len(r) : h[n] = IF Changes(g, n) THEN r[n].gpr ELSE NoGpr
    BY <1>3
  <2>3. \A n \in 1..Len(r) : h[n] \in Row
    BY <1>1, <2>2, NoGprRow
  <2>4. h \in Seq(Row) /\ Len(h) = Len(r)
    BY <1>2, <2>3
  <2> HIDE DEF h
  <2> QED
    BY <1>1, <1>2, <1>3, <1>4, <2>1, <2>2, <2>4 DEF g
<1>5. CASE i # "ovpsim"
  <2>1. Shown(i, g) = g
    BY <1>5 DEF Shown
  <2> QED
    BY <1>1, <1>2, <1>3, <1>5, <2>1 DEF g
<1> QED
  BY <1>4, <1>5

\* A line that shows x as an instruction's effect, if there is anything to show.
EffectOf(entry, x) ==
  /\ entry.kind \in {"trap", "write", "other"}
  /\ entry.kind = "write" => entry.gpr = x
  /\ entry.kind # "write" => x = NoGpr

LEMMA EffectShown ==
  ASSUME NEW i, NEW r \in Seq(Effect), NEW n \in 1..Len(r)
  PROVE  /\ EffectOf(EffectLine(i, r, n), Shown(i, Written(r))[n])
         /\ InstrLine(r[n]).kind \in {"instr", "wfi"}
<1> DEFINE x == Shown(i, Written(r))[n]
<1>1. /\ r[n].kind \in {"instr", "wfi", "trap"} /\ r[n].gpr \in Row
      /\ r[n].kind = "trap" => r[n].gpr = NoGpr
      /\ Written(r)[n] = r[n].gpr
      /\ x = IF i = "ovpsim" /\ ~Changes(Written(r), n) THEN NoGpr ELSE r[n].gpr
  BY ShownRows
<1>2. r[n].gpr.reg = NoReg => r[n].gpr = NoGpr
  BY <1>1, RowKinds
<1> HIDE DEF x
<1>3. EffectOf(EffectLine(i, r, n), x)
  <2>1. CASE r[n].kind = "trap"
    BY <1>1, <2>1 DEF EffectLine, EffectOf, NoGprLine
  <2>2. CASE /\ r[n].kind # "trap" /\ r[n].gpr.reg # NoReg
             /\ i = "ovpsim" => Changes(Written(r), n)
    BY <1>1, <2>2 DEF EffectLine, EffectOf
  <2>3. CASE /\ r[n].kind # "trap"
             /\ ~(r[n].gpr.reg # NoReg /\ (i = "ovpsim" => Changes(Written(r), n)))
    <3>1. EffectLine(i, r, n) = NoGprLine("other")
      BY <2>3 DEF EffectLine
    <3>2. x = NoGpr
      BY <1>1, <1>2, <2>3
    <3> QED
      BY <3>1, <3>2 DEF EffectOf, NoGprLine
  <2> QED
    BY <2>1, <2>2, <2>3
<1> QED
  BY <1>1, <1>3 DEF InstrLine, NoGprLine, x

\* The lines of a log: boot code, for each instruction its own and its
\* effect's, the ecall.
LEMMA LogParts ==
  ASSUME NEW i, NEW r \in Seq(Effect)
  PROVE  LET boot == Len(BootLines(i))
         IN /\ boot \in Nat /\ Len(r) \in Nat
            /\ Len(LogOf(i, r)) = boot + 2 * Len(r) + 2
            /\ \A n \in 1..boot : LogOf(i, r)[n] = BootLines(i)[n]
            /\ \A q \in 0..(Len(r) - 1) :
                 /\ LogOf(i, r)[boot + 2 * q + 1] = InstrLine(r[q + 1])
                 /\ LogOf(i, r)[boot + 2 * q + 2] = EffectLine(i, r, q + 1)
            /\ LogOf(i, r)[boot + 2 * Len(r) + 1] = NoGprLine("ecall")
<1> DEFINE boot == Len(BootLines(i))
           m == BodyLines(i, r)
           g == LogOf(i, r)
           n == Len(r)
<1>1. /\ boot \in Nat /\ n \in Nat /\ Len(g) = boot + 2 * n + 2
      /\ g[Len(g) - 1] = NoGprLine("ecall")
      /\ \A k \in 1..boot : g[k] = BootLines(i)[k]
      /\ \A k \in 1..(2 * n) : g[boot + k] = m[k]
  BY LogTyped
<1>2. /\ \A k \in 1..(2 * n) : m[k] = IF k % 2 = 1 THEN InstrLine(r[(k + 1) \div 2])
                                     ELSE EffectLine(i, r, k \div 2)
  BY DEF BodyLines
<1> HIDE DEF boot, m, g, n
<1>3. ASSUME NEW q \in 0..(n - 1)
      PROVE  /\ g[boot + 2 * q + 1] = InstrLine(r[q + 1])
             /\ g[boot + 2 * q + 2] = EffectLine(i, r, q + 1)
  <2>1. /\ 2 * q + 1 \in 1..(2 * n) /\ (2 * q + 1) % 2 = 1
        /\ ((2 * q + 1) + 1) \div 2 = q + 1 /\ boot + (2 * q + 1) = boot + 2 * q + 1
    BY <1>1
  <2>2. /\ 2 * q + 2 \in 1..(2 * n) /\ (2 * q + 2) % 2 # 1
        /\ (2 * q + 2) \div 2 = q + 1 /\ boot + (2 * q + 2) = boot + 2 * q + 2
    BY <1>1
  <2>3. g[boot + (2 * q + 1)] = InstrLine(r[q + 1])
    BY <1>1, <1>2, <2>1
  <2>4. g[boot + (2 * q + 2)] = EffectLine(i, r, q + 1)
    BY <1>1, <1>2, <2>2
  <2> QED
    BY <2>1, <2>2, <2>3, <2>4
<1>4. g[boot + 2 * n + 1] = NoGprLine("ecall")
  <2>1. Len(g) - 1 = boot + 2 * n + 1
    BY <1>1
  <2> QED
    BY <1>1, <2>1
<1> QED
  BY <1>1, <1>3, <1>4 DEF boot, g, n

LEMMA YieldRows ==
  ASSUME NEW st \in Reader
  PROVE  /\ Yield(st) \in Reader
         /\ Yield(st).state = st.state /\ Yield(st).hand = "none" /\ Yield(st).gpr = NoGpr
         /\ st.hand = "none" => Yield(st).rows = st.rows
         /\ st.gpr.reg # NoReg /\ st.hand # "none" => Yield(st).rows = Append(st.rows, st.gpr)
         /\ st.gpr = NoGpr =>
              Yield(st).rows = st.rows \/ Yield(st).rows = Append(st.rows, NoGpr)
BY YieldTyped, NoGprRow DEF Yield, Reader, NoGpr

\* The boot code leaves no trace.
LEMMA BootRead ==
  ASSUME NEW i \in {"spike", "sail"}, NEW st \in Reader, NEW entry \in Line,
         st.state = "boot", st.hand = "none", st.rows = <<>>,
         entry.kind \in {"instr", "write", "boot"}
  PROVE  /\ NextLine(i, st, entry).hand = "none" /\ NextLine(i, st, entry).rows = <<>>
         /\ NextLine(i, st, entry).state = IF entry.kind = "boot" THEN "run" ELSE "boot"
<1>1. CASE i = "spike"
  <2>1. NextLine(i, st, entry) = [st EXCEPT !.state = AfterBoot(entry)]
    BY <1>1 DEF NextLine, SpikeLine
  <2> QED
    BY <2>1 DEF Reader, AfterBoot
<1>2. CASE i = "sail"
  <2>1. NextLine(i, st, entry) = IF entry.kind = "boot" THEN [st EXCEPT !.state = "run"] ELSE st
    BY <1>2 DEF NextLine, SailLine
  <2> QED
    BY <2>1 DEF Reader
<1> QED
  BY <1>1, <1>2

\* An instruction is found: its predecessor's row is written.
LEMMA InstrRead ==
  ASSUME NEW i \in {"spike", "sail", "ovpsim"}, NEW st \in Reader, NEW entry \in Line,
         NEW w \in Seq(Row), NEW q \in Nat, q <= Len(w),
         Between(i, st, w, q), entry.kind \in {"instr", "wfi"}
  PROVE  InHand(i, NextLine(i, st, entry), w, q)
<1>1. st.state = "run" /\ entry.kind # "none" /\ IsInstr(entry) /\ AfterInstr(entry) = "run"
  BY DEF Between, IsInstr, AfterInstr
<1>2. CASE i = "spike"
  <2>1. NextLine(i, st, entry) = [Yield(st) EXCEPT !.hand = entry.kind, !.state = "run"]
    BY <1>1, <1>2 DEF NextLine, SpikeLine
  <2>2. Faithful(Yield(st).rows, w, q) /\ Yield(st) \in Reader /\ Yield(st).gpr = NoGpr
    BY <1>2, YieldRows DEF Between
  <2>3. /\ NextLine(i, st, entry).state = "run" /\ NextLine(i, st, entry).hand = entry.kind
        /\ NextLine(i, st, entry).gpr = NoGpr
        /\ NextLine(i, st, entry).rows = Yield(st).rows
    BY <2>1, <2>2 DEF Reader
  <2> QED
    BY <1>1, <2>2, <2>3 DEF InHand
<1>3. CASE i = "sail"
  <2>1. NextLine(i, st, entry) = [st EXCEPT !.hand = entry.kind]
    BY <1>1, <1>3 DEF NextLine, SailLine
  <2>2. /\ NextLine(i, st, entry).state = "run" /\ NextLine(i, st, entry).hand = entry.kind
        /\ NextLine(i, st, entry).rows = st.rows
    BY <1>1, <2>1 DEF Reader
  <2> QED
    BY <1>1, <1>3, <2>2 DEF InHand, Between
<1>4. CASE i = "ovpsim"
  <2>1. NextLine(i, st, entry) =
          [st EXCEPT !.rows = IF st.hand = "none" THEN @ ELSE Append(@, st.gpr),
                     !.gpr = NoGpr, !.hand = entry.kind, !.state = "run"]
    BY <1>1, <1>4 DEF NextLine, OvpsimLine
  <2>2. /\ NextLine(i, st, entry).state = "run" /\ NextLine(i, st, entry).hand = entry.kind
        /\ NextLine(i, st, entry).gpr = NoGpr
        /\ NextLine(i, st, entry).rows =
             IF st.hand = "none" THEN st.rows ELSE Append(st.rows, st.gpr)
    BY <2>1 DEF Reader
  <2>3. Faithful(NextLine(i, st, entry).rows, w, q)
    <3>1. CASE q = 0
      BY <1>4, <2>2, <3>1, FaithfulNone DEF Between
    <3>2. CASE q # 0
      <4>1. st.hand # "none" /\ st.gpr = w[q] /\ Faithful(st.rows, w, q - 1)
        BY <1>4, <3>2 DEF Between
      <4>2. /\ q - 1 \in Nat /\ (q - 1) + 1 = q /\ q \in 1..Len(w)
            /\ st.rows \in Seq(Row)
        BY <3>2 DEF Reader
      <4>3. Faithful(Append(st.rows, w[q]), w, q)
        <5>1. Faithful(Append(st.rows, w[(q - 1) + 1]), w, (q - 1) + 1)
          BY <4>1, <4>2, FaithfulRow
        <5> QED
          BY <4>2, <5>1
      <4> QED
        BY <2>2, <4>1, <4>3
    <3> QED
      BY <3>1, <3>2
  <2> QED
    BY <1>1, <2>2, <2>3 DEF InHand
<1> QED
  BY <1>2, <1>3, <1>4

\* Its effect is found.
LEMMA EffectRead ==
  ASSUME NEW i \in {"spike", "sail", "ovpsim"}, NEW st \in Reader, NEW entry \in Line,
         NEW w \in Seq(Row), NEW q \in Nat, q + 1 \in 1..Len(w),
         InHand(i, st, w, q), EffectOf(entry, w[q + 1])
  PROVE  Between(i, NextLine(i, st, entry), w, q + 1)
<1> DEFINE x == w[q + 1]
           new == NextLine(i, st, entry)
<1>1. /\ st.state = "run" /\ st.hand # "none" /\ Faithful(st.rows, w, q)
      /\ st.rows \in Seq(Row) /\ x \in Row
      /\ i # "sail" => st.gpr = NoGpr
  <2>1. /\ st.state = "run" /\ st.hand # "none" /\ Faithful(st.rows, w, q)
        /\ i # "sail" => st.gpr = NoGpr
    BY DEF InHand
  <2>2. st.rows \in Seq(Row) /\ x \in Row
    BY DEF Reader
  <2> QED
    BY <2>1, <2>2
<1>2. /\ entry.kind \in {"trap", "write", "other"} /\ ~IsInstr(entry)
      /\ entry.kind = "write" => entry.gpr = x
      /\ entry.kind # "write" => x = NoGpr
  BY DEF EffectOf, IsInstr
<1>3. /\ Faithful(Append(st.rows, x), w, q + 1)
      /\ x = NoGpr => Faithful(st.rows, w, q + 1)
  BY <1>1, FaithfulRow
<1>4. CASE i = "spike"
  <2>1. CASE entry.kind = "write"
    <3>1. new = [st EXCEPT !.gpr = x]
      BY <1>1, <1>2, <1>4, <2>1 DEF NextLine, SpikeLine
    <3>2. /\ new.state = "run" /\ new.hand = st.hand /\ new.gpr = x
          /\ new.rows = st.rows /\ new \in Reader
      BY <1>1, <3>1 DEF Reader
    <3>3. CASE x.reg # NoReg
      <4>1. Yield(new).rows = Append(st.rows, x)
        BY <1>1, <3>2, <3>3, YieldRows
      <4> QED
        BY <1>3, <1>4, <3>2, <4>1 DEF Between
    <3>4. CASE x.reg = NoReg
      <4>1. x = NoGpr
        BY <1>1, <3>4, RowKinds
      <4>2. Yield(new).rows = st.rows \/ Yield(new).rows = Append(st.rows, NoGpr)
        BY <3>2, <4>1, YieldRows
      <4> QED
        BY <1>3, <1>4, <3>2, <4>1, <4>2 DEF Between
    <3> QED
      BY <3>3, <3>4
  <2>2. CASE entry.kind # "write"
    <3>1. new = st \/ new = Yield(st)
      BY <1>1, <1>2, <1>4, <2>2 DEF NextLine, SpikeLine
    <3>2. Yield(st).rows = st.rows \/ Yield(st).rows = Append(st.rows, NoGpr)
      BY <1>1, <1>4, YieldRows
    <3>3. Yield(Yield(st)).rows = Yield(st).rows /\ Yield(st).state = "run"
      BY <1>1, YieldRows
    <3>4. Yield(new).rows = Yield(st).rows /\ new.state = "run"
      BY <1>1, <3>1, <3>3
    <3> QED
      BY <1>2, <1>3, <1>4, <2>2, <3>2, <3>4 DEF Between
  <2> QED
    BY <2>1, <2>2
<1>5. CASE i = "sail"
  <2>1. new = IF entry.kind = "write" THEN [st EXCEPT !.hand = "none", !.rows = Append(@, x)]
              ELSE st
    BY <1>1, <1>2, <1>5 DEF NextLine, SailLine
  <2>2. /\ new.state = "run"
        /\ new.rows = IF entry.kind = "write" THEN Append(st.rows, x) ELSE st.rows
    BY <1>1, <2>1 DEF Reader
  <2> QED
    BY <1>2, <1>3, <1>5, <2>2 DEF Between
<1>6. CASE i = "ovpsim"
  <2>1. new = IF entry.kind = "write" THEN [st EXCEPT !.gpr = x] ELSE st
    BY <1>1, <1>2, <1>6 DEF NextLine, OvpsimLine
  <2>2. new.state = "run" /\ new.hand # "none" /\ new.gpr = x /\ new.rows = st.rows
    BY <1>1, <1>2, <1>6, <2>1 DEF Reader
  <2>3. q + 1 # 0 /\ (q + 1) - 1 = q
    OBVIOUS
  <2> QED
    BY <1>1, <1>6, <2>2, <2>3 DEF Between
<1> QED
  BY <1>4, <1>5, <1>6

\* The ecall ends the reading with all writes in the rows.
LEMMA EcallRead ==
  ASSUME NEW i \in {"spike", "sail", "ovpsim"}, NEW st \in Reader, NEW entry \in Line,
         NEW w \in Seq(Row), NEW q \in Nat, q <= Len(w),
         Between(i, st, w, q), entry.kind = "ecall"
  PROVE  /\ NextLine(i, st, entry).state = "stop"
         /\ Faithful(FinalRows(i, NextLine(i, st, entry)), w, q)
<1> DEFINE new == NextLine(i, st, entry)
<1>1. st.state = "run" /\ IsInstr(entry) /\ AfterInstr(entry) = "stop"
  BY DEF Between, IsInstr, AfterInstr
<1>2. CASE i = "spike"
  <2>1. new = [Yield(st) EXCEPT !.hand = "ecall", !.state = "stop"]
    BY <1>1, <1>2 DEF NextLine, SpikeLine
  <2>2. Faithful(Yield(st).rows, w, q) /\ Yield(st) \in Reader /\ Yield(st).gpr = NoGpr
    BY <1>2, YieldRows DEF Between
  <2>3. /\ new.state = "stop" /\ new.gpr = NoGpr /\ new.rows = Yield(st).rows
        /\ new \in Reader
    BY <2>1, <2>2 DEF Reader, Hand
  <2>4. Yield(new).rows = new.rows \/ Yield(new).rows = Append(new.rows, NoGpr)
    BY <2>3, YieldRows
  <2>5. new.rows \in Seq(Row)
    BY <2>3 DEF Reader
  <2> QED
    BY <1>2, <2>2, <2>3, <2>4, <2>5, FaithfulBlank DEF FinalRows
<1>3. CASE i = "sail"
  <2>1. new = [st EXCEPT !.state = "stop"]
    BY <1>1, <1>3 DEF NextLine, SailLine
  <2>2. new.state = "stop" /\ new.rows = st.rows
    BY <2>1 DEF Reader
  <2> QED
    BY <1>3, <2>2 DEF FinalRows, Between
<1>4. CASE i = "ovpsim"
  <2>1. new = [st EXCEPT !.rows = IF st.hand = "none" THEN @ ELSE Append(@, st.gpr),
                         !.gpr = NoGpr, !.hand = entry.kind, !.state = "stop"]
    BY <1>1, <1>4 DEF NextLine, OvpsimLine
  <2>2. /\ new.state = "stop"
        /\ new.rows = IF st.hand = "none" THEN st.rows ELSE Append(st.rows, st.gpr)
    BY <2>1 DEF Reader
  <2>3. Faithful(new.rows, w, q)
    <3>1. CASE q = 0
      BY <1>4, <2>2, <3>1, FaithfulNone DEF Between
    <3>2. CASE q # 0
      <4>1. st.hand # "none" /\ st.gpr = w[q] /\ Faithful(st.rows, w, q - 1)
        BY <1>4, <3>2 DEF Between
      <4>2. /\ q - 1 \in Nat /\ (q - 1) + 1 = q /\ q \in 1..Len(w)
            /\ st.rows \in Seq(Row)
        BY <3>2 DEF Reader
      <4>3. Faithful(Append(st.rows, w[(q - 1) + 1]), w, (q - 1) + 1)
        BY <4>1, <4>2, FaithfulRow
      <4> QED
        BY <2>2, <4>1, <4>2, <4>3
    <3> QED
      BY <3>1, <3>2
  <2> QED
    BY <1>4, <2>2, <2>3 DEF FinalRows
<1> QED
  BY <1>2, <1>3, <1>4

\* Wherever a log ends, the rows have the writes of what was run.
LEMMA CutRead ==
  ASSUME NEW i \in {"spike", "sail", "ovpsim"}, NEW st \in Reader,
         NEW w \in Seq(Row), NEW q \in Nat, q <= Len(w),
         Between(i, st, w, q) \/ InHand(i, st, w, q)
  PROVE  \E p \in 0..Len(w) : Faithful(FinalRows(i, st), w, p)
<1>1. st.rows \in Seq(Row) /\ q \in 0..Len(w)
  BY DEF Reader
<1>2. CASE InHand(i, st, w, q)
  <2>1. Faithful(st.rows, w, q) /\ Faithful(Append(st.rows, NoGpr), w, q)
    BY <1>1, <1>2, FaithfulBlank DEF InHand
  <2>2. i = "spike" => Yield(st).rows = st.rows \/ Yield(st).rows = Append(st.rows, NoGpr)
    BY <1>2, YieldRows DEF InHand
  <2> QED
    BY <1>1, <2>1, <2>2 DEF FinalRows
<1>3. CASE Between(i, st, w, q)
  <2>1. CASE i # "ovpsim"
    BY <1>1, <1>3, <2>1 DEF FinalRows, Between
  <2>2. CASE i = "ovpsim" /\ q = 0
    <3>1. FinalRows(i, st) = <<>> /\ 0 \in 0..Len(w)
      BY <1>1, <1>3, <2>2 DEF FinalRows, Between
    <3> QED
      BY <3>1, FaithfulNone
  <2>3. CASE i = "ovpsim" /\ q # 0
    <3>1. q - 1 \in 0..Len(w)
      BY <1>1, <2>3
    <3>2. Faithful(FinalRows(i, st), w, q - 1)
      BY <1>3, <2>3 DEF FinalRows, Between
    <3> QED
      BY <3>1, <3>2
  <2> QED
    BY <2>1, <2>2, <2>3
<1> QED
  BY <1>2, <1>3

LEMMA BootOf ==
  ASSUME NEW i \in {"spike", "sail", "ovpsim"}
  PROVE  /\ i = "ovpsim" => Len(BootLines(i)) = 0
         /\ i # "ovpsim" =>
              /\ Len(BootLines(i)) = 3
              /\ BootLines(i)[1].kind = "instr" /\ BootLines(i)[2].kind = "write"
              /\ BootLines(i)[3].kind = "boot"
<1>1. CASE i = "ovpsim"
  BY <1>1 DEF BootLines
<1>2. CASE i # "ovpsim"
  <2> DEFINE boot == <<NoGprLine("instr"), BootWrite, NoGprLine("boot")>>
  <2>1. BootLines(i) = boot
    BY <1>2 DEF BootLines
  <2>2. /\ Len(boot) = 3 /\ boot[1] = NoGprLine("instr") /\ boot[2] = BootWrite
        /\ boot[3] = NoGprLine("boot")
    OBVIOUS
  <2>3. /\ NoGprLine("instr").kind = "instr" /\ BootWrite.kind = "write"
        /\ NoGprLine("boot").kind = "boot"
    BY DEF NoGprLine, BootWrite
  <2> HIDE DEF boot
  <2> QED
    BY <1>2, <2>1, <2>2, <2>3
<1> QED
  BY <1>1, <1>2

LEMMA ReaderStart ==
  ASSUME NEW i \in {"spike", "sail", "ovpsim"}, NEW r \in Seq(Effect)
  PROVE  ReaderOk(i, r, Start(i), 0)
<1>1. /\ Start(i).hand = "none" /\ Start(i).rows = <<>>
      /\ Start(i).state = IF i = "ovpsim" THEN "run" ELSE "boot"
  BY DEF Start
<1>2. CASE i = "ovpsim"
  <2>1. Between(i, Start(i), Shown(i, Written(r)), 0)
    BY <1>1, <1>2 DEF Between
  <2>2. 0 \in 0..Len(r) /\ 0 = Len(BootLines(i)) + 2 * 0
    BY <1>2, BootOf
  <2> QED
    BY <2>1, <2>2 DEF ReaderOk
<1>3. CASE i # "ovpsim"
  <2>1. 0 < Len(BootLines(i))
    BY <1>3, BootOf
  <2> QED
    BY <1>1, <1>3, <2>1 DEF ReaderOk
<1> QED
  BY <1>2, <1>3

LEMMA ReaderStep ==
  ASSUME NEW i \in {"spike", "sail", "ovpsim"}, NEW r \in Seq(Effect), NEW st \in Reader,
         NEW l \in Nat, ReaderOk(i, r, st, l), st.state # "stop", l < Len(LogOf(i, r))
  PROVE  ReaderOk(i, r, NextLine(i, st, LogOf(i, r)[l + 1]), l + 1)
<1> DEFINE boot == Len(BootLines(i))
           n == Len(r)
           g == LogOf(i, r)
           w == Shown(i, Written(r))
           new == NextLine(i, st, g[l + 1])
<1>1. /\ boot \in Nat /\ n \in Nat /\ Len(g) = boot + 2 * n + 2
      /\ \A k \in 1..boot : g[k] = BootLines(i)[k]
      /\ \A q \in 0..(n - 1) : /\ g[boot + 2 * q + 1] = InstrLine(r[q + 1])
                               /\ g[boot + 2 * q + 2] = EffectLine(i, r, q + 1)
      /\ g[boot + 2 * n + 1] = NoGprLine("ecall")
  BY LogParts
<1>2. w \in Seq(Row) /\ Len(w) = n
  BY ShownRows
<1>3. g[l + 1] \in Line
  <2>1. g \in Seq(Line)
    BY LogTyped
  <2> QED
    BY <2>1
<1>4. \/ l < boot /\ st.state = "boot" /\ st.hand = "none" /\ st.rows = <<>>
      \/ \E q \in 0..n : l = boot + 2 * q /\ Between(i, st, w, q)
      \/ \E q \in 0..(n - 1) : l = boot + 2 * q + 1 /\ InHand(i, st, w, q)
  BY DEF ReaderOk
<1>5. SUFFICES \/ l + 1 < boot /\ new.state = "boot" /\ new.hand = "none" /\ new.rows = <<>>
               \/ \E q \in 0..n : l + 1 = boot + 2 * q /\ Between(i, new, w, q)
               \/ \E q \in 0..(n - 1) : l + 1 = boot + 2 * q + 1 /\ InHand(i, new, w, q)
               \/ /\ l + 1 = boot + 2 * n + 1 /\ new.state = "stop"
                  /\ Faithful(FinalRows(i, new), w, n)
  BY DEF ReaderOk
<1> HIDE DEF boot, n, g, w, new
<1>6. CASE l < boot /\ st.state = "boot" /\ st.hand = "none" /\ st.rows = <<>>
  <2>1. i \in {"spike", "sail"} /\ boot = 3
    <3>1. i # "ovpsim"
      BY <1>1, <1>6, BootOf DEF boot
    <3> QED
      BY <3>1, BootOf DEF boot
  <2>2. l + 1 \in 1..boot /\ (l = 0 \/ l = 1 \/ l = 2)
    BY <1>1, <1>6, <2>1
  <2>3. g[l + 1].kind = IF l = 0 THEN "instr" ELSE IF l = 1 THEN "write" ELSE "boot"
    BY <1>1, <2>1, <2>2, BootOf
  <2>4. /\ new.hand = "none" /\ new.rows = <<>>
        /\ new.state = IF g[l + 1].kind = "boot" THEN "run" ELSE "boot"
    BY <1>3, <1>6, <2>1, <2>2, <2>3, BootRead DEF new
  <2>5. CASE l = 2
    <3>1. new.state = "run" /\ new \in Reader
      <4>1. new \in Reader
        BY <1>3, ReaderTyped DEF new
      <4> QED
        BY <2>3, <2>4, <2>5, <4>1
    <3>2. Yield(new).rows = <<>>
      BY <2>4, <3>1, YieldRows
    <3>3. Between(i, new, w, 0)
      BY <2>1, <2>4, <3>1, <3>2, FaithfulNone DEF Between
    <3>4. 0 \in 0..n /\ l + 1 = boot + 2 * 0
      BY <1>1, <2>1, <2>5
    <3> QED
      BY <3>3, <3>4
  <2>6. CASE l # 2
    BY <2>1, <2>2, <2>3, <2>4, <2>6
  <2> QED
    BY <2>5, <2>6
<1>7. ASSUME NEW q \in 0..n, l = boot + 2 * q, Between(i, st, w, q), q < n
      PROVE  \E p \in 0..(n - 1) : l + 1 = boot + 2 * p + 1 /\ InHand(i, new, w, p)
  <2>1. q \in Nat /\ q \in 0..(n - 1) /\ q + 1 \in 1..n /\ q <= Len(w)
    BY <1>1, <1>2, <1>7
  <2>2. g[l + 1] = InstrLine(r[q + 1])
    BY <1>1, <1>7, <2>1
  <2>3. g[l + 1].kind \in {"instr", "wfi"}
    BY <2>1, <2>2, EffectShown DEF n
  <2>4. InHand(i, new, w, q)
    BY <1>2, <1>3, <1>7, <2>1, <2>3, InstrRead DEF new
  <2> QED
    BY <1>7, <2>1, <2>4
<1>8. ASSUME NEW q \in 0..n, l = boot + 2 * q, Between(i, st, w, q), q = n
      PROVE  /\ l + 1 = boot + 2 * n + 1 /\ new.state = "stop"
             /\ Faithful(FinalRows(i, new), w, n)
  <2>1. q \in Nat /\ q <= Len(w) /\ l + 1 = boot + 2 * n + 1
    BY <1>1, <1>2, <1>8
  <2>2. g[l + 1].kind = "ecall"
    BY <1>1, <2>1 DEF NoGprLine
  <2> QED
    BY <1>2, <1>3, <1>8, <2>1, <2>2, EcallRead DEF new
<1>9. ASSUME NEW q \in 0..(n - 1), l = boot + 2 * q + 1, InHand(i, st, w, q)
      PROVE  \E p \in 0..n : l + 1 = boot + 2 * p /\ Between(i, new, w, p)
  <2>1. q \in Nat /\ q + 1 \in 1..n /\ q + 1 \in 0..n /\ l + 1 = boot + 2 * q + 2
        /\ l + 1 = boot + 2 * (q + 1)
    BY <1>1, <1>9
  <2>2. g[l + 1] = EffectLine(i, r, q + 1)
    BY <1>1, <2>1
  <2>3. EffectOf(g[l + 1], w[q + 1])
    BY <2>1, <2>2, EffectShown DEF n, w
  <2>4. Between(i, new, w, q + 1)
    BY <1>2, <1>3, <1>9, <2>1, <2>3, EffectRead DEF new
  <2> QED
    BY <2>1, <2>4
<1>10. CASE \E q \in 0..n : l = boot + 2 * q /\ Between(i, st, w, q)
  <2>1. PICK q \in 0..n : l = boot + 2 * q /\ Between(i, st, w, q)
    BY <1>10
  <2>2. q < n \/ q = n
    BY <1>1
  <2> QED
    BY <1>7, <1>8, <2>1, <2>2
<1>11. CASE \E q \in 0..(n - 1) : l = boot + 2 * q + 1 /\ InHand(i, st, w, q)
  BY <1>9, <1>11
<1> QED
  BY <1>4, <1>6, <1>10, <1>11

LEMMA ReaderEnd ==
  ASSUME NEW i \in {"spike", "sail", "ovpsim"}, NEW r \in Seq(Effect), NEW st \in Reader,
         NEW l \in Nat, ReaderOk(i, r, st, l)
  PROVE  \E p \in 0..Len(r) :
           /\ Faithful(FinalRows(i, st), Shown(i, Written(r)), p)
           /\ st.state = "stop" \/ l = Len(LogOf(i, r)) => p = Len(r)
<1> DEFINE boot == Len(BootLines(i))
           n == Len(r)
           w == Shown(i, Written(r))
<1>1. boot \in Nat /\ n \in Nat /\ Len(LogOf(i, r)) = boot + 2 * n + 2
  BY LogParts
<1>2. w \in Seq(Row) /\ Len(w) = n
  BY ShownRows
<1>3. \/ l < boot /\ st.state = "boot" /\ st.hand = "none" /\ st.rows = <<>>
      \/ \E q \in 0..n : l = boot + 2 * q /\ Between(i, st, w, q)
      \/ \E q \in 0..(n - 1) : l = boot + 2 * q + 1 /\ InHand(i, st, w, q)
      \/ st.state = "stop" /\ Faithful(FinalRows(i, st), w, n)
  BY DEF ReaderOk
<1> HIDE DEF boot, n, w
<1>4. CASE l < boot /\ st.state = "boot" /\ st.hand = "none" /\ st.rows = <<>>
  <2>1. Yield(st).rows = <<>>
    BY <1>4, YieldRows
  <2>2. Faithful(FinalRows(i, st), w, 0)
    BY <1>4, <2>1, FaithfulNone DEF FinalRows
  <2>3. 0 \in 0..n /\ l # Len(LogOf(i, r)) /\ st.state # "stop"
    BY <1>1, <1>4
  <2> QED
    BY <2>2, <2>3 DEF n, w
<1>5. ASSUME NEW q \in Nat, q <= n, l < boot + 2 * n + 2,
             Between(i, st, w, q) \/ InHand(i, st, w, q)
      PROVE  \E p \in 0..n : /\ Faithful(FinalRows(i, st), w, p)
                             /\ st.state # "stop" /\ l # Len(LogOf(i, r))
  <2>1. \E p \in 0..Len(w) : Faithful(FinalRows(i, st), w, p)
    BY <1>2, <1>5, CutRead
  <2>2. st.state = "run" /\ l # Len(LogOf(i, r))
    BY <1>1, <1>5 DEF Between, InHand
  <2> QED
    BY <1>2, <2>1, <2>2
<1>6. CASE \E q \in 0..n : l = boot + 2 * q /\ Between(i, st, w, q)
  <2>1. PICK q \in 0..n : l = boot + 2 * q /\ Between(i, st, w, q)
    BY <1>6
  <2>2. q \in Nat /\ q <= n /\ l < boot + 2 * n + 2
    BY <1>1, <2>1
  <2> QED
    BY <1>5, <2>1, <2>2 DEF n, w
<1>7. CASE \E q \in 0..(n - 1) : l = boot + 2 * q + 1 /\ InHand(i, st, w, q)
  <2>1. PICK q \in 0..(n - 1) : l = boot + 2 * q + 1 /\ InHand(i, st, w, q)
    BY <1>7
  <2>2. q \in Nat /\ q <= n /\ l < boot + 2 * n + 2
    BY <1>1, <2>1
  <2> QED
    BY <1>5, <2>1, <2>2 DEF n, w
<1>8. CASE st.state = "stop" /\ Faithful(FinalRows(i, st), w, n)
  <2>1. n \in 0..n
    BY <1>1
  <2> QED
    BY <1>8, <2>1 DEF n, w
<1> QED
  BY <1>3, <1>4, <1>6, <1>7, <1>8

LEMMA ConvReadLine ==
  ASSUME TypeOK, ConvInv, ReadLine
  PROVE  ConvInv'
<1>1. /\ phase = "convert" /\ phase' = "convert" /\ iss' = iss /\ execution' = execution
      /\ converting' = converting /\ line' = line + 1 /\ csv' = csv
      /\ reader.state # "stop" /\ line < Len(Log(converting))
      /\ reader' = NextLine(iss[converting], reader, Log(converting)[line + 1])
  BY DEF ReadLine
<1>2. /\ line \in Nat /\ reader \in Reader /\ converting \in 1..2
      /\ execution.run[converting] \in Seq(Effect)
      /\ iss[converting] \in {"spike", "sail", "ovpsim"}
  BY IssNames DEF TypeOK
<1>3. ReaderOk(iss[converting], execution.run[converting], reader, line)
  BY <1>1 DEF ConvInv, Reading
<1>4. Log(converting) = LogOf(iss[converting], execution.run[converting])
  BY DEF Log
<1>5. ReaderOk(iss[converting], execution.run[converting], reader', line')
  BY <1>1, <1>2, <1>3, <1>4, ReaderStep
<1>6. Reading'
  BY <1>1, <1>5 DEF Reading
<1>7. Converted'
  BY <1>1 DEF ConvInv, Converted, Exact, Whole
<1> QED
  BY <1>6, <1>7 DEF ConvInv

LEMMA ConvEndOfLog ==
  ASSUME TypeOK, ConvInv, EndOfLog
  PROVE  ConvInv'
<1> DEFINE i == iss[converting]
           r == execution.run[converting]
           w == Shown(i, Written(r))
<1>1. /\ phase = "convert" /\ iss' = iss /\ execution' = execution
      /\ reader.state = "stop" \/ line = Len(Log(converting)) \/ converting \in execution.killed
      /\ csv' = [csv EXCEPT ![converting] = FinalRows(iss[converting], reader)]
      /\ converting \in 1..2 /\ line \in Nat /\ reader \in Reader
      /\ csv \in [1..2 -> Seq(Row)]
  BY DEF EndOfLog, TypeOK
<1>2. r \in Seq(Effect) /\ i \in {"spike", "sail", "ovpsim"}
      /\ \A k \in 1..2 : execution.run[k] \in Seq(Effect)
                         /\ iss[k] \in {"spike", "sail", "ovpsim"}
  BY <1>1, IssNames DEF TypeOK
<1>3. ReaderOk(i, r, reader, line)
  BY <1>1 DEF ConvInv, Reading
<1>4. PICK p \in 0..Len(r) :
        /\ Faithful(FinalRows(i, reader), w, p)
        /\ reader.state = "stop" \/ line = Len(LogOf(i, r)) => p = Len(r)
  BY <1>1, <1>2, <1>3, ReaderEnd
<1>5. csv'[converting] = FinalRows(i, reader)
  BY <1>1
<1>6. \A k \in 1..2 : k = converting => Exact(k)'
  <2>1. Whole(converting) => p = Len(r)
    BY <1>1, <1>4 DEF Whole, Log
  <2>2. Faithful(csv'[converting], w, p)
    BY <1>4, <1>5
  <2>3. \E q \in 0..Len(execution.run[converting]) :
          /\ Faithful(csv'[converting], Shown(iss[converting],
                                              Written(execution.run[converting])), q)
          /\ Whole(converting) => q = Len(execution.run[converting])
    BY <2>1, <2>2
  <2>4. ASSUME NEW k \in 1..2,
               \E q \in 0..Len(execution.run[k]) :
                 /\ Faithful(csv'[k], Shown(iss[k], Written(execution.run[k])), q)
                 /\ Whole(k) => q = Len(execution.run[k])
        PROVE  \E q \in 0..Len(execution'.run[k]) :
                 /\ Faithful(csv'[k], Shown(iss'[k], Written(execution'.run[k])), q)
                 /\ Whole(k)' => q = Len(execution'.run[k])
    BY <1>1, <2>4 DEF Whole
  <2> QED
    BY <2>3, <2>4 DEF Exact
<1>7. ASSUME NEW k \in 1..2, k # converting, Exact(k) PROVE Exact(k)'
  <2>1. csv'[k] = csv[k]
    BY <1>1, <1>7
  <2> QED
    BY <1>1, <1>7, <2>1 DEF Exact, Whole
<1>8. converting = 2 => Exact(1)
  BY <1>1 DEF ConvInv, Converted
<1>9. CASE phase' = "exited"
  BY <1>9 DEF ConvInv, Reading, Converted
<1>10. CASE phase' # "exited" /\ converting = 1
  <2>1. converting' = 2 /\ line' = 0 /\ reader' = Start(iss[2]) /\ phase' = "convert"
    BY <1>1, <1>10 DEF EndOfLog
  <2>2. ReaderOk(iss[2], execution.run[2], Start(iss[2]), 0)
    BY <1>2, ReaderStart
  <2>3. Reading'
    BY <1>1, <2>1, <2>2 DEF Reading
  <2>4. Exact(1)'
    BY <1>6, <1>10
  <2>5. Converted'
    BY <2>1, <2>4 DEF Converted
  <2> QED
    BY <2>3, <2>5 DEF ConvInv
<1>11. CASE phase' # "exited" /\ converting = 2
  <2>1. phase' = "compare"
    BY <1>1, <1>11 DEF EndOfLog
  <2>2. Reading'
    BY <2>1 DEF Reading
  <2>3. Exact(1)' /\ Exact(2)'
    BY <1>6, <1>7, <1>8, <1>11
  <2>4. Converted'
    BY <2>1, <2>3 DEF Converted
  <2> QED
    BY <2>2, <2>4 DEF ConvInv
<1>12. converting = 1 \/ converting = 2
  BY <1>1
<1> QED
  BY <1>9, <1>10, <1>11, <1>12

\* From the conversion on, the rows stay as they are.
LEMMA ConvKeep ==
  ASSUME TypeOK, ConvInv, UNCHANGED <<iss, execution, csv>>,
         phase \notin {"convert", "exited"}, phase' \notin {"convert", "exited"}
  PROVE  ConvInv'
<1>1. Exact(1) /\ Exact(2)
  BY DEF ConvInv, Converted
<1>2. Exact(1)' /\ Exact(2)'
  BY <1>1 DEF Exact, Whole
<1> QED
  BY <1>2 DEF ConvInv, Converted, Reading

LEMMA ConvStep == TypeOK /\ ConvInv /\ [Next]_vars => ConvInv'
<1> SUFFICES ASSUME TypeOK, ConvInv, [Next]_vars PROVE ConvInv'
  OBVIOUS
<1>1. CASE ReadLine
  BY <1>1, ConvReadLine
<1>2. CASE EndOfLog
  BY <1>2, ConvEndOfLog
<1>3. CASE TakeRow \/ EndOfTrace1 \/ Advance \/ RunsOut \/ Judge
  BY <1>3, ConvKeep DEF TakeRow, EndOfTrace1, Advance, RunsOut, Judge, ReadRow
<1>4. CASE Leftover \/ NothingLeft
  BY <1>4, ConvKeep DEF Leftover, NothingLeft, ReadRow
<1>5. CASE UNCHANGED vars
  BY <1>5 DEF vars, ConvInv, Reading, Converted, Exact, Whole
<1> QED
  BY <1>1, <1>2, <1>3, <1>4, <1>5 DEF Next

LEMMA ConvInit == Init => ConvInv
<1> SUFFICES ASSUME Init PROVE ConvInv
  OBVIOUS
<1>1. TypeOK
  BY TypeInit
<1>2. iss[1] \in {"spike", "sail", "ovpsim"} /\ execution.run[1] \in Seq(Effect)
  BY <1>1, IssNames DEF TypeOK
<1>3. ReaderOk(iss[1], execution.run[1], Start(iss[1]), 0)
  BY <1>2, ReaderStart
<1> QED
  BY <1>3 DEF Init, ConvInv, Reading, Converted

LEMMA ConvInvariance == Spec => [](TypeOK /\ ConvInv)
<1>1. Init => TypeOK /\ ConvInv
  BY TypeInit, ConvInit
<1>2. TypeOK /\ ConvInv /\ [Next]_vars => (TypeOK /\ ConvInv)'
  BY TypeStep, ConvStep
<1> QED
  BY <1>1, <1>2, PTL DEF Spec


-----------------------------------------------------------------------------
(* What is matched in order stands at the same places.                      *)

\* f counts off the elements of T with those of S.
Counts(f, S, T) ==
  /\ f \in [S -> T]
  /\ \A t \in T : \E s \in S : f[s] = t
  /\ \A i, j \in S : i < j => f[i] < f[j]

LEMMA CountsBijection ==
  ASSUME NEW S \in SUBSET Nat, NEW T \in SUBSET Nat, NEW f, Counts(f, S, T)
  PROVE  ExistsBijection(S, T)
<1>1. f \in [S -> T] /\ \A t \in T : \E s \in S : f[s] = t
  BY DEF Counts
<1>2. ASSUME NEW i \in S, NEW j \in S, f[i] = f[j] PROVE i = j
  <2>1. i \in Nat /\ j \in Nat /\ f[i] \in Nat /\ f[j] \in Nat
    BY <1>1
  <2>2. ~(i < j) /\ ~(j < i)
    BY <1>2, <2>1 DEF Counts
  <2> QED
    BY <2>1, <2>2
<1>3. f \in Injection(S, T) /\ f \in Surjection(S, T)
  BY <1>1, <1>2 DEF Injection, IsInjective, Surjection
<1> QED
  BY <1>3 DEF Bijection, ExistsBijection

LEMMA CountsCard ==
  ASSUME NEW S \in SUBSET Nat, NEW T \in SUBSET Nat, NEW f, Counts(f, S, T), IsFiniteSet(S)
  PROVE  Cardinality(S) = Cardinality(T)
BY CountsBijection, FS_Bijection

LEMMA SamePlace ==
  ASSUME NEW S \in SUBSET (Nat \ {0}), NEW T \in SUBSET (Nat \ {0}), NEW f,
         Counts(f, S, T), NEW s \in S
  PROVE  Place(S, s) = Place(T, f[s])
<1> DEFINE A == S \cap 1..s
           B == T \cap 1..f[s]
           g == [i \in A |-> f[i]]
<1>1. s \in Nat /\ f \in [S -> T] /\ f[s] \in Nat
  BY DEF Counts
<1>2. ASSUME NEW i \in A PROVE f[i] \in B
  <2>1. i \in S /\ i \in Nat /\ (i = s \/ i < s)
    BY <1>1
  <2>2. f[i] \in T /\ f[i] \in Nat /\ f[i] # 0
    BY <1>1, <2>1
  <2>3. f[i] <= f[s]
    <3>1. CASE i = s
      BY <1>1, <3>1
    <3>2. CASE i < s
      <4>1. f[i] < f[s]
        BY <2>1, <3>2 DEF Counts
      <4> QED
        BY <1>1, <2>2, <4>1
    <3> QED
      BY <2>1, <3>1, <3>2
  <2> QED
    BY <1>1, <2>2, <2>3
<1>3. ASSUME NEW t \in B PROVE \E i \in A : g[i] = t
  <2>1. PICK i \in S : f[i] = t
    BY DEF Counts
  <2>2. i \in Nat /\ i # 0 /\ t \in Nat /\ t <= f[s]
    BY <1>1
  <2>3. ~(s < i)
    <3>1. s < i => f[s] < f[i]
      BY DEF Counts
    <3> QED
      BY <1>1, <2>1, <2>2, <3>1
  <2>4. i \in A
    BY <1>1, <2>2, <2>3
  <2> QED
    BY <2>1, <2>4
<1>4. ASSUME NEW i \in A, NEW j \in A, i < j PROVE g[i] < g[j]
  BY <1>4 DEF Counts
<1>5. g \in [A -> B]
  BY <1>2
<1> HIDE DEF g
<1>6. Counts(g, A, B)
  BY <1>3, <1>4, <1>5 DEF Counts
<1>7. IsFiniteSet(A)
  <2>1. IsFiniteSet(1..s)
    BY <1>1, FS_Interval
  <2>2. A \in SUBSET (1..s)
    OBVIOUS
  <2> QED
    BY <2>1, <2>2, FS_Subset
<1>8. A \in SUBSET Nat /\ B \in SUBSET Nat
  OBVIOUS
<1> QED
  BY <1>6, <1>7, <1>8, CountsCard DEF Place

LEMMA WriteSetFinite ==
  ASSUME NEW w, Len(w) \in Nat
  PROVE  IsFiniteSet(WriteSet(w)) /\ WriteSet(w) \in SUBSET (Nat \ {0})
<1>1. IsFiniteSet(1..Len(w)) /\ WriteSet(w) \in SUBSET (1..Len(w))
  BY FS_Interval DEF WriteSet
<1> QED
  BY <1>1, FS_Subset

\* What ConversionExact says follows from the match.
LEMMA FaithfulExact ==
  ASSUME NEW rows \in Seq(Row), NEW w \in Seq(Row), NEW q \in 0..Len(w), Faithful(rows, w, q)
  PROVE  /\ \A j \in WriteSet(rows) : \E n \in WriteSet(w) :
              Place(WriteSet(rows), j) = Place(WriteSet(w), n) /\ rows[j] = w[n]
         /\ q = Len(w) => Cardinality(WriteSet(rows)) = Cardinality(WriteSet(w))
<1> DEFINE S == WriteSet(rows)
           T == WriteSet(w) \cap 1..q
<1>1. PICK f \in [S -> T] : Matches(f, rows, S, w, T)
  BY DEF Faithful
<1>2. /\ IsFiniteSet(S) /\ S \in SUBSET (Nat \ {0})
      /\ WriteSet(w) \in SUBSET (Nat \ {0}) /\ WriteSet(w) \in SUBSET (1..Len(w))
      /\ Len(w) \in Nat /\ q \in Nat
  <2>1. Len(rows) \in Nat /\ Len(w) \in Nat
    OBVIOUS
  <2> QED
    BY <2>1, WriteSetFinite DEF WriteSet
<1>3. T \in SUBSET (Nat \ {0})
  BY <1>2
<1> HIDE DEF S, T
<1>4. Counts(f, S, T)
  BY <1>1 DEF Counts, Matches
<1>5. ASSUME NEW j \in S
      PROVE  \E n \in WriteSet(w) : Place(S, j) = Place(WriteSet(w), n) /\ rows[j] = w[n]
  <2>1. Place(S, j) = Place(T, f[j]) /\ rows[j] = w[f[j]] /\ f[j] \in T
    BY <1>1, <1>2, <1>3, <1>4, SamePlace DEF Matches
  <2>2. f[j] \in WriteSet(w) /\ f[j] \in Nat /\ f[j] <= q
    BY <1>2, <2>1 DEF T
  <2>3. T \cap 1..f[j] = WriteSet(w) \cap 1..f[j]
    BY <1>2, <2>2 DEF T
  <2> QED
    BY <2>1, <2>2, <2>3 DEF Place
<1>6. q = Len(w) => Cardinality(S) = Cardinality(WriteSet(w))
  <2>1. Cardinality(S) = Cardinality(T)
    <3>1. S \in SUBSET Nat /\ T \in SUBSET Nat
      BY <1>2, <1>3
    <3> QED
      BY <1>2, <1>4, <3>1, CountsCard
  <2>2. q = Len(w) => T = WriteSet(w)
    BY <1>2 DEF T
  <2> QED
    BY <2>1, <2>2
<1> QED
  BY <1>5, <1>6 DEF S

-----------------------------------------------------------------------------
(* The changes of the registers, whatever is shown of a run.                *)

\* The first of a set of natural numbers.
LEMMA Smallest ==
  ASSUME NEW S \in SUBSET Nat, S # {}
  PROVE  \E m \in S : \A n \in S : m <= n
<1>1. PICK m \in S : \A n \in S : ~(<<n, m>> \in OpToRel(<, Nat))
  BY NatLessThanWellFounded, WFMin
<1>2. ASSUME NEW n \in S PROVE m <= n
  <2>1. <<n, m>> \in Nat \X Nat /\ <<n, m>>[1] = n /\ <<n, m>>[2] = m
    OBVIOUS
  <2>2. ~(n < m)
    BY <1>1, <2>1 DEF OpToRel
  <2> QED
    BY <2>2
<1> QED
  BY <1>2

\* Register r holds v before row n of w.
Holds(w, n, r, v) ==
  \/ \E m \in 1..(n - 1) : LastWrite(w, n, r, m) /\ w[m].val = v
  \/ (\A m \in 1..(n - 1) : w[m].reg # r) /\ v = 0

LEMMA HoldsNext ==
  ASSUME NEW w \in Seq(Row), NEW n \in 1..Len(w), NEW r, NEW v
  PROVE  /\ w[n].reg = r /\ v = w[n].val => Holds(w, n + 1, r, v)
         /\ w[n].reg # r /\ Holds(w, n, r, v) => Holds(w, n + 1, r, v)
<1>1. n \in Nat /\ (n + 1) - 1 = n /\ n \in 1..n
  OBVIOUS
<1>2. \A m \in 1..n : m = n \/ m \in 1..(n - 1)
  BY <1>1
<1>3. ASSUME w[n].reg = r, v = w[n].val PROVE Holds(w, n + 1, r, v)
  <2>1. LastWrite(w, n + 1, r, n)
    BY <1>1, <1>3 DEF LastWrite
  <2> QED
    BY <1>1, <1>3, <2>1 DEF Holds
<1>4. ASSUME w[n].reg # r, NEW m \in 1..(n - 1), LastWrite(w, n, r, m), w[m].val = v
      PROVE  Holds(w, n + 1, r, v)
  <2>1. m \in Nat /\ m \in 1..n
    BY <1>1
  <2>2. ASSUME NEW l \in (m + 1)..n PROVE w[l].reg # r
    <3>1. l = n \/ l \in (m + 1)..(n - 1)
      BY <1>1, <2>1
    <3> QED
      BY <1>4, <3>1 DEF LastWrite
  <2>3. LastWrite(w, n + 1, r, m)
    BY <1>1, <1>4, <2>1, <2>2 DEF LastWrite
  <2> QED
    BY <1>1, <1>4, <2>1, <2>3 DEF Holds
<1>5. ASSUME w[n].reg # r, \A m \in 1..(n - 1) : w[m].reg # r, v = 0
      PROVE  Holds(w, n + 1, r, v)
  <2>1. \A m \in 1..n : w[m].reg # r
    BY <1>2, <1>5
  <2> QED
    BY <1>1, <1>5, <2>1 DEF Holds
<1> QED
  BY <1>3, <1>4, <1>5 DEF Holds

LEMMA HoldsChange ==
  ASSUME NEW w \in Seq(Row), NEW n \in 1..Len(w), w[n].reg # NoReg, NEW v,
         Holds(w, n, w[n].reg, v)
  PROVE  Changes(w, n) <=> w[n].val # v
<1> DEFINE r == w[n].reg
<1>1. n \in Nat
  OBVIOUS
<1>2. ASSUME NEW m \in 1..(n - 1), LastWrite(w, n, r, m), w[m].val = v
      PROVE  Changes(w, n) <=> w[n].val # v
  <2>1. w[n].val # v => Changes(w, n)
    BY <1>2 DEF Changes
  <2>2. ~(\A k \in 1..(n - 1) : w[k].reg # r)
    BY <1>2 DEF LastWrite
  <2>3. ASSUME NEW k \in 1..(n - 1), LastWrite(w, n, r, k) PROVE k = m
    <3>1. k \in Nat /\ m \in Nat /\ w[k].reg = r /\ w[m].reg = r
      BY <1>2, <2>3 DEF LastWrite
    <3>2. ~(m < k)
      <4>1. m < k => k \in (m + 1)..(n - 1)
        BY <1>1, <3>1
      <4> QED
        BY <1>2, <3>1, <4>1 DEF LastWrite
    <3>3. ~(k < m)
      <4>1. k < m => m \in (k + 1)..(n - 1)
        BY <1>1, <3>1
      <4> QED
        BY <2>3, <3>1, <4>1 DEF LastWrite
    <3> QED
      BY <3>1, <3>2, <3>3
  <2> QED
    BY <1>2, <2>1, <2>2, <2>3 DEF Changes
<1>3. ASSUME \A m \in 1..(n - 1) : w[m].reg # r, v = 0
      PROVE  Changes(w, n) <=> w[n].val # v
  <2>1. \A m \in 1..(n - 1) : ~LastWrite(w, n, r, m)
    BY <1>3 DEF LastWrite
  <2> QED
    BY <1>3, <2>1 DEF Changes
<1> QED
  BY <1>2, <1>3 DEF Holds

\* What ovpsim shows of a run leaves the registers as the run does.
LEMMA ShownState ==
  ASSUME NEW w \in Seq(Row), NEW g \in Seq(Row), Len(g) = Len(w),
         \A n \in 1..Len(w) : g[n] = IF Changes(w, n) THEN w[n] ELSE NoGpr,
         NEW r \in Regs
  PROVE  \A n \in 1..(Len(w) + 1) : \E v : Holds(w, n, r, v) /\ Holds(g, n, r, v)
<1> DEFINE Same(n) == \E v : Holds(w, n, r, v) /\ Holds(g, n, r, v)
           Bad == {n \in 1..(Len(w) + 1) : ~Same(n)}
<1>1. Len(w) \in Nat /\ r # NoReg
  BY RegsAssumption
<1>2. Same(1)
  <2>1. 1..(1 - 1) = {}
    OBVIOUS
  <2>2. Holds(w, 1, r, 0) /\ Holds(g, 1, r, 0)
    BY <2>1 DEF Holds
  <2> QED
    BY <2>2
<1>3. ASSUME NEW n \in 1..Len(w), Same(n) PROVE Same(n + 1)
  <2>1. PICK v : Holds(w, n, r, v) /\ Holds(g, n, r, v)
    BY <1>3
  <2>2. g[n] = IF Changes(w, n) THEN w[n] ELSE NoGpr
    OBVIOUS
  <2>3. n \in 1..Len(g)
    OBVIOUS
  <2>4. CASE w[n].reg = r /\ Changes(w, n)
    <3>1. g[n] = w[n]
      BY <2>2, <2>4
    <3>2. Holds(w, n + 1, r, w[n].val)
      BY <2>4, HoldsNext
    <3>3. Holds(g, n + 1, r, w[n].val)
      BY <2>3, <2>4, <3>1, HoldsNext
    <3> QED
      BY <3>2, <3>3
  <2>5. CASE w[n].reg = r /\ ~Changes(w, n)
    <3>1. w[n].val = v
      BY <1>1, <2>1, <2>5, HoldsChange
    <3>2. Holds(w, n + 1, r, v)
      BY <2>5, <3>1, HoldsNext
    <3>3. g[n].reg # r
      BY <1>1, <2>2, <2>5 DEF NoGpr
    <3>4. Holds(g, n + 1, r, v)
      BY <2>1, <2>3, <3>3, HoldsNext
    <3> QED
      BY <3>2, <3>4
  <2>6. CASE w[n].reg # r
    <3>1. g[n].reg # r
      BY <1>1, <2>2, <2>6 DEF NoGpr
    <3>2. Holds(w, n + 1, r, v)
      BY <2>1, <2>6, HoldsNext
    <3>3. Holds(g, n + 1, r, v)
      BY <2>1, <2>3, <3>1, HoldsNext
    <3> QED
      BY <3>2, <3>3
  <2> QED
    BY <2>4, <2>5, <2>6
<1> HIDE DEF Same
<1>4. ASSUME Bad # {} PROVE FALSE
  <2>1. PICK m \in Bad : \A n \in Bad : m <= n
    <3>1. Bad \in SUBSET Nat
      OBVIOUS
    <3> QED
      BY <1>4, <3>1, Smallest
  <2>2. m \in 1..(Len(w) + 1) /\ ~Same(m) /\ m # 1
    BY <1>2
  <2>3. m - 1 \in 1..Len(w) /\ (m - 1) + 1 = m
    BY <1>1, <2>2
  <2>4. ~Same(m - 1)
    BY <1>3, <2>2, <2>3
  <2>5. m - 1 \in Bad /\ ~(m <= m - 1)
    BY <1>1, <2>2, <2>3, <2>4
  <2> QED
    BY <2>1, <2>5
<1> QED
  BY <1>4 DEF Same

LEMMA ShownChanges ==
  ASSUME NEW i, NEW r \in Seq(Effect), NEW n \in 1..Len(r)
  PROVE  /\ Changes(Shown(i, Written(r)), n) <=> Changes(Written(r), n)
         /\ Changes(Written(r), n) => Shown(i, Written(r))[n] = Written(r)[n]
<1> DEFINE w == Written(r)
           g == Shown(i, w)
<1>1. /\ w \in Seq(Row) /\ g \in Seq(Row) /\ Len(w) = Len(r) /\ Len(g) = Len(w)
      /\ \A m \in 1..Len(w) :
           /\ g[m] = IF i = "ovpsim" /\ ~Changes(w, m) THEN NoGpr ELSE w[m]
           /\ w[m] \in Row
  <2>1. /\ w \in Seq(Row) /\ g \in Seq(Row) /\ Len(w) = Len(r) /\ Len(g) = Len(r)
        /\ \A m \in 1..Len(r) :
             /\ g[m] = IF i = "ovpsim" /\ ~Changes(w, m) THEN NoGpr ELSE r[m].gpr
             /\ w[m] = r[m].gpr /\ w[m] \in Row
    BY ShownRows
  <2> QED
    BY <2>1
<1>2. CASE i # "ovpsim"
  <2>1. g = w
    BY <1>2 DEF Shown
  <2> QED
    BY <2>1
<1> HIDE DEF w, g
<1>3. CASE i = "ovpsim"
  <2>1. \A m \in 1..Len(w) : g[m] = IF Changes(w, m) THEN w[m] ELSE NoGpr
    BY <1>1, <1>3
  <2>2. CASE w[n].reg = NoReg
    <3>1. ~Changes(w, n) /\ g[n] = NoGpr
      BY <1>1, <2>1, <2>2 DEF Changes
    <3>2. ~Changes(g, n)
      BY <3>1 DEF Changes, NoGpr
    <3> QED
      BY <3>1, <3>2 DEF w, g
  <2>3. CASE w[n].reg # NoReg
    <3>1. n \in 1..Len(w) /\ n \in 1..Len(g) /\ n \in 1..(Len(w) + 1) /\ w[n].reg \in Regs
      BY <1>1, <2>3 DEF Row
    <3>2. PICK v : Holds(w, n, w[n].reg, v) /\ Holds(g, n, w[n].reg, v)
      <4>1. \A r1 \in Regs : \A m \in 1..(Len(w) + 1) :
              \E v : Holds(w, m, r1, v) /\ Holds(g, m, r1, v)
        BY <1>1, <2>1, ShownState
      <4> QED
        BY <3>1, <4>1
    <3>3. Changes(w, n) <=> w[n].val # v
      BY <1>1, <2>3, <3>1, <3>2, HoldsChange
    <3>4. CASE Changes(w, n)
      <4>1. g[n] = w[n]
        BY <2>1, <3>1, <3>4
      <4>2. Changes(g, n) <=> g[n].val # v
        BY <1>1, <2>3, <3>1, <3>2, <4>1, HoldsChange
      <4> QED
        BY <3>3, <3>4, <4>1, <4>2 DEF w, g
    <3>5. CASE ~Changes(w, n)
      <4>1. g[n] = NoGpr
        BY <2>1, <3>1, <3>5
      <4>2. ~Changes(g, n)
        BY <4>1 DEF Changes, NoGpr
      <4> QED
        BY <3>5, <4>2 DEF w, g
    <3> QED
      BY <3>4, <3>5
  <2> QED
    BY <2>2, <2>3
<1> QED
  BY <1>2, <1>3

\* Rows matched with the writes of w are changes where those are.
LEMMA MatchChanges ==
  ASSUME NEW rows \in Seq(Row), NEW w \in Seq(Row),
         NEW f \in [WriteSet(rows) -> WriteSet(w)],
         Matches(f, rows, WriteSet(rows), w, WriteSet(w)), NEW n \in WriteSet(rows)
  PROVE  Changes(rows, n) <=> Changes(w, f[n])
<1> DEFINE S == WriteSet(rows)
           T == WriteSet(w)
           r == rows[n].reg
<1>1. /\ \A k \in S : k \in 1..Len(rows) /\ k \in Nat /\ rows[k] = w[f[k]] /\ f[k] \in T
      /\ \A t \in T : t \in 1..Len(w) /\ t \in Nat /\ \E k \in S : f[k] = t
      /\ \A i, j \in S : i < j => f[i] < f[j]
      /\ Len(rows) \in Nat /\ Len(w) \in Nat
  <2>1. \A k \in S : k \in 1..Len(rows)
    BY DEF WriteSet
  <2>2. \A t \in T : t \in 1..Len(w)
    BY DEF WriteSet
  <2> QED
    BY <2>1, <2>2 DEF Matches
<1>2. \A i, j \in S : f[i] < f[j] => i < j
  <2> SUFFICES ASSUME NEW i \in S, NEW j \in S, f[i] < f[j] PROVE i < j
    OBVIOUS
  <2>1. i \in Nat /\ j \in Nat /\ f[i] \in Nat /\ f[j] \in Nat
    BY <1>1
  <2>2. ~(j < i) /\ i # j
    <3>1. j < i => f[j] < f[i]
      BY <1>1
    <3> QED
      BY <2>1, <3>1
  <2> QED
    BY <2>1, <2>2
<1>3. r # NoReg /\ w[f[n]].reg = r /\ w[f[n]].val = rows[n].val
  BY <1>1 DEF WriteSet
<1>4. ASSUME NEW m \in 1..Len(rows), rows[m].reg = r PROVE m \in S
  BY <1>3, <1>4 DEF WriteSet
<1>5. ASSUME NEW t \in 1..Len(w), w[t].reg = r PROVE t \in T
  BY <1>3, <1>5 DEF WriteSet
<1> HIDE DEF S, T, r
<1>6. n \in S /\ n \in Nat /\ f[n] \in Nat /\ n <= Len(rows) /\ f[n] <= Len(w)
  BY <1>1 DEF S
<1>7. ASSUME NEW m \in S, LastWrite(rows, n, r, m)
      PROVE  f[m] \in 1..(f[n] - 1) /\ LastWrite(w, f[n], r, f[m])
  <2>1. m \in Nat /\ m < n /\ rows[m].reg = r
        /\ \A l \in (m + 1)..(n - 1) : rows[l].reg # r
    BY <1>1, <1>6, <1>7 DEF LastWrite
  <2>2. f[m] < f[n] /\ f[m] \in 1..Len(w) /\ w[f[m]].reg = r
    BY <1>1, <1>6, <2>1
  <2>3. ASSUME NEW l \in (f[m] + 1)..(f[n] - 1), w[l].reg = r PROVE FALSE
    <3>1. l \in 1..Len(w) /\ f[m] < l /\ l < f[n]
      BY <1>6, <2>2
    <3>2. PICK k \in S : f[k] = l
      BY <1>1, <1>5, <2>3, <3>1
    <3>3. m < k /\ k < n /\ k \in Nat /\ rows[k].reg = r
      BY <1>1, <1>2, <1>6, <2>3, <3>1, <3>2
    <3>4. k \in (m + 1)..(n - 1)
      BY <1>6, <2>1, <3>3
    <3> QED
      BY <2>1, <3>3, <3>4
  <2>4. f[m] \in 1..(f[n] - 1)
    BY <1>6, <2>2
  <2> QED
    BY <2>2, <2>3, <2>4 DEF LastWrite
<1>8. ASSUME NEW t \in T, LastWrite(w, f[n], r, t)
      PROVE  \E m \in S : f[m] = t /\ m \in 1..(n - 1) /\ LastWrite(rows, n, r, m)
  <2>1. PICK m \in S : f[m] = t
    BY <1>1
  <2>2. t \in Nat /\ t < f[n] /\ w[t].reg = r
        /\ \A l \in (t + 1)..(f[n] - 1) : w[l].reg # r
    BY <1>1, <1>6, <1>8 DEF LastWrite
  <2>3. m < n /\ m \in 1..Len(rows) /\ m \in Nat /\ rows[m].reg = r
    BY <1>1, <1>2, <1>6, <2>1, <2>2
  <2>4. ASSUME NEW l \in (m + 1)..(n - 1), rows[l].reg = r PROVE FALSE
    <3>1. l \in 1..Len(rows) /\ m < l /\ l < n
      BY <1>1, <1>6, <2>3
    <3>2. l \in S
      BY <1>4, <2>4, <3>1
    <3>3. f[m] < f[l] /\ f[l] < f[n] /\ f[l] \in Nat /\ w[f[l]].reg = r
      BY <1>1, <1>6, <2>4, <3>1, <3>2
    <3>4. f[l] \in (t + 1)..(f[n] - 1)
      BY <1>6, <2>1, <2>2, <3>3
    <3> QED
      BY <2>2, <3>3, <3>4
  <2>5. m \in 1..(n - 1)
    BY <1>6, <2>3
  <2>6. LastWrite(rows, n, r, m)
    BY <2>3, <2>4, <2>5 DEF LastWrite
  <2> QED
    BY <2>1, <2>5, <2>6
<1>9. (\A m \in 1..(n - 1) : rows[m].reg # r) <=> (\A t \in 1..(f[n] - 1) : w[t].reg # r)
  <2>1. ASSUME NEW m \in 1..(n - 1), rows[m].reg = r
        PROVE  \E t \in 1..(f[n] - 1) : w[t].reg = r
    <3>1. m \in 1..Len(rows) /\ m < n
      BY <1>1, <1>6
    <3>2. m \in S
      BY <1>4, <2>1, <3>1
    <3>3. f[m] < f[n] /\ f[m] \in 1..Len(w) /\ w[f[m]].reg = r
      BY <1>1, <1>6, <2>1, <3>1, <3>2
    <3>4. f[m] \in 1..(f[n] - 1)
      BY <1>6, <3>3
    <3> QED
      BY <3>3, <3>4
  <2>2. ASSUME NEW t \in 1..(f[n] - 1), w[t].reg = r
        PROVE  \E m \in 1..(n - 1) : rows[m].reg = r
    <3>1. t \in 1..Len(w) /\ t < f[n]
      BY <1>1, <1>6
    <3>2. PICK m \in S : f[m] = t
      BY <1>1, <1>5, <2>2, <3>1
    <3>3. m < n /\ m \in 1..Len(rows) /\ rows[m].reg = r
      BY <1>1, <1>2, <1>6, <2>2, <3>1, <3>2
    <3>4. m \in 1..(n - 1)
      BY <1>6, <3>3
    <3> QED
      BY <3>3, <3>4
  <2> QED
    BY <2>1, <2>2
<1>10. (\E m \in 1..(n - 1) : LastWrite(rows, n, r, m) /\ rows[m].val # rows[n].val)
       <=> (\E t \in 1..(f[n] - 1) : LastWrite(w, f[n], r, t) /\ w[t].val # w[f[n]].val)
  <2>1. ASSUME NEW m \in 1..(n - 1), LastWrite(rows, n, r, m), rows[m].val # rows[n].val
        PROVE  \E t \in 1..(f[n] - 1) : LastWrite(w, f[n], r, t) /\ w[t].val # w[f[n]].val
    <3>1. m \in S
      <4>1. m \in 1..Len(rows) /\ rows[m].reg = r
        BY <1>1, <1>6, <2>1 DEF LastWrite
      <4> QED
        BY <1>4, <4>1
    <3>2. rows[m] = w[f[m]]
      BY <1>1, <3>1
    <3> QED
      BY <1>3, <1>7, <2>1, <3>1, <3>2
  <2>2. ASSUME NEW t \in 1..(f[n] - 1), LastWrite(w, f[n], r, t), w[t].val # w[f[n]].val
        PROVE  \E m \in 1..(n - 1) : LastWrite(rows, n, r, m) /\ rows[m].val # rows[n].val
    <3>1. t \in T
      <4>1. t \in 1..Len(w) /\ w[t].reg = r
        BY <1>1, <1>6, <2>2 DEF LastWrite
      <4> QED
        BY <1>5, <4>1
    <3>2. PICK m \in S : f[m] = t /\ m \in 1..(n - 1) /\ LastWrite(rows, n, r, m)
      BY <1>8, <2>2, <3>1
    <3>3. rows[m] = w[t]
      BY <1>1, <3>2
    <3> QED
      BY <1>3, <2>2, <3>2, <3>3
  <2> QED
    BY <2>1, <2>2
<1> QED
  BY <1>3, <1>9, <1>10 DEF Changes, r

\* The changes of a trace are those of the run it is of.
LEMMA RunChanges ==
  ASSUME NEW rows \in Seq(Row), NEW i, NEW r \in Seq(Effect),
         Faithful(rows, Shown(i, Written(r)), Len(r))
  PROVE  LET w == Written(r)
         IN /\ \A j \in ChangeSet(rows) : \E n \in ChangeSet(w) :
                 Rank(rows, j) = Rank(w, n) /\ rows[j] = w[n]
            /\ \A n \in ChangeSet(w) : \E j \in ChangeSet(rows) :
                 Rank(rows, j) = Rank(w, n) /\ rows[j] = w[n]
<1> DEFINE w == Written(r)
           g == Shown(i, w)
           A == ChangeSet(rows)
           B == ChangeSet(w)
<1>1. /\ w \in Seq(Row) /\ g \in Seq(Row) /\ Len(w) = Len(r) /\ Len(g) = Len(r)
      /\ Len(r) \in Nat /\ Len(rows) \in Nat
  BY ShownRows
<1>2. \A n \in 1..Len(r) : /\ Changes(g, n) <=> Changes(w, n)
                           /\ Changes(w, n) => g[n] = w[n]
  BY ShownChanges
<1>3. WriteSet(g) \cap 1..Len(r) = WriteSet(g)
  BY <1>1 DEF WriteSet
<1> HIDE DEF w, g
<1>4. PICK f \in [WriteSet(rows) -> WriteSet(g)] :
        Matches(f, rows, WriteSet(rows), g, WriteSet(g))
  BY <1>3 DEF Faithful, g, w
<1>5. \A n \in WriteSet(rows) : Changes(rows, n) <=> Changes(g, f[n])
  BY <1>1, <1>4, MatchChanges
<1>6. A \subseteq WriteSet(rows) /\ \A n \in WriteSet(rows) : n \in A <=> Changes(rows, n)
  BY DEF ChangeSet, WriteSet, Changes
<1>7. B \subseteq WriteSet(g) /\ \A n \in WriteSet(g) : n \in B <=> Changes(g, n)
  <2>1. ASSUME NEW n \in B PROVE n \in WriteSet(g)
    <3>1. n \in 1..Len(r) /\ Changes(g, n)
      BY <1>1, <1>2 DEF ChangeSet
    <3> QED
      BY <1>1, <3>1 DEF WriteSet, Changes
  <2>2. ASSUME NEW n \in WriteSet(g) PROVE n \in B <=> Changes(g, n)
    BY <1>1, <1>2 DEF ChangeSet, WriteSet
  <2> QED
    BY <2>1, <2>2
<1>8. A \in SUBSET (Nat \ {0}) /\ B \in SUBSET (Nat \ {0})
  <2>1. A \subseteq 1..Len(rows) /\ B \subseteq 1..Len(w)
    BY DEF ChangeSet
  <2> QED
    BY <1>1, <2>1
<1> DEFINE h == [n \in A |-> f[n]]
<1> HIDE DEF A, B
<1>9. ASSUME NEW n \in A PROVE f[n] \in B /\ rows[n] = w[f[n]]
  <2>1. n \in WriteSet(rows) /\ Changes(rows, n)
    BY <1>6
  <2>2. f[n] \in WriteSet(g) /\ Changes(g, f[n]) /\ rows[n] = g[f[n]]
    BY <1>4, <1>5, <2>1 DEF Matches
  <2>3. f[n] \in 1..Len(r)
    BY <1>1, <2>2 DEF WriteSet
  <2> QED
    BY <1>2, <1>7, <2>2, <2>3
<1>10. ASSUME NEW t \in B PROVE \E n \in A : f[n] = t
  <2>1. t \in WriteSet(g) /\ Changes(g, t)
    BY <1>7
  <2>2. PICK n \in WriteSet(rows) : f[n] = t
    BY <1>4, <2>1 DEF Matches
  <2> QED
    BY <1>5, <1>6, <2>1, <2>2
<1>11. Counts(h, A, B)
  <2>1. h \in [A -> B]
    BY <1>9
  <2>2. \A t \in B : \E n \in A : h[n] = t
    BY <1>10
  <2>3. \A n, m \in A : n < m => h[n] < h[m]
    BY <1>4, <1>6 DEF Matches
  <2> HIDE DEF h
  <2> QED
    BY <2>1, <2>2, <2>3 DEF Counts
<1>12. ASSUME NEW n \in A PROVE Rank(rows, n) = Rank(w, f[n])
  <2>1. Place(A, n) = Place(B, h[n])
    BY <1>8, <1>11, SamePlace
  <2> QED
    BY <2>1 DEF Rank, A, B
<1>13. \A j \in A : \E n \in B : Rank(rows, j) = Rank(w, n) /\ rows[j] = w[n]
  BY <1>9, <1>12
<1>14. \A n \in B : \E j \in A : Rank(rows, j) = Rank(w, n) /\ rows[j] = w[n]
  <2> SUFFICES ASSUME NEW n \in B
               PROVE  \E j \in A : Rank(rows, j) = Rank(w, n) /\ rows[j] = w[n]
    OBVIOUS
  <2>1. PICK j \in A : f[j] = n
    BY <1>10
  <2> QED
    BY <1>9, <1>12, <2>1
<1> QED
  BY <1>13, <1>14 DEF A, B, w

\* Traces of the same run have the same changes.
SameRun == execution.run[1] = execution.run[2] /\ Whole(1) /\ Whole(2)

LEMMA SameChanges ==
  ASSUME TypeOK, ConvInv, SameRun, phase \notin {"convert", "exited"}
  PROVE  Within(csv[1], csv[2]) /\ Within(csv[2], csv[1])
<1> DEFINE r == execution.run[1]
           w == Written(r)
<1>1. r \in Seq(Effect) /\ execution.run[2] = r /\ csv[1] \in Seq(Row) /\ csv[2] \in Seq(Row)
  BY DEF TypeOK, SameRun
<1>2. Faithful(csv[1], Shown(iss[1], Written(r)), Len(r))
  BY DEF ConvInv, Converted, Exact, SameRun
<1>3. Faithful(csv[2], Shown(iss[2], Written(r)), Len(r))
  BY DEF ConvInv, Converted, Exact, SameRun
<1> HIDE DEF r
<1>4. /\ \A j \in ChangeSet(csv[1]) : \E n \in ChangeSet(w) :
           Rank(csv[1], j) = Rank(w, n) /\ csv[1][j] = w[n]
      /\ \A n \in ChangeSet(w) : \E j \in ChangeSet(csv[1]) :
           Rank(csv[1], j) = Rank(w, n) /\ csv[1][j] = w[n]
  BY <1>1, <1>2, RunChanges
<1>5. /\ \A j \in ChangeSet(csv[2]) : \E n \in ChangeSet(w) :
           Rank(csv[2], j) = Rank(w, n) /\ csv[2][j] = w[n]
      /\ \A n \in ChangeSet(w) : \E j \in ChangeSet(csv[2]) :
           Rank(csv[2], j) = Rank(w, n) /\ csv[2][j] = w[n]
  BY <1>1, <1>3, RunChanges
<1> HIDE DEF w
<1>6. ASSUME NEW j \in ChangeSet(csv[1])
      PROVE  \E i \in ChangeSet(csv[2]) :
               Rank(csv[2], i) = Rank(csv[1], j) /\ csv[2][i] = csv[1][j]
  <2>1. PICK n \in ChangeSet(w) : Rank(csv[1], j) = Rank(w, n) /\ csv[1][j] = w[n]
    BY <1>4
  <2>2. PICK i \in ChangeSet(csv[2]) : Rank(csv[2], i) = Rank(w, n) /\ csv[2][i] = w[n]
    BY <1>5
  <2> QED
    BY <2>1, <2>2
<1>7. ASSUME NEW j \in ChangeSet(csv[2])
      PROVE  \E i \in ChangeSet(csv[1]) :
               Rank(csv[1], i) = Rank(csv[2], j) /\ csv[1][i] = csv[2][j]
  <2>1. PICK n \in ChangeSet(w) : Rank(csv[2], j) = Rank(w, n) /\ csv[2][j] = w[n]
    BY <1>5
  <2>2. PICK i \in ChangeSet(csv[1]) : Rank(csv[1], i) = Rank(w, n) /\ csv[1][i] = w[n]
    BY <1>4
  <2> QED
    BY <2>1, <2>2
<1> QED
  BY <1>6, <1>7 DEF Within

LEMMA RankOrder ==
  ASSUME NEW w, NEW m \in Nat, NEW n \in Nat, m <= n
  PROVE  /\ Rank(w, m) \in Nat /\ Rank(w, n) \in Nat /\ Rank(w, m) <= Rank(w, n)
         /\ m < n /\ n \in ChangeSet(w) => Rank(w, m) < Rank(w, n)
<1> DEFINE A == ChangeSet(w) \cap 1..m
           B == ChangeSet(w) \cap 1..n
<1>1. IsFiniteSet(B) /\ Rank(w, m) \in Nat /\ Rank(w, n) \in Nat
  BY RankType
<1>2. A \in SUBSET B
  OBVIOUS
<1>3. Cardinality(A) <= Cardinality(B) /\ (Cardinality(B) = Cardinality(A) => B = A)
  BY <1>1, <1>2, FS_Subset
<1>4. m < n /\ n \in ChangeSet(w) => n \in B /\ n \notin A
  OBVIOUS
<1>5. Rank(w, m) = Cardinality(A) /\ Rank(w, n) = Cardinality(B)
  BY DEF Rank, Place
<1> HIDE DEF A, B
<1> QED
  BY <1>1, <1>3, <1>4, <1>5

\* Of two traces of the same run no mismatch is counted, and nothing is left of
\* the second that could be.
NoAlarm ==
  SameRun =>
    /\ mismatch = 0
    /\ phase = "left" => \A j \in ChangeSet(csv[2]) : j <= index[2]

LEMMA NoAlarmStep ==
  ASSUME TypeOK, IInv, ConvInv, NoAlarm, [Next]_vars
  PROVE  NoAlarm'
<1>1. SUFFICES ASSUME SameRun' PROVE mismatch' = 0
               /\ (phase' = "left" => \A j \in ChangeSet(csv'[2]) : j <= index'[2])
  BY DEF NoAlarm
<1>2. execution' = execution /\ SameRun
  <2>1. execution' = execution
    BY DEF Next, vars, ReadLine, EndOfLog, TakeRow, EndOfTrace1, Advance, RunsOut, Judge,
           Leftover, NothingLeft, ReadRow
  <2> QED
    BY <1>1, <2>1 DEF SameRun, Whole
<1>3. mismatch = 0 /\ (phase = "left" => \A j \in ChangeSet(csv[2]) : j <= index[2])
  BY <1>2 DEF NoAlarm
<1>4. /\ csv[1] \in Seq(Row) /\ csv[2] \in Seq(Row) /\ index[1] \in Nat /\ index[2] \in Nat
      /\ Len(csv[1]) \in Nat /\ Len(csv[2]) \in Nat
  BY DEF TypeOK
<1>5. phase \notin {"convert", "exited"} =>
        /\ \A j \in ChangeSet(csv[2]) : \E i \in ChangeSet(csv[1]) :
             Rank(csv[1], i) = Rank(csv[2], j) /\ csv[1][i] = csv[2][j]
        /\ \A j \in ChangeSet(csv[1]) : \E i \in ChangeSet(csv[2]) :
             Rank(csv[2], i) = Rank(csv[1], j) /\ csv[2][i] = csv[1][j]
  BY <1>2, SameChanges DEF Within
<1>6. \A k \in 1..2 : \A j \in ChangeSet(csv[k]) : j \in Nat /\ j <= Len(csv[k])
  BY <1>4 DEF ChangeSet
<1>7. InStep /\ Known(1) /\ Known(2)
  BY DEF IInv
<1>8. CASE ReadLine \/ EndOfLog
  <2>1. mismatch' = mismatch /\ phase' # "left"
    BY <1>8 DEF ReadLine, EndOfLog
  <2> QED
    BY <1>3, <2>1
<1>9. CASE TakeRow \/ Advance
  <2>1. mismatch' = mismatch /\ phase' # "left"
    BY <1>9 DEF TakeRow, Advance
  <2> QED
    BY <1>3, <2>1
<1>10. CASE EndOfTrace1
  <2>1. /\ phase = "compare" /\ index[1] = Len(csv[1]) /\ mismatch' = mismatch
        /\ index' = index /\ csv' = csv
    BY <1>10 DEF EndOfTrace1
  <2>2. Rank(csv[1], index[1]) = Rank(csv[2], index[2])
    BY <1>7, <2>1 DEF InStep
  <2>3. ASSUME NEW j \in ChangeSet(csv[2]), ~(j <= index[2]) PROVE FALSE
    <3>1. j \in Nat /\ index[2] < j
      BY <1>4, <1>6, <2>3
    <3>2. PICK i \in ChangeSet(csv[1]) : Rank(csv[1], i) = Rank(csv[2], j)
      BY <1>5, <2>1
    <3>3. i \in Nat /\ i <= index[1]
      BY <1>6, <2>1
    <3>4. Rank(csv[1], i) <= Rank(csv[1], index[1])
      BY <1>4, <3>3, RankOrder
    <3>5. /\ Rank(csv[2], index[2]) < Rank(csv[2], j)
          /\ Rank(csv[2], index[2]) \in Nat /\ Rank(csv[2], j) \in Nat
      BY <1>4, <3>1, RankOrder
    <3> QED
      BY <2>2, <3>2, <3>4, <3>5
  <2> QED
    BY <1>3, <2>1, <2>3
<1>11. CASE RunsOut
  <2>1. phase = "advance" /\ index[2] = Len(csv[2])
    BY <1>11 DEF RunsOut
  <2>2. /\ index[1] \in ChangeSet(csv[1])
        /\ Rank(csv[1], index[1]) = Rank(csv[2], index[2]) + 1
    BY <1>7, <2>1 DEF InStep
  <2>3. PICK i \in ChangeSet(csv[2]) : Rank(csv[2], i) = Rank(csv[1], index[1])
    BY <1>5, <2>1, <2>2
  <2>4. i \in Nat /\ i <= index[2]
    BY <1>6, <2>1
  <2>5. /\ Rank(csv[2], i) <= Rank(csv[2], index[2])
        /\ Rank(csv[2], i) \in Nat /\ Rank(csv[2], index[2]) \in Nat
    BY <1>4, <2>4, RankOrder
  <2> QED
    BY <2>2, <2>3, <2>5
<1>12. CASE Judge
  <2>1. /\ phase = "judge" /\ index' = index /\ csv' = csv
        /\ phase' = "left" => index[2] = Len(csv[2])
        /\ csv[1][index[1]] = csv[2][index[2]] => mismatch' = mismatch
    BY <1>12 DEF Judge
  <2>2. /\ index[1] \in ChangeSet(csv[1]) /\ index[2] \in ChangeSet(csv[2])
        /\ Rank(csv[1], index[1]) = Rank(csv[2], index[2])
    BY <1>7, <2>1 DEF InStep
  <2>3. PICK i \in ChangeSet(csv[2]) :
          Rank(csv[2], i) = Rank(csv[1], index[1]) /\ csv[2][i] = csv[1][index[1]]
    BY <1>5, <2>1, <2>2
  <2>4. i \in Nat
    BY <1>6
  <2>5. ~(i < index[2])
    <3>1. i < index[2] => Rank(csv[2], i) < Rank(csv[2], index[2])
                          /\ Rank(csv[2], i) \in Nat
      BY <1>4, <2>2, <2>4, RankOrder
    <3> QED
      BY <2>2, <2>3, <3>1
  <2>6. ~(index[2] < i)
    <3>1. index[2] < i => Rank(csv[2], index[2]) < Rank(csv[2], i)
                          /\ Rank(csv[2], i) \in Nat
      BY <1>4, <2>3, <2>4, RankOrder
    <3> QED
      BY <2>2, <2>3, <3>1
  <2>7. i = index[2]
    BY <1>4, <2>4, <2>5, <2>6
  <2>8. mismatch' = 0
    BY <1>3, <2>1, <2>3, <2>7
  <2> QED
    BY <1>6, <2>1, <2>8
<1>13. CASE Leftover
  <2>1. phase = "left" /\ index[2] < Len(csv[2]) /\ ReadRow(2)
    BY <1>13 DEF Leftover
  <2>2. /\ csv' = csv /\ index'[2] = index[2] + 1
        /\ NextIsChange(2) <=> index'[2] \in ChangeSet(csv[2])
    BY <1>7, <2>1, ReadFacts
  <2>3. ~NextIsChange(2)
    <3>1. NextIsChange(2) => index[2] + 1 <= index[2]
      BY <1>3, <2>1, <2>2
    <3> QED
      BY <1>4, <3>1
  <2>4. mismatch' = mismatch
    BY <1>13, <2>3 DEF Leftover
  <2>5. \A j \in ChangeSet(csv[2]) : j <= index[2] + 1
    BY <1>3, <1>4, <1>6, <2>1
  <2> QED
    BY <1>3, <2>2, <2>4, <2>5
<1>14. CASE NothingLeft
  <2>1. mismatch' = mismatch /\ phase' # "left"
    BY <1>14 DEF NothingLeft
  <2> QED
    BY <1>3, <2>1
<1>15. CASE UNCHANGED vars
  BY <1>3, <1>15 DEF vars
<1> QED
  BY <1>8, <1>9, <1>10, <1>11, <1>12, <1>13, <1>14, <1>15 DEF Next
-----------------------------------------------------------------------------
(* The theorems.                                                            *)

LEMMA InvStep ==
  ASSUME TypeOK, IInv, [Next]_vars
  PROVE  TypeOK' /\ IInv'
<1>1. TypeOK'
  BY TypeStep
<1>2. CASE Next
  <2>1. InStep' /\ Matching' /\ Ended'
    BY <1>2, TakeRowStep, AdvanceStep, JudgeStep, LeftoverStep, QuietStep, ConvertStep DEF Next
  <2> QED
    BY <1>1, <1>2, <2>1, KnownStep, EcallStep DEF IInv
<1>3. CASE UNCHANGED vars
  <2>1. Waiting' /\ Known(1)' /\ Known(2)'
    BY <1>3 DEF vars, IInv, Waiting, Known
  <2>2. InStep' /\ Ended'
    BY <1>3 DEF vars, IInv, InStep, Ended
  <2>3. Matching'
    BY <1>3 DEF vars, IInv, Matching, Paired, Judged
  <2>4. EcallLast'
    BY <1>3 DEF vars, IInv, EcallLast, Whole, Log
  <2> QED
    BY <1>1, <2>1, <2>2, <2>3, <2>4 DEF IInv
<1> QED
  BY <1>2, <1>3

LEMMA Invariance == Spec => [](TypeOK /\ IInv)
<1>1. Init => TypeOK /\ IInv
  BY TypeInit, InvInit
<1>2. TypeOK /\ IInv /\ [Next]_vars => TypeOK' /\ IInv'
  BY InvStep
<1> QED
  BY <1>1, <1>2, PTL DEF Spec

\* PASSED is never given to a second trace with a change of its own.
THEOREM PassedIsPrefix == Spec => []PassMeansPrefix
<1>1. ASSUME TypeOK, IInv PROVE PassMeansPrefix
  <2>1. SUFFICES ASSUME Passed PROVE Within(csv[2], csv[1])
    BY DEF PassMeansPrefix
  <2>2. Paired(2, 1) /\ index[2] = Len(csv[2]) /\ Judged(2) = index[2]
    BY <1>1, <2>1 DEF IInv, Matching, Ended, Passed, Judged
  <2>3. \A j \in ChangeSet(csv[2]) : j <= Len(csv[2])
    BY DEF ChangeSet
  <2> QED
    BY <2>2, <2>3 DEF Paired, Within
<1>2. TypeOK /\ IInv => PassMeansPrefix
  BY <1>1
<1> QED
  BY <1>2, Invariance, PTL

\* With a whole spike log second, PASSED means equal changes: the row of the
\* ecall keeps the loop from being left before trace 1 is at its end.
THEOREM PassedIsEqual == Spec => []PassMeansEqual
<1>1. ASSUME TypeOK, IInv PROVE PassMeansEqual
  <2>1. SUFFICES ASSUME Passed, iss[2] = "spike", Whole(2) PROVE Within(csv[1], csv[2])
    BY DEF PassMeansEqual
  <2>2. Len(csv[2]) \notin ChangeSet(csv[2])
    <3>1. csv[2][Len(csv[2])] = NoGpr
      BY <1>1, <2>1 DEF IInv, EcallLast, Passed
    <3> QED
      BY <3>1 DEF ChangeSet, Changes, NoGpr
  <2>3. Paired(1, 2) /\ index[1] = Len(csv[1]) /\ Judged(1) = index[1]
    BY <1>1, <2>1, <2>2 DEF IInv, Matching, Ended, Passed, Judged
  <2>4. \A j \in ChangeSet(csv[1]) : j <= Len(csv[1])
    BY DEF ChangeSet
  <2> QED
    BY <2>3, <2>4 DEF Paired, Within
<1>2. TypeOK /\ IInv => PassMeansEqual
  BY <1>1
<1> QED
  BY <1>2, Invariance, PTL

\* Each converter keeps exactly the writes of the program that was executed, and
\* of a log that ends early those of what was read of it.
THEOREM ConversionIsExact == Spec => []ConversionExact
<1>1. ASSUME TypeOK, ConvInv PROVE ConversionExact
  <2>1. SUFFICES ASSUME phase \notin {"convert", "exited"}, NEW k \in 1..2
                 PROVE  LET kept == WriteSet(csv[k])
                            done == Shown(iss[k], Written(execution.run[k]))
                        IN /\ \A j \in kept : \E n \in WriteSet(done) :
                                Place(kept, j) = Place(WriteSet(done), n) /\ csv[k][j] = done[n]
                           /\ Whole(k) => Cardinality(kept) = Cardinality(WriteSet(done))
    BY DEF ConversionExact
  <2> DEFINE w == Shown(iss[k], Written(execution.run[k]))
  <2>2. Exact(k)
    BY <1>1, <2>1 DEF ConvInv, Converted
  <2>3. execution.run[k] \in Seq(Effect) /\ csv[k] \in Seq(Row)
    BY <1>1 DEF TypeOK
  <2>4. w \in Seq(Row) /\ Len(w) = Len(execution.run[k])
    BY <2>3, ShownRows
  <2>5. PICK q \in 0..Len(execution.run[k]) :
          Faithful(csv[k], w, q) /\ (Whole(k) => q = Len(execution.run[k]))
    BY <2>2 DEF Exact
  <2> HIDE DEF w
  <2>6. q \in 0..Len(w)
    BY <2>4
  <2>7. /\ \A j \in WriteSet(csv[k]) : \E n \in WriteSet(w) :
             Place(WriteSet(csv[k]), j) = Place(WriteSet(w), n) /\ csv[k][j] = w[n]
        /\ q = Len(w) => Cardinality(WriteSet(csv[k])) = Cardinality(WriteSet(w))
    BY <2>3, <2>4, <2>5, <2>6, FaithfulExact
  <2> QED
    BY <2>4, <2>5, <2>7 DEF w
<1>2. TypeOK /\ ConvInv => ConversionExact
  BY <1>1
<1> QED
  BY <1>2, ConvInvariance, PTL

\* No false alarm: two simulators that executed the same, with whole logs, pass,
\* whichever of the three they are and whatever they log beside the changes.
THEOREM SameRunsAgree == Spec => []SameRunsPass
<1>1. Init => TypeOK /\ IInv /\ ConvInv /\ NoAlarm
  <2>1. Init => NoAlarm
    BY DEF Init, NoAlarm
  <2> QED
    BY <2>1, TypeInit, InvInit, ConvInit
<1>2. TypeOK /\ IInv /\ ConvInv /\ NoAlarm /\ [Next]_vars
        => (TypeOK /\ IInv /\ ConvInv /\ NoAlarm)'
  BY InvStep, ConvStep, NoAlarmStep
<1>3. NoAlarm => SameRunsPass
  BY DEF NoAlarm, SameRun, SameRunsPass, Passed
<1> QED
  BY <1>1, <1>2, <1>3, PTL DEF Spec
=============================================================================
