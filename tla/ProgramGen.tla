----------------------------- MODULE ProgramGen -----------------------------
(***************************************************************************)
(* How pygen makes the main program of each hart                           *)
(* (riscv_asm_program_gen.gen_program, riscv_instr_sequence): directed     *)
(* streams are made, the random stream is made, the directed streams are   *)
(* put into it, labels are given, every forward branch gets a target,      *)
(* labels nobody branches to are dropped, and the text is written.  The    *)
(* list of basic instructions is one list shared by all harts and streams. *)
(***************************************************************************)
EXTENDS InstrStream

CONSTANTS NHarts,         \* cfg.num_of_harts
          InstrCnt,       \* cfg.main_program_instr_cnt
          MaxStreams,     \* at most this many directed streams per hart
          MaxDirected,    \* with at most this many instructions together
          MaxBranchStep   \* cfg.max_branch_step (20)

ASSUME ProgramAssumption ==
  /\ NHarts \in Nat \ {0} /\ InstrCnt \in Nat \ {0}
  /\ MaxStreams \in Nat   /\ MaxDirected \in Nat
  /\ MaxBranchStep \in Nat \ {0}

VARIABLES no_branch,     \* cfg.no_branch_jump
          hart,          \* the hart whose program is being made
          phase,         \* how far gen_program has come with this hart
          basic,         \* riscv_instr.basic_instr, by category
          directed,      \* directed_instr, the streams of this hart
          list,          \* instr_stream.instr_list
          pos,           \* the index of the loop of the current phase
          label_idx,     \* the next numeric label
          branch_target  \* labels some branch goes to

vars == <<no_branch, hart, phase, basic, directed, list, pos, label_idx,
          branch_target>>

Phase == {"directed", "insert", "label", "branch", "emit", "emitted",
          "done", "failed"}

-----------------------------------------------------------------------------
Init ==
  /\ no_branch \in BOOLEAN
  /\ hart = 1 /\ phase = "directed"
  /\ basic = {"OTHER"}
  /\ directed = <<>> /\ list = <<>>
  /\ pos = 1 /\ label_idx = 0 /\ branch_target = {}

(* The instructions of all streams, each as its stream and its place there. *)
Placed(streams) == UNION {{s} \X DOMAIN streams[s] : s \in DOMAIN streams}

(* generate_directed_instr_stream: one more stream.  Its random part draws  *)
(* from the shared list of basic instructions (setup_allowed_instr(1, 1)    *)
(* takes the list as it is and adds nothing); the final shuffle is the      *)
(* freedom to make the streams in any order.                                *)
GenDirected ==
  /\ phase = "directed" /\ Len(directed) < MaxStreams
  /\ \E kind \in Kind \ {"random"} : \E s \in StreamsOf(kind, basic) :
       directed' = Append(directed, AsStream(s, Len(directed) + 1))
  /\ Cardinality(Placed(directed')) <= MaxDirected
  /\ UNCHANGED <<no_branch, hart, phase, basic, list, pos, label_idx,
                 branch_target>>

(* No register or immediate fits a drawn instruction: "Cannot randomize ...", *)
(* and the generator exits.                                                 *)
DirectedFails ==
  /\ phase = "directed" /\ Len(directed) < MaxStreams
  /\ phase' = "failed"
  /\ UNCHANGED <<no_branch, hart, basic, directed, list, pos, label_idx,
                 branch_target>>

(* What setup_allowed_instr leaves in the shared list: allowed_instr is that *)
(* very list, and extending it with the branches extends the list for good.  *)
AllowedInstr == IF no_branch THEN basic ELSE basic \cup {"BRANCH"}

(* riscv_instr_sequence.gen_instr: the random stream.                       *)
GenMain ==
  /\ phase = "directed"
  /\ basic' = AllowedInstr
  /\ \E cats \in GenInstr(AllowedInstr, InstrCnt) :
       list' = [k \in 1..Len(cats) |-> Instr("random", cats[k])]
  /\ phase' = "insert" /\ pos' = 1
  /\ UNCHANGED <<no_branch, hart, directed, label_idx, branch_target>>

-----------------------------------------------------------------------------
(* post_process_instr, first loop: insert_instr_stream of each stream.      *)
InsertDirected ==
  /\ phase = "insert" /\ pos <= Len(directed)
  /\ \/ list = <<>> /\ list' = directed[pos]
     \/ \E i \in InjectPoints(list) : list' = Spliced(list, i, directed[pos])
  /\ pos' = pos + 1
  /\ UNCHANGED <<no_branch, hart, phase, basic, directed, label_idx,
                 branch_target>>

(* Mutant: the pick is repeated instead of giving up.                       *)
InjectRetries ==
  /\ phase = "insert" /\ pos <= Len(directed)
  /\ list # <<>> /\ InjectPoints(list) = {}
  /\ UNCHANGED vars

(* "Cannot inject the instruction": nothing but atomic streams in the list. *)
InjectFails ==
  /\ phase = "insert" /\ pos <= Len(directed)
  /\ list # <<>> /\ InjectPoints(list) = {}
  /\ phase' = "failed"
  /\ UNCHANGED <<no_branch, hart, basic, directed, list, pos, label_idx,
                 branch_target>>

EndInsert ==
  /\ phase = "insert" /\ pos > Len(directed)
  /\ phase' = "label" /\ pos' = 1 /\ label_idx' = 0
  /\ UNCHANGED <<no_branch, hart, basic, directed, list, branch_target>>

(* An object that stands at two places of its stream is one instruction: a  *)
(* write at one place is seen at the other.                                 *)
SameObject(l, j, k) ==
  \/ j = k
  \/ l[j].shared # 0 /\ l[k].shared = l[j].shared /\ l[k].sid = l[j].sid

Written(l, k, instr) ==
  [j \in DOMAIN l |-> IF SameObject(l, j, k) THEN [instr EXCEPT !.part = l[j].part]
                      ELSE l[j]]

(* Mutant: atomic streams are numbered like everything else.                *)
LabelsAtomic(instr) == instr.has_label

(* Second loop: the index, and a numeric label for what is not atomic.      *)
TakesLabel(instr) == instr.has_label /\ ~instr.atomic

LabelInstr(instr) ==
  IF TakesLabel(instr)
  THEN [instr EXCEPT !.idx = label_idx, !.label = label_idx, !.local = TRUE]
  ELSE [instr EXCEPT !.idx = label_idx]

LabelStep ==
  /\ phase = "label" /\ pos <= Len(list)
  /\ list' = Written(list, pos, LabelInstr(list[pos]))
  /\ label_idx' = IF TakesLabel(list[pos]) THEN label_idx + 1 ELSE label_idx
  /\ pos' = pos + 1
  /\ UNCHANGED <<no_branch, hart, phase, basic, directed, branch_target>>

EndLabel ==
  /\ phase = "label" /\ pos > Len(list)
  /\ phase' = "branch" /\ pos' = 1 /\ branch_target' = {}
  /\ UNCHANGED <<no_branch, hart, basic, directed, list, label_idx>>

(* Mutant: the label is not capped at the last one given.                   *)
UncappedTarget(instr, step) == instr.idx + step

(* Third loop: a target for a branch that has none, at most MaxBranchStep   *)
(* labels ahead and never past the last label; then the label of the        *)
(* instruction goes if no branch up to here asked for it.                   *)
NeedsTarget(instr) == instr.category = "BRANCH" /\ ~instr.assigned

BranchTargetLabel(instr, step) ==
  IF instr.idx + step >= label_idx THEN label_idx - 1 ELSE instr.idx + step

WithTarget(instr, step) ==
  IF NeedsTarget(instr)
  THEN [instr EXCEPT !.assigned = TRUE,
                     !.target = BranchTargetLabel(instr, step)]
  ELSE instr

DropLabel(instr, asked) ==
  IF instr.has_label /\ instr.local /\ instr.label \notin asked
  THEN [instr EXCEPT !.has_label = FALSE]
  ELSE instr

BranchStep ==
  /\ phase = "branch" /\ pos <= Len(list)
  /\ \E step \in IF NeedsTarget(list[pos]) THEN 1..MaxBranchStep ELSE {1} :
       LET done == WithTarget(list[pos], step)
       IN /\ branch_target' = IF NeedsTarget(list[pos])
                              THEN branch_target \cup {done.target}
                              ELSE branch_target
          /\ list' = Written(list, pos, DropLabel(done, branch_target'))
  /\ pos' = pos + 1
  /\ UNCHANGED <<no_branch, hart, phase, basic, directed, label_idx>>

EndBranch ==
  /\ phase = "branch" /\ pos > Len(list)
  /\ phase' = "emit"
  /\ UNCHANGED <<no_branch, hart, basic, directed, list, pos, label_idx,
                 branch_target>>

(* generate_instr_stream: the first line carries the name of the program    *)
(* whatever label it had, and its has_label is set, on the object: the name *)
(* itself is not stored as its label, only printed on that line.  The loop  *)
(* variable is used after the loop, so an empty list ends the generator.    *)
Emit ==
  /\ phase = "emit"
  /\ IF list = <<>>
     THEN phase' = "failed" /\ UNCHANGED list
     ELSE /\ phase' = "emitted"
          /\ list' = [Written(list, 1, [list[1] EXCEPT !.has_label = TRUE])
                       EXCEPT ![1].label = Named]
  /\ UNCHANGED <<no_branch, hart, basic, directed, pos, label_idx,
                 branch_target>>

(* The loop over the harts: each has a new sequence, the class attributes   *)
(* stay, and the numbers of the passes were local to them.                  *)
NextHart ==
  /\ phase = "emitted"
  /\ IF hart < NHarts
     THEN /\ hart' = hart + 1 /\ phase' = "directed"
          /\ directed' = <<>> /\ list' = <<>>
     ELSE phase' = "done" /\ UNCHANGED <<hart, directed, list>>
  /\ pos' = 1 /\ label_idx' = 0 /\ branch_target' = {}
  /\ UNCHANGED <<no_branch, basic>>

\* Everything but one more directed stream.
Pass == \/ DirectedFails \/ GenMain \/ InsertDirected \/ InjectFails \/ EndInsert
        \/ LabelStep \/ EndLabel \/ BranchStep \/ EndBranch \/ Emit \/ NextHart

Next == GenDirected \/ Pass

(* gen_program is sequential code: while it can go on it goes on.  The      *)
(* directed streams need no fairness, their number is bounded.              *)
Spec == Init /\ [][Next]_vars /\ WF_vars(Pass)
-----------------------------------------------------------------------------
(* The types of the variables, and the ranges of the counters.              *)
TypeOK ==
  /\ no_branch \in BOOLEAN /\ hart \in 1..NHarts /\ phase \in Phase
  /\ basic \subseteq Category
  /\ directed \in Seq(Seq(InstrType)) /\ Len(directed) <= MaxStreams
  /\ list \in Seq(InstrType)
  /\ pos \in Nat \ {0} /\ label_idx \in Nat
  /\ branch_target \subseteq Int

(* The streams that have been put into the list so far.                     *)
Inserted == CASE phase = "insert" -> 1..(pos - 1)
              [] phase \in {"label", "branch", "emit", "emitted"} ->
                   DOMAIN directed
              [] OTHER -> {}

StandsAt(s, k) ==
  /\ k + Len(directed[s]) <= Len(list)
  /\ \A i \in DOMAIN directed[s] :
       list[k + i].sid = s /\ list[k + i].part = i /\ list[k + i].atomic

(* "A sequence of instructions which must be executed in-order"             *)
(* (riscv_instr_sequence.py:125): every directed stream put in stays in the *)
(* list complete, in its order and with nothing in between, whatever is put *)
(* in, labelled or given a target afterwards.                               *)
StreamsIntact == \A s \in Inserted : \E k \in 0..Len(list) : StandsAt(s, k)

HasRandom == \E k \in DOMAIN list : list[k].sid = 0

(* A branch whose target is "Nf", not the label of a loop.                  *)
ForwardBranch(k) == list[k].category = "BRANCH" /\ list[k].target \notin LoopLabels

(* Where the assembler takes "Nf" on line k: the next line labelled N.      *)
Destinations(k) ==
  {m \in (k + 1)..Len(list) :
     list[m].has_label /\ list[m].label = list[k].target}

(* Every branch of a finished program goes forward to a label that is still *)
(* there (riscv_instr_sequence.py:127-129), although labels are capped at   *)
(* the last one, shared by the instructions of a stream, and dropped.  A    *)
(* program without a random instruction has no label to go to.              *)
BranchesForward ==
  phase = "emitted" /\ HasRandom =>
    \A k \in DOMAIN list :
      ForwardBranch(k) => Destinations(k) # {}

Landing(k) == CHOOSE m \in Destinations(k) : \A n \in Destinations(k) : m <= n

(* No branch lands inside a memory stream or a loop ("to avoid branching    *)
(* into an atomic instruction stream", riscv_instr_sequence.py:123-124).    *)
(* Jump streams are the exception: their labels are numbers too.            *)
BranchesAvoidAtomic ==
  phase = "emitted" =>
    \A k \in DOMAIN list :
      ForwardBranch(k) /\ Destinations(k) # {}
        => ~list[Landing(k)].atomic \/ list[Landing(k)].kind = "jal"

(* In every finished program the backward branch of each loop, one or two   *)
(* to a stream, has the target of that loop before it and in the same       *)
(* stream: mixing moves both (contained = 1 puts the last branch one place  *)
(* early), injection moves the whole stream.                                *)
LoopsClosed ==
  phase = "emitted" =>
    \A k \in DOMAIN list : list[k].target \in LoopLabels =>
      \E m \in 1..(k - 1) : /\ list[m].sid = list[k].sid
                            /\ list[m].has_label /\ list[m].label = list[k].target

(* "Label is attached to the instruction if available"                      *)
(* (riscv_instr_sequence.py:225): no line that is given a label lacks one.  *)
LabelsAvailable ==
  phase = "emitted" =>
    \A k \in DOMAIN list : list[k].has_label => list[k].label # NoLabel

(* Generation comes to an end, with a program or with an error exit.        *)
Terminates == <>(phase \in {"done", "failed"})
=============================================================================
