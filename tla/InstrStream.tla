---------------------------- MODULE InstrStream ----------------------------
(***************************************************************************)
(* The instruction lists of the riscv-dv Python generator (pygen): what an *)
(* instruction carries, how a stream is put into another one, and the      *)
(* shapes of the directed streams (riscv_instr_stream.py,                  *)
(* riscv_directed_instr_lib.py, riscv_loop_instr.py).  An instruction is   *)
(* abstracted to what label assignment and branch post-processing look at; *)
(* operands, immediates and names are left out.                            *)
(***************************************************************************)
EXTENDS Integers, Sequences, FiniteSets

CONSTANTS MaxMixed,     \* at most this many instructions mixed into a memory stream
          MaxBody,      \* num_of_instr_in_loop is 1..MaxBody (25 in the code)
          MaxNested,    \* num_of_nested_loop is 1..MaxNested (2 in the code)
          MaxOwnBranch, \* at most this many of a loop's own drawn instructions
                        \* are branches (six can be, in the code)
          NJumps        \* jumps of a jump stream (10 to 30 in the code)

ASSUME ShapeAssumption ==
  /\ MaxMixed \in Nat /\ MaxBody \in Nat /\ NJumps \in Nat
  /\ MaxNested \in 1..2 /\ MaxOwnBranch \in Nat

(* Labels are numbers; -1 is what the cap of the third loop gives when no   *)
(* label was given at all.  The others stand for texts.                     *)
NoLabel      == -2       \* label == "" or imm_str not written yet
Named        == -3       \* the name of the program or of a jump stream
LoopLabel(i) == -3 - i   \* "<stream>_<i - 1>_t", the target of loop i
LoopLabels   == {LoopLabel(i) : i \in 1..MaxNested}

(* "BRANCH" is riscv_instr_category_t.BRANCH; every other category,         *)
(* jumps (JAL) included, is "OTHER".                                        *)
Category == {"BRANCH", "OTHER"}
Kind     == {"random", "mem", "jal", "loop"}

InstrType ==
  [kind : Kind, sid : Nat, part : Nat, category : Category, atomic : BOOLEAN,
   has_label : BOOLEAN, label : Int, local : BOOLEAN, idx : Int,
   assigned : BOOLEAN, target : Int, shared : Nat]

(* riscv_instr as it is created: labelled, not atomic, nothing assigned.    *)
(* kind, sid and part tell which stream the instruction belongs to and      *)
(* where in that stream it stands (sid 0 is the random stream of the        *)
(* program).  shared tells one object that stands twice in its stream from  *)
(* two objects: its two places have the same number, all others have 0.     *)
Instr(kind, c) ==
  [kind |-> kind, sid |-> 0, part |-> 0, category |-> c,
   atomic |-> FALSE, has_label |-> TRUE, label |-> NoLabel, local |-> FALSE,
   idx |-> -1, assigned |-> FALSE, target |-> NoLabel,
   shared |-> 0]

Unlabelled(kind, c) == [Instr(kind, c) EXCEPT !.has_label = FALSE]

-----------------------------------------------------------------------------
(* instr_list[0:i-1] + s + instr_list[i-1:], with i counted from 1.         *)
Spliced(l, i, s) ==
  [k \in 1..(Len(l) + Len(s)) |->
     IF k < i THEN l[k]
     ELSE IF k < i + Len(s) THEN s[k - i + 1]
     ELSE l[k - Len(s)]]

(* Mutant: the pick is not tested for being atomic.                         *)
AnyPoint(l) == 1..Len(l)

(* Where insert_instr_stream(new_instr) with idx = -1 may put the stream:   *)
(* ten random picks end early on an atomic instruction, and then the first  *)
(* instruction that is not atomic is taken; otherwise the last pick counts, *)
(* which was seen not to be atomic.                                         *)
InjectPoints(l) == {i \in 1..Len(l) : ~l[i].atomic}

(* The categories gen_instr can leave of cnt random instructions: branches  *)
(* at the end are popped again, all of them if there is nothing else.       *)
GenInstr(allowed, cnt) ==
  {c \in UNION {[1..n -> allowed] : n \in 0..cnt} :
     /\ c # <<>> => c[Len(c)] # "BRANCH"
     /\ Len(c) < cnt => "BRANCH" \in allowed}

(* The sorted tuples of n numbers of 0..cnt, each from how many of its       *)
(* numbers are below j, for every j.                                        *)
Sorted(n, cnt) ==
  {[i \in 1..n |-> Cardinality({j \in 1..cnt : below[j] < i})]
   : below \in [1..cnt -> 0..n]}

(* Mutant: the override of the last position does not count the             *)
(* instructions put in before it.                                           *)
MixSlotsUngrown(n, cnt) ==
  { LET at == [i \in 1..n |-> CASE i = 1 -> 1
                                [] i = n /\ n > 1 -> cnt + 1
                                [] OTHER -> position[i] + i]
    IN [i \in 1..n |-> IF i < n /\ at[i] >= at[n] THEN at[i] + 1 ELSE at[i]]
  : position \in Sorted(n, cnt) }

(* mix_instr_stream(new_instr, contained = 1) of n instructions into cnt    *)
(* others: where they end up.  The insert positions are sorted and the i-th *)
(* goes to position[i] + i of the list as grown so far; the first position  *)
(* is then overridden by the front, the last by cnt - 1, so that the last   *)
(* instruction pushes one that already stands there behind it.              *)
MixSlots(n, cnt) ==
  { LET at == [i \in 1..n |-> CASE i = 1 -> 1
                                [] i = n /\ n > 1 -> cnt - 1 + n
                                [] OTHER -> position[i] + i]
    IN [i \in 1..n |-> IF i < n /\ at[i] >= at[n] THEN at[i] + 1 ELSE at[i]]
  : position \in Sorted(n, cnt) }

-----------------------------------------------------------------------------
(* The atomic marking at the end of post_randomize, and the ghost fields.   *)
AsStream(s, sid) ==
  [k \in 1..Len(s) |->
     [s[k] EXCEPT !.atomic = TRUE, !.sid = sid, !.part = k]]

(* A memory stream: la, the instructions mixed in from the shared list of   *)
(* basic instructions, the access itself.  The class attribute label is     *)
(* "", so that the head of the stream gets no label.                        *)
MemStreams(basic) ==
  UNION { { [k \in 1..(n + 2) |->
               Unlabelled("mem", IF k \in 2..(n + 1) THEN m[k - 1] ELSE "OTHER")]
            : m \in [1..n -> basic] } : n \in 0..MaxMixed }

(* A jump stream: every instruction is labelled, the jumps and the last     *)
(* instruction with the numbers 0 .. num_of_jump_instr.                     *)
JalStreams(basic) ==
  { [k \in 1..(NJumps + 2) |->
       [Instr("jal", IF k = NJumps + 2 THEN c ELSE "OTHER")
          EXCEPT !.label = IF k = 1 THEN Named ELSE k - 2]]
    : c \in basic }

(* The instructions drawn for the loop itself: the two inits and the update *)
(* of each loop, six instructions per loop.                                 *)
Drawn(nested) == {k \in 1..(6 * nested) : (k - 1) % 6 \in {0, 1, 3}}

(* A drawn instruction of a loop: get_rand_instr takes it from all          *)
(* instructions, so that it may be a branch.  The first ones stand twice.   *)
DrawnInstr(k, nested, branches) ==
  [Unlabelled("loop", IF k \in branches THEN "BRANCH" ELSE "OTHER")
     EXCEPT !.shared = IF k <= nested THEN k ELSE 0]

LoopTarget(i) == [Instr("loop", "OTHER") EXCEPT !.label = LoopLabel(i)]

LoopBranch(i) == [Unlabelled("loop", "BRANCH") EXCEPT !.assigned = TRUE,
                                                      !.target = LoopLabel(i)]

LoopOf(k) == 1 + (k - 1) \div 6

(* The loops one after the other: init, limit, target, update, an init once *)
(* more and the backward branch.  What loop i appends once more is          *)
(* self.loop_instr[i - 1], the i-th object of the list being built: the     *)
(* init of loop 1 in loop 1, the limit of loop 1 in loop 2.  It is the      *)
(* object itself, not a copy.                                               *)
LoopSkeleton(nested, branches) ==
  [k \in 1..(6 * nested) |->
     CASE (k - 1) % 6 = 2 -> LoopTarget(LoopOf(k))
       [] (k - 1) % 6 = 4 -> DrawnInstr(LoopOf(k), nested, branches)
       [] (k - 1) % 6 = 5 -> LoopBranch(LoopOf(k))
       [] OTHER           -> DrawnInstr(k, nested, branches)]

(* The loops mixed into a body of n instructions (of what gen_instr leaves, *)
(* none only if all were branches).  body gives the categories of the       *)
(* instructions between the loops' own, at their places in the mixed stream.*)
MixedLoop(loops, at, n, body) ==
  [k \in 1..(n + Len(loops)) |->
     IF \E i \in DOMAIN loops : at[i] = k
     THEN loops[CHOOSE i \in DOMAIN loops : at[i] = k]
     ELSE Unlabelled("loop", body[k])]

LoopBodies(at, n, basic) ==
  LET places == {k \in 1..(n + Len(at)) : \A i \in DOMAIN at : at[i] # k}
  IN {body \in [places -> basic] :
        \A k \in places : (\A j \in places : j <= k) => body[k] # "BRANCH"}

OwnBranches(nested) == {b \in SUBSET Drawn(nested) : Cardinality(b) <= MaxOwnBranch}

LoopStreams(basic) ==
  UNION { UNION { {MixedLoop(LoopSkeleton(nested, own), at, n, body)
                   : own \in OwnBranches(nested), body \in LoopBodies(at, n, basic)}
                  : at \in MixSlots(6 * nested, n) }
          : nested \in 1..MaxNested,
            n \in {m \in 0..MaxBody : m = 0 => "BRANCH" \in basic} }

StreamsOf(kind, basic) ==
  CASE kind = "mem"  -> MemStreams(basic)
    [] kind = "jal"  -> JalStreams(basic)
    [] kind = "loop" -> LoopStreams(basic)
=============================================================================
