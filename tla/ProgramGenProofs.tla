-------------------------- MODULE ProgramGenProofs --------------------------
(***************************************************************************)
(* Theorems about the program generator, for every number of harts,        *)
(* instructions, streams and branch steps: what the variables hold, that   *)
(* directed streams stay in one piece, that branches go forward and not    *)
(* into a memory stream or a loop, and that the loops of a stream, one or  *)
(* two, stay closed.                                                       *)
(***************************************************************************)
EXTENDS ProgramGen, TLAPS, SequenceTheorems, FiniteSetTheorems, WellFoundedInduction

-----------------------------------------------------------------------------
(* The inductive invariant.                                                 *)

Directed(d, s) ==
  /\ d \in InstrType /\ d.sid = s /\ d.atomic
  /\ d.assigned => d.target \in LoopLabels

\* The same in everything but the place: what one object is at two places.
Alike(d, e) ==
  /\ d.kind = e.kind /\ d.sid = e.sid /\ d.category = e.category
  /\ d.atomic = e.atomic /\ d.has_label = e.has_label /\ d.label = e.label
  /\ d.local = e.local /\ d.idx = e.idx /\ d.assigned = e.assigned
  /\ d.target = e.target /\ d.shared = e.shared

SharedAlike(s) ==
  \A j, k \in 1..Len(s) :
    s[j].shared # 0 /\ s[k].shared = s[j].shared => Alike(s[j], s[k])

StreamOk(stream, s) ==
  /\ stream \in Seq(InstrType) /\ Len(stream) > 0
  /\ \A k \in 1..Len(stream) : Directed(stream[k], s) /\ stream[k].part = k
  /\ SharedAlike(stream)

DirectedOk == \A s \in 1..Len(directed) : StreamOk(directed[s], s)

Later == {"label", "branch", "emit", "emitted"}

\* Random instructions are those that are not atomic, and if there is one the
\* last instruction is one and no branch.
RandomLast ==
  /\ \A k \in 1..Len(list) : list[k].sid = 0 <=> ~list[k].atomic
  /\ \A k \in 1..Len(list) : list[k].sid = 0 =>
       list[Len(list)].sid = 0 /\ list[Len(list)].category # "BRANCH"

\* An object that stands twice does so in one atomic stream, and is the same at
\* both places.  After the emission the labels are those of the lines.
AllAlike(l) ==
  \A j, k \in 1..Len(l) : SameObject(l, j, k) => Alike(l[j], l[k])

Together(l) ==
  /\ \A k \in 1..Len(l) : l[k].shared # 0 => l[k].atomic
  /\ \A j, m, k \in 1..Len(l) : j < m /\ m < k /\ SameObject(l, j, k) => l[m].atomic

Aliases ==
  /\ phase = "insert" => \A k \in 1..Len(list) : list[k].sid < pos
  /\ phase \notin {"emitted", "done"} => Together(list) /\ AllAlike(list)

\* What has not been reached by the third loop yet.
Fresh ==
  /\ phase \in {"insert", "label", "branch"} =>
       \A k \in 1..Len(list) : (phase = "branch" => k >= pos) /\ ~list[k].atomic
         => list[k].has_label
  /\ phase \in {"insert", "label"} =>
       \A k \in 1..Len(list) : list[k].assigned => list[k].target \in LoopLabels

Numbered == {k \in 1..Len(list) : phase = "label" => k < pos}

Numbering ==
  phase \in Later =>
    /\ \A k \in Numbered :
         /\ list[k].idx \in 0..label_idx
         /\ ~list[k].atomic =>
              /\ list[k].idx < label_idx
              /\ phase # "emitted" => list[k].label = list[k].idx /\ list[k].local
    /\ \A j, k \in Numbered : j < k =>
         /\ ~list[k].atomic => list[j].idx <= list[k].idx
         /\ ~list[j].atomic => list[j].idx < list[k].idx
    /\ \A v \in 0..(label_idx - 1) : \E k \in Numbered :
         ~list[k].atomic /\ list[k].idx = v

Served(k) ==
  \E m \in (k + 1)..Len(list) :
    list[m].has_label /\ list[m].label = list[k].target

\* A branch is given its target when the third loop comes to it, or to the
\* first of its two places.
Reached(k) == phase = "branch" => k < pos \/ list[k].assigned

Targets ==
  phase \in {"branch", "emit", "emitted"} =>
    \A k \in 1..Len(list) : Reached(k) /\ ForwardBranch(k) =>
      /\ list[k].target >= -1
      /\ HasRandom => list[k].target \in branch_target /\ Served(k)

IInv == /\ DirectedOk /\ StreamsIntact /\ RandomLast /\ Aliases
        /\ Fresh /\ Numbering /\ Targets

-----------------------------------------------------------------------------
(* Facts about the streams.                                                 *)

LEMMA LoopLabelValues ==
  /\ LoopLabels \subseteq Int /\ \A v \in LoopLabels : v < -3
  /\ NoLabel \notin LoopLabels /\ Named \notin LoopLabels
<1>1. \A i \in 1..MaxNested : LoopLabel(i) \in Int /\ LoopLabel(i) < -3
  BY ShapeAssumption DEF LoopLabel
<1>2. LoopLabels \subseteq Int /\ \A v \in LoopLabels : v < -3
  BY <1>1 DEF LoopLabels
<1>3. ~(NoLabel < -3) /\ ~(Named < -3)
  BY DEF NoLabel, Named
<1> QED
  BY <1>2, <1>3

LEMMA InstrTyped ==
  ASSUME NEW kind \in Kind, NEW c \in Category
  PROVE  /\ Instr(kind, c) \in InstrType /\ Unlabelled(kind, c) \in InstrType
         /\ ~Instr(kind, c).assigned /\ ~Unlabelled(kind, c).assigned
         /\ Instr(kind, c).shared = 0 /\ Unlabelled(kind, c).shared = 0
<1>1. kind \in Kind /\ c \in Category /\ NoLabel \in Int
  BY DEF NoLabel
<1>2. Instr(kind, c) \in InstrType /\ ~Instr(kind, c).assigned
  BY <1>1 DEF Instr, InstrType
<1>3. Unlabelled(kind, c) \in InstrType /\ ~Unlabelled(kind, c).assigned
  BY <1>2 DEF Unlabelled, InstrType
<1>4. Instr(kind, c).shared = 0 /\ Unlabelled(kind, c).shared = 0
  BY DEF Instr, Unlabelled
<1> QED
  BY <1>2, <1>3, <1>4

\* A function on 1..n with values in T is a sequence over T of length n.
LEMMA FcnSeq ==
  ASSUME NEW T, NEW n \in Nat, NEW f, DOMAIN f = 1..n,
         f = [k \in 1..n |-> f[k]], \A k \in 1..n : f[k] \in T
  PROVE  f \in Seq(T) /\ Len(f) = n
<1>1. f \in [1..n -> T]
  BY Zenon
<1> QED
  BY <1>1

LEMMA SplicedSeq ==
  ASSUME NEW T, NEW l \in Seq(T), NEW s \in Seq(T), NEW i \in 1..Len(l)
  PROVE  Spliced(l, i, s) \in Seq(T) /\ Len(Spliced(l, i, s)) = Len(l) + Len(s)
<1> DEFINE n == Len(l) + Len(s)
           e(k) == IF k < i THEN l[k]
                   ELSE IF k < i + Len(s) THEN s[k - i + 1] ELSE l[k - Len(s)]
<1>1. Len(l) \in Nat /\ Len(s) \in Nat /\ n \in Nat
  OBVIOUS
<1>2. ASSUME NEW k \in 1..n PROVE e(k) \in T
  <2>1. CASE k < i
    BY <2>1, <1>1
  <2>2. CASE k >= i /\ k < i + Len(s)
    <3>1. k - i + 1 \in 1..Len(s)
      BY <2>2, <1>1
    <3> QED
      BY <2>2, <3>1, <1>1
  <2>3. CASE k >= i + Len(s)
    <3>1. k - Len(s) \in 1..Len(l) /\ ~(k < i)
      BY <2>3, <1>1
    <3> QED
      BY <2>3, <3>1, <1>1
  <2> QED
    BY <2>1, <2>2, <2>3, <1>1
<1>3. Spliced(l, i, s) = [k \in 1..n |-> e(k)]
  BY DEF Spliced
<1> HIDE DEF e, n
<1> QED
  BY <1>1, <1>2, <1>3 DEF n

\* What every directed stream is made of, before it is marked.
Raw(s) ==
  /\ s \in Seq(InstrType) /\ Len(s) > 0
  /\ \A k \in 1..Len(s) : s[k].assigned => s[k].target \in LoopLabels
  /\ SharedAlike(s)

\* A mark changes the stream, the place and whether it is atomic.
Marks(m, d, sid, k) ==
  /\ m \in InstrType /\ m.sid = sid /\ m.part = k /\ m.atomic = TRUE
  /\ m.kind = d.kind /\ m.category = d.category
  /\ m.has_label = d.has_label /\ m.label = d.label /\ m.local = d.local
  /\ m.idx = d.idx /\ m.assigned = d.assigned /\ m.target = d.target
  /\ m.shared = d.shared

LEMMA MarkedAt ==
  ASSUME NEW s, Raw(s), NEW sid \in Nat, NEW k \in 1..Len(s)
  PROVE  Marks(AsStream(s, sid)[k], s[k], sid, k)
<1> DEFINE m == AsStream(s, sid)[k]
<1>1. PICK d : d = s[k]
  OBVIOUS
<1>2. d \in InstrType /\ k \in Nat
  BY <1>1 DEF Raw
<1>3. m = [d EXCEPT !.atomic = TRUE, !.sid = sid, !.part = k]
  BY <1>1 DEF AsStream
<1> HIDE DEF m
<1>4. m \in InstrType
  BY <1>2, <1>3 DEF InstrType
<1>5. /\ m.kind = d.kind /\ m.sid = sid /\ m.part = k /\ m.category = d.category
      /\ m.label = d.label /\ m.idx = d.idx /\ m.target = d.target
      /\ m.shared = d.shared
  BY <1>2, <1>3 DEF InstrType
<1>6. m.atomic = TRUE
  BY <1>2, <1>3 DEF InstrType
<1>7. m.has_label = d.has_label
  BY <1>2, <1>3 DEF InstrType
<1>8. m.local = d.local
  BY <1>2, <1>3 DEF InstrType
<1>9. m.assigned = d.assigned
  BY <1>2, <1>3 DEF InstrType
<1> QED
  BY <1>1, <1>4, <1>5, <1>6, <1>7, <1>8, <1>9 DEF m, Marks

LEMMA MarkedStream ==
  ASSUME NEW s, Raw(s), NEW sid \in Nat
  PROVE  StreamOk(AsStream(s, sid), sid)
<1> DEFINE a == AsStream(s, sid)
<1>1. Len(s) \in Nat /\ Len(s) > 0
  BY DEF Raw
<1>2. DOMAIN a = 1..Len(s) /\ a = [k \in 1..Len(s) |-> a[k]]
  BY DEF AsStream
<1>3. \A k \in 1..Len(s) : Marks(a[k], s[k], sid, k)
  BY MarkedAt
<1> HIDE DEF a
<1>4. a \in Seq(InstrType) /\ Len(a) = Len(s)
  <2>1. \A k \in 1..Len(s) : a[k] \in InstrType
    BY <1>3 DEF Marks
  <2> QED
    BY <1>1, <1>2, <2>1, FcnSeq
<1>5. ASSUME NEW k \in 1..Len(s) PROVE Directed(a[k], sid) /\ a[k].part = k
  <2>1. s[k].assigned => s[k].target \in LoopLabels
    BY DEF Raw
  <2> QED
    BY <1>3, <2>1 DEF Marks, Directed
<1>6. ASSUME NEW j \in 1..Len(s), NEW k \in 1..Len(s),
             a[j].shared # 0, a[k].shared = a[j].shared
      PROVE  Alike(a[j], a[k])
  <2>1. Marks(a[j], s[j], sid, j) /\ Marks(a[k], s[k], sid, k)
    BY <1>3
  <2>2. Alike(s[j], s[k])
    BY <1>6, <2>1 DEF Raw, SharedAlike, Marks
  <2> QED
    BY <2>1, <2>2 DEF Alike, Marks
<1> QED
  BY <1>1, <1>4, <1>5, <1>6 DEF StreamOk, SharedAlike, a

LEMMA MemRaw ==
  ASSUME NEW basic_ \in SUBSET Category, NEW s \in MemStreams(basic_)
  PROVE  Raw(s)
<1>1. PICK n \in 0..MaxMixed : \E m \in [1..n -> basic_] :
        s = [k \in 1..(n + 2) |-> Unlabelled("mem", IF k \in 2..(n + 1) THEN m[k - 1]
                                                    ELSE "OTHER")]
  BY DEF MemStreams
<1>2. PICK m \in [1..n -> basic_] :
        s = [k \in 1..(n + 2) |-> Unlabelled("mem", IF k \in 2..(n + 1) THEN m[k - 1]
                                                    ELSE "OTHER")]
  BY <1>1
<1>3. n \in Nat
  BY ShapeAssumption
<1>4. ASSUME NEW k \in 1..(n + 2)
      PROVE  s[k] \in InstrType /\ ~s[k].assigned /\ s[k].shared = 0
  <2> DEFINE c == IF k \in 2..(n + 1) THEN m[k - 1] ELSE "OTHER"
  <2>1. c \in Category
    <3>1. k \in 2..(n + 1) => k - 1 \in 1..n
      BY <1>3
    <3> QED
      BY <3>1 DEF Category
  <2>2. s[k] = Unlabelled("mem", c)
    BY <1>2
  <2> HIDE DEF c
  <2> QED
    BY <2>1, <2>2, InstrTyped DEF Kind
<1>5. s \in Seq(InstrType) /\ Len(s) = n + 2
  BY <1>2, <1>3, <1>4, n + 2 \in Nat, FcnSeq
<1> QED
  BY <1>3, <1>4, <1>5 DEF Raw, SharedAlike

LEMMA JalRaw ==
  ASSUME NEW basic_ \in SUBSET Category, NEW s \in JalStreams(basic_)
  PROVE  Raw(s)
<1>1. PICK c \in basic_ :
        s = [k \in 1..(NJumps + 2) |->
               [Instr("jal", IF k = NJumps + 2 THEN c ELSE "OTHER")
                  EXCEPT !.label = IF k = 1 THEN Named ELSE k - 2]]
  BY DEF JalStreams
<1>2. NJumps \in Nat
  BY ShapeAssumption
<1>3. ASSUME NEW k \in 1..(NJumps + 2)
      PROVE  s[k] \in InstrType /\ ~s[k].assigned /\ s[k].shared = 0
  <2> DEFINE d == IF k = NJumps + 2 THEN c ELSE "OTHER"
             v == IF k = 1 THEN Named ELSE k - 2
  <2>1. d \in Category /\ v \in Int
    BY <1>2 DEF Category, Named
  <2>2. s[k] = [Instr("jal", d) EXCEPT !.label = v]
    BY <1>1
  <2> HIDE DEF d, v
  <2>3. /\ Instr("jal", d) \in InstrType /\ ~Instr("jal", d).assigned
        /\ Instr("jal", d).shared = 0
    BY <2>1, InstrTyped DEF Kind
  <2> QED
    BY <2>1, <2>2, <2>3 DEF InstrType
<1>4. s \in Seq(InstrType) /\ Len(s) = NJumps + 2
  BY <1>1, <1>2, <1>3, NJumps + 2 \in Nat, FcnSeq
<1> QED
  BY <1>2, <1>3, <1>4 DEF Raw, SharedAlike

\* What a loop is made of.  Only a drawn instruction of the first ones has a
\* number in shared, and the number says which it is.
LEMMA DrawnRaw ==
  ASSUME NEW k \in Nat, NEW nested \in Nat, NEW own
  PROVE  /\ DrawnInstr(k, nested, own) \in InstrType
         /\ ~DrawnInstr(k, nested, own).assigned
         /\ DrawnInstr(k, nested, own).shared = IF k <= nested THEN k ELSE 0
<1> DEFINE c == IF k \in own THEN "BRANCH" ELSE "OTHER"
           v == IF k <= nested THEN k ELSE 0
<1>1. c \in Category /\ v \in Nat
  BY DEF Category
<1>2. DrawnInstr(k, nested, own) = [Unlabelled("loop", c) EXCEPT !.shared = v]
  BY DEF DrawnInstr
<1> HIDE DEF c
<1>3. Unlabelled("loop", c) \in InstrType /\ ~Unlabelled("loop", c).assigned
  BY <1>1, InstrTyped DEF Kind
<1>4. [Unlabelled("loop", c) EXCEPT !.shared = v] \in InstrType
  BY <1>1, <1>3 DEF InstrType
<1>5. ~[Unlabelled("loop", c) EXCEPT !.shared = v].assigned
  BY <1>1, <1>3 DEF InstrType
<1>6. [Unlabelled("loop", c) EXCEPT !.shared = v].shared = v
  BY <1>1, <1>3 DEF InstrType
<1> QED
  BY <1>2, <1>4, <1>5, <1>6

LEMMA TargetRaw ==
  ASSUME NEW i \in 1..MaxNested
  PROVE  LoopTarget(i) \in InstrType /\ ~LoopTarget(i).assigned /\ LoopTarget(i).shared = 0
<1>1. LoopLabel(i) \in Int
  BY LoopLabelValues DEF LoopLabels
<1>2. /\ Instr("loop", "OTHER") \in InstrType /\ ~Instr("loop", "OTHER").assigned
      /\ Instr("loop", "OTHER").shared = 0
  BY InstrTyped DEF Kind, Category
<1> QED
  BY <1>1, <1>2 DEF LoopTarget, InstrType

LEMMA BranchRaw ==
  ASSUME NEW i \in 1..MaxNested
  PROVE  /\ LoopBranch(i) \in InstrType /\ LoopBranch(i).target \in LoopLabels
         /\ LoopBranch(i).shared = 0
<1>1. LoopLabel(i) \in Int /\ LoopLabel(i) \in LoopLabels
  BY LoopLabelValues DEF LoopLabels
<1>2. /\ Unlabelled("loop", "BRANCH") \in InstrType
      /\ Unlabelled("loop", "BRANCH").shared = 0
  BY InstrTyped DEF Kind, Category
<1>3. LoopBranch(i) \in InstrType
  BY <1>1, <1>2 DEF LoopBranch, InstrType
<1>4. LoopBranch(i).target = LoopLabel(i) /\ LoopBranch(i).shared = 0
  BY <1>1, <1>2 DEF LoopBranch, InstrType
<1> QED
  BY <1>1, <1>3, <1>4

\* The element at each place of the loops.
LEMMA SkeletonAt ==
  ASSUME NEW nested \in 1..MaxNested, NEW own, NEW i \in 1..(6 * nested)
  PROVE  /\ LoopOf(i) \in 1..nested
         /\ \/ (i - 1) % 6 = 2 /\ LoopSkeleton(nested, own)[i] = LoopTarget(LoopOf(i))
            \/ (i - 1) % 6 = 5 /\ LoopSkeleton(nested, own)[i] = LoopBranch(LoopOf(i))
            \/ \E k \in 1..(6 * nested) :
                 LoopSkeleton(nested, own)[i] = DrawnInstr(k, nested, own)
<1>1. nested \in {1, 2} /\ i \in Nat
  BY ShapeAssumption
<1>2. LoopOf(i) \in 1..nested
  BY <1>1 DEF LoopOf
<1> DEFINE r == (i - 1) % 6
<1>3. LoopSkeleton(nested, own)[i] =
        CASE r = 2 -> LoopTarget(LoopOf(i))
          [] r = 4 -> DrawnInstr(LoopOf(i), nested, own)
          [] r = 5 -> LoopBranch(LoopOf(i))
          [] OTHER -> DrawnInstr(i, nested, own)
  BY DEF LoopSkeleton
<1>4. LoopOf(i) \in 1..(6 * nested)
  BY <1>1, <1>2
<1> HIDE DEF r
<1>5. CASE r = 2
  BY <1>2, <1>3, <1>5 DEF r
<1>6. CASE r = 5
  BY <1>2, <1>3, <1>6 DEF r
<1>7. CASE r = 4
  BY <1>2, <1>3, <1>4, <1>7
<1>8. CASE r # 2 /\ r # 4 /\ r # 5
  BY <1>2, <1>3, <1>8
<1> QED
  BY <1>5, <1>6, <1>7, <1>8

LEMMA SkeletonRaw ==
  ASSUME NEW nested \in 1..MaxNested, NEW own
  PROVE  /\ Len(LoopSkeleton(nested, own)) = 6 * nested
         /\ \A i \in 1..(6 * nested) :
              /\ LoopSkeleton(nested, own)[i] \in InstrType
              /\ LoopSkeleton(nested, own)[i].assigned
                   => LoopSkeleton(nested, own)[i].target \in LoopLabels
              /\ LoopSkeleton(nested, own)[i].shared # 0 =>
                   LoopSkeleton(nested, own)[i] =
                     DrawnInstr(LoopSkeleton(nested, own)[i].shared, nested, own)
<1>1. nested \in {1, 2}
  BY ShapeAssumption
<1>2. Len(LoopSkeleton(nested, own)) = 6 * nested
  BY <1>1 DEF LoopSkeleton
<1>3. ASSUME NEW i \in 1..(6 * nested)
      PROVE  /\ LoopSkeleton(nested, own)[i] \in InstrType
             /\ LoopSkeleton(nested, own)[i].assigned
                  => LoopSkeleton(nested, own)[i].target \in LoopLabels
             /\ LoopSkeleton(nested, own)[i].shared # 0 =>
                  LoopSkeleton(nested, own)[i] =
                    DrawnInstr(LoopSkeleton(nested, own)[i].shared, nested, own)
  <2> DEFINE d == LoopSkeleton(nested, own)[i]
  <2>1. LoopOf(i) \in 1..MaxNested
    BY <1>1, SkeletonAt, ShapeAssumption
  <2>2. \/ d = LoopTarget(LoopOf(i)) \/ d = LoopBranch(LoopOf(i))
        \/ \E k \in 1..(6 * nested) : d = DrawnInstr(k, nested, own)
    BY SkeletonAt
  <2> HIDE DEF d
  <2>3. CASE d = LoopTarget(LoopOf(i))
    BY <2>1, <2>3, TargetRaw DEF d
  <2>4. CASE d = LoopBranch(LoopOf(i))
    BY <2>1, <2>4, BranchRaw DEF d
  <2>5. ASSUME NEW k \in 1..(6 * nested), d = DrawnInstr(k, nested, own)
        PROVE  /\ d \in InstrType /\ ~d.assigned
               /\ d.shared # 0 => d = DrawnInstr(d.shared, nested, own)
    <3>1. k \in Nat /\ nested \in Nat
      BY <1>1
    <3> QED
      BY <2>5, <3>1, DrawnRaw
  <2> QED
    BY <2>2, <2>3, <2>4, <2>5 DEF d
<1> QED
  BY <1>2, <1>3

LEMMA LoopPick ==
  ASSUME NEW basic_ \in SUBSET Category, NEW s \in LoopStreams(basic_)
  PROVE  \E nested \in 1..MaxNested, n \in Nat : \E at \in MixSlots(6 * nested, n) :
         \E own : \E body \in LoopBodies(at, n, basic_) :
           s = MixedLoop(LoopSkeleton(nested, own), at, n, body)
<1>1. PICK nested \in 1..MaxNested, n \in {m \in 0..MaxBody : m = 0 => "BRANCH" \in basic_} :
        s \in UNION {{MixedLoop(LoopSkeleton(nested, own), at, n, body)
                      : own \in OwnBranches(nested), body \in LoopBodies(at, n, basic_)}
                     : at \in MixSlots(6 * nested, n)}
  BY DEF LoopStreams
<1>2. PICK at \in MixSlots(6 * nested, n) :
        s \in {MixedLoop(LoopSkeleton(nested, own), at, n, body)
               : own \in OwnBranches(nested), body \in LoopBodies(at, n, basic_)}
  BY <1>1
<1>3. n \in Nat
  BY ShapeAssumption
<1> QED
  BY <1>2, <1>3

LEMMA LoopRaw ==
  ASSUME NEW basic_ \in SUBSET Category, NEW s \in LoopStreams(basic_)
  PROVE  Raw(s)
<1>1. PICK nested \in 1..MaxNested, n \in Nat : \E at \in MixSlots(6 * nested, n) :
        \E own : \E body \in LoopBodies(at, n, basic_) :
          s = MixedLoop(LoopSkeleton(nested, own), at, n, body)
  BY LoopPick
<1>2. PICK at \in MixSlots(6 * nested, n) :
        \E own : \E body \in LoopBodies(at, n, basic_) :
          s = MixedLoop(LoopSkeleton(nested, own), at, n, body)
  BY <1>1
<1>3. PICK own : \E body \in LoopBodies(at, n, basic_) :
        s = MixedLoop(LoopSkeleton(nested, own), at, n, body)
  BY <1>2
<1>4. PICK body \in LoopBodies(at, n, basic_) :
        s = MixedLoop(LoopSkeleton(nested, own), at, n, body)
  BY <1>3
<1> DEFINE S == LoopSkeleton(nested, own)
           N == 6 * nested
<1>5. N \in Nat /\ N > 0 /\ Len(S) = N /\ DOMAIN S = 1..N
  BY ShapeAssumption, SkeletonRaw DEF LoopSkeleton
<1>6. /\ DOMAIN at = 1..N /\ Len(at) = N
      /\ \A k \in 1..(n + N) : (\A i \in 1..N : at[i] # k) => body[k] \in Category
  <2>1. DOMAIN at = 1..N /\ Len(at) = N
    BY <1>2, <1>5 DEF MixSlots
  <2> QED
    BY <1>4, <2>1 DEF LoopBodies
<1>7. ASSUME NEW k \in 1..(n + N)
      PROVE  \/ \E i \in 1..N : s[k] = S[i]
             \/ \E c \in Category : s[k] = Unlabelled("loop", c)
  <2>1. CASE \E i \in 1..N : at[i] = k
    <3>1. (CHOOSE i \in DOMAIN S : at[i] = k) \in 1..N
      BY <1>5, <2>1
    <3>2. s[k] = S[CHOOSE i \in DOMAIN S : at[i] = k]
      BY <1>4, <1>5, <2>1 DEF MixedLoop
    <3> QED
      BY <3>1, <3>2
  <2>2. CASE \A i \in 1..N : at[i] # k
    <3>1. s[k] = Unlabelled("loop", body[k])
      BY <1>4, <1>5, <2>2 DEF MixedLoop
    <3> QED
      BY <1>6, <2>2, <3>1
  <2> QED
    BY <2>1, <2>2
<1>8. \A i \in 1..N :
        /\ S[i] \in InstrType /\ (S[i].assigned => S[i].target \in LoopLabels)
        /\ S[i].shared # 0 => S[i] = DrawnInstr(S[i].shared, nested, own)
  BY SkeletonRaw
<1>9. \A c \in Category : /\ Unlabelled("loop", c) \in InstrType
                          /\ ~Unlabelled("loop", c).assigned
                          /\ Unlabelled("loop", c).shared = 0
  BY InstrTyped DEF Kind
<1>10. DOMAIN s = 1..(n + N) /\ s = [k \in 1..(n + N) |-> s[k]]
  BY <1>4, <1>5 DEF MixedLoop
<1> HIDE DEF S, N
<1>11. ASSUME NEW k \in 1..(n + N)
       PROVE  /\ s[k] \in InstrType /\ (s[k].assigned => s[k].target \in LoopLabels)
              /\ s[k].shared # 0 => s[k] = DrawnInstr(s[k].shared, nested, own)
  BY <1>7, <1>8, <1>9
<1>12. s \in Seq(InstrType) /\ Len(s) = n + N
  BY <1>5, <1>10, <1>11, n + N \in Nat, FcnSeq
<1>13. SharedAlike(s)
  BY <1>11, <1>12 DEF SharedAlike, Alike
<1> QED
  BY <1>5, <1>11, <1>12, <1>13 DEF Raw

LEMMA StreamsOfRaw ==
  ASSUME NEW basic_ \in SUBSET Category, NEW kind \in Kind \ {"random"},
         NEW s \in StreamsOf(kind, basic_)
  PROVE  Raw(s)
BY MemRaw, JalRaw, LoopRaw DEF StreamsOf, Kind

-----------------------------------------------------------------------------
(* Type correctness, with one lemma for each action that builds a list.     *)

LEMMA LabelTyped ==
  ASSUME NEW d \in InstrType, label_idx \in Nat
  PROVE  /\ LabelInstr(d) \in InstrType
         /\ LabelInstr(d).sid = d.sid /\ LabelInstr(d).part = d.part
         /\ LabelInstr(d).atomic = d.atomic /\ LabelInstr(d).idx = label_idx
         /\ LabelInstr(d).category = d.category
         /\ LabelInstr(d).has_label = d.has_label
         /\ LabelInstr(d).assigned = d.assigned /\ LabelInstr(d).target = d.target
         /\ TakesLabel(d) => LabelInstr(d).label = label_idx /\ LabelInstr(d).local
         /\ LabelInstr(d).kind = d.kind /\ LabelInstr(d).shared = d.shared
         /\ ~TakesLabel(d) =>
              LabelInstr(d).label = d.label /\ LabelInstr(d).local = d.local
<1>1. CASE TakesLabel(d)
  <2> DEFINE e == [d EXCEPT !.idx = label_idx, !.label = label_idx, !.local = TRUE]
  <2>1. LabelInstr(d) = e /\ label_idx \in Int
    BY <1>1 DEF LabelInstr
  <2>2. e \in InstrType
    BY <2>1 DEF InstrType
  <2>3. /\ e.sid = d.sid /\ e.part = d.part /\ e.atomic = d.atomic
        /\ e.idx = label_idx /\ e.category = d.category /\ e.has_label = d.has_label
        /\ e.assigned = d.assigned /\ e.target = d.target
        /\ e.label = label_idx /\ e.kind = d.kind /\ e.shared = d.shared
    BY DEF InstrType
  <2>4. e.local
    BY DEF InstrType
  <2> QED
    BY <1>1, <2>1, <2>2, <2>3, <2>4
<1>2. CASE ~TakesLabel(d)
  BY <1>2 DEF LabelInstr, InstrType
<1> QED
  BY <1>1, <1>2

LEMMA TargetTyped ==
  ASSUME NEW d \in InstrType, label_idx \in Nat, NEW step \in Nat
  PROVE  /\ WithTarget(d, step) \in InstrType
         /\ WithTarget(d, step).sid = d.sid /\ WithTarget(d, step).part = d.part
         /\ WithTarget(d, step).atomic = d.atomic /\ WithTarget(d, step).idx = d.idx
         /\ WithTarget(d, step).label = d.label
         /\ WithTarget(d, step).local = d.local
         /\ WithTarget(d, step).has_label = d.has_label
         /\ WithTarget(d, step).category = d.category
         /\ WithTarget(d, step).kind = d.kind
         /\ WithTarget(d, step).shared = d.shared
         /\ NeedsTarget(d) => WithTarget(d, step).target = BranchTargetLabel(d, step)
         /\ ~NeedsTarget(d) => /\ WithTarget(d, step).target = d.target
                              /\ WithTarget(d, step).assigned = d.assigned
<1>1. BranchTargetLabel(d, step) \in Int
  BY DEF BranchTargetLabel, InstrType
<1>2. CASE NeedsTarget(d)
  <2> DEFINE v == BranchTargetLabel(d, step)
  <2>1. WithTarget(d, step) = [d EXCEPT !.assigned = TRUE, !.target = v] /\ v \in Int
    BY <1>1, <1>2 DEF WithTarget
  <2> HIDE DEF v
  <2>2. [d EXCEPT !.assigned = TRUE, !.target = v] \in InstrType
    BY <2>1 DEF InstrType
  <2>3. WithTarget(d, step).target = v
    BY <2>1 DEF InstrType
  <2>4. /\ WithTarget(d, step).sid = d.sid /\ WithTarget(d, step).part = d.part
        /\ WithTarget(d, step).atomic = d.atomic /\ WithTarget(d, step).idx = d.idx
        /\ WithTarget(d, step).label = d.label
        /\ WithTarget(d, step).local = d.local
        /\ WithTarget(d, step).has_label = d.has_label
        /\ WithTarget(d, step).category = d.category
        /\ WithTarget(d, step).kind = d.kind
        /\ WithTarget(d, step).shared = d.shared
    BY <2>1 DEF InstrType
  <2> QED
    BY <1>2, <2>1, <2>2, <2>3, <2>4 DEF v
<1>3. CASE ~NeedsTarget(d)
  BY <1>3 DEF WithTarget
<1> QED
  BY <1>2, <1>3

LEMMA DropTyped ==
  ASSUME NEW d \in InstrType, NEW asked
  PROVE  /\ DropLabel(d, asked) \in InstrType
         /\ DropLabel(d, asked).sid = d.sid /\ DropLabel(d, asked).part = d.part
         /\ DropLabel(d, asked).atomic = d.atomic /\ DropLabel(d, asked).idx = d.idx
         /\ DropLabel(d, asked).label = d.label
         /\ DropLabel(d, asked).local = d.local
         /\ DropLabel(d, asked).category = d.category
         /\ DropLabel(d, asked).target = d.target
         /\ DropLabel(d, asked).assigned = d.assigned
         /\ d.has_label /\ d.label \in asked => DropLabel(d, asked).has_label
         /\ DropLabel(d, asked).kind = d.kind
         /\ DropLabel(d, asked).shared = d.shared
         /\ DropLabel(d, asked).has_label => d.has_label
         /\ d.has_label /\ ~d.local => DropLabel(d, asked).has_label
<1>1. CASE d.has_label /\ d.local /\ d.label \notin asked
  BY <1>1 DEF DropLabel, InstrType
<1>2. CASE ~(d.has_label /\ d.local /\ d.label \notin asked)
  BY <1>2 DEF DropLabel
<1> QED
  BY <1>1, <1>2

LEMMA EmitTyped ==
  ASSUME NEW d \in InstrType
  PROVE  LET e == [d EXCEPT !.has_label = TRUE]
         IN /\ e \in InstrType /\ e.has_label
            /\ e.kind = d.kind /\ e.sid = d.sid /\ e.part = d.part
            /\ e.category = d.category /\ e.atomic = d.atomic /\ e.label = d.label
            /\ e.local = d.local /\ e.idx = d.idx /\ e.assigned = d.assigned
            /\ e.target = d.target /\ e.shared = d.shared
BY DEF InstrType

\* What the emission makes of an instruction: nothing, or it sets has_label.
EmitResult(d, e) ==
  /\ e.kind = d.kind /\ e.sid = d.sid /\ e.category = d.category
  /\ e.atomic = d.atomic /\ e.local = d.local /\ e.idx = d.idx
  /\ e.assigned = d.assigned /\ e.target = d.target /\ e.shared = d.shared
  /\ d.has_label => e.has_label

\* The name of the program on a line.
NamedResult(d, e) ==
  /\ e \in InstrType /\ EmitResult(d, e) /\ e.label = Named
  /\ e.part = d.part /\ e.has_label = d.has_label

LEMMA NamedTyped ==
  ASSUME NEW d \in InstrType
  PROVE  NamedResult(d, [d EXCEPT !.label = Named])
<1> DEFINE e == [d EXCEPT !.label = Named]
<1>1. Named \in Int
  BY DEF Named
<1>2. /\ e \in InstrType /\ e.label = Named
      /\ e.kind = d.kind /\ e.sid = d.sid /\ e.part = d.part
      /\ e.category = d.category /\ e.atomic = d.atomic
      /\ e.has_label = d.has_label
      /\ e.local = d.local /\ e.idx = d.idx /\ e.assigned = d.assigned
      /\ e.target = d.target /\ e.shared = d.shared
  BY <1>1 DEF InstrType
<1> HIDE DEF e
<1>3. NamedResult(d, e)
  BY <1>2 DEF NamedResult, EmitResult
<1> QED
  BY <1>3 DEF e

LEMMA RandomTyped ==
  ASSUME NEW c \in GenInstr(AllowedInstr, InstrCnt), basic \subseteq Category
  PROVE  LET l == [k \in 1..Len(c) |-> Instr("random", c[k])]
         IN /\ Len(c) \in Nat
            /\ l \in Seq(InstrType) /\ Len(l) = Len(c)
            /\ \A k \in 1..Len(c) : c[k] \in Category /\ l[k] = Instr("random", c[k])
            /\ Len(c) > 0 => c[Len(c)] # "BRANCH"
<1> DEFINE l == [k \in 1..Len(c) |-> Instr("random", c[k])]
<1>1. AllowedInstr \subseteq Category /\ InstrCnt \in Nat
  BY ProgramAssumption DEF AllowedInstr, Category
<1>2. PICK n \in 0..InstrCnt : c \in [1..n -> AllowedInstr]
  BY DEF GenInstr
<1>3. n \in Nat /\ Len(c) = n /\ \A k \in 1..n : c[k] \in Category
  BY <1>1, <1>2
<1>4. \A k \in 1..n : l[k] = Instr("random", c[k]) /\ l[k] \in InstrType
  BY <1>3, InstrTyped DEF Kind
<1>5. l \in Seq(InstrType) /\ Len(l) = n
  <2>1. DOMAIN l = 1..n /\ l = [k \in 1..n |-> l[k]]
    BY <1>3
  <2> HIDE DEF l
  <2> QED
    BY <1>3, <1>4, <2>1, FcnSeq
<1>6. Len(c) > 0 => c[Len(c)] # "BRANCH"
  BY <1>3 DEF GenInstr
<1> QED
  BY <1>3, <1>4, <1>5, <1>6

LEMMA InvInit == Init => TypeOK /\ IInv
<1> SUFFICES ASSUME Init PROVE TypeOK /\ IInv
  OBVIOUS
<1>1. TypeOK
  BY ProgramAssumption DEF Init, TypeOK, Phase, Category
<1>2. DirectedOk /\ RandomLast
  BY DEF Init, DirectedOk, RandomLast
<1>3. StreamsIntact /\ Fresh /\ Numbering /\ Targets
  BY DEF Init, StreamsIntact, Inserted, Fresh, Numbering, Targets, Later
<1>4. Aliases
  BY DEF Init, Aliases, Together, AllAlike
<1> QED
  BY <1>1, <1>2, <1>3, <1>4 DEF IInv

-----------------------------------------------------------------------------
(* An object written at one place is written at both.                       *)

LEMMA AlikeTwoWays ==
  ASSUME NEW d, NEW e, NEW f, Alike(d, e)
  PROVE  Alike(e, d) /\ Alike(d, d) /\ (Alike(e, f) => Alike(d, f))
BY DEF Alike

\* The instruction as it is stored at place i.
StoredAt(d, e, i) == d \in InstrType /\ Alike(d, e) /\ d.part = i

LEMMA Stored ==
  ASSUME NEW e \in InstrType, NEW i \in Nat
  PROVE  StoredAt([e EXCEPT !.part = i], e, i)
<1> DEFINE d == [e EXCEPT !.part = i]
<1>1. d \in InstrType
  BY DEF InstrType
<1>2. /\ d.kind = e.kind /\ d.sid = e.sid /\ d.category = e.category
      /\ d.label = e.label /\ d.idx = e.idx /\ d.target = e.target
      /\ d.shared = e.shared /\ d.part = i
  BY DEF InstrType
<1>3. d.atomic = e.atomic
  BY DEF InstrType
<1>4. d.has_label = e.has_label
  BY DEF InstrType
<1>5. d.local = e.local
  BY DEF InstrType
<1>6. d.assigned = e.assigned
  BY DEF InstrType
<1> QED
  BY <1>1, <1>2, <1>3, <1>4, <1>5, <1>6 DEF StoredAt, Alike

LEMMA WrittenAt ==
  ASSUME NEW l \in Seq(InstrType), NEW i \in 1..Len(l), NEW e \in InstrType
  PROVE  /\ Written(l, i, e) \in Seq(InstrType) /\ Len(Written(l, i, e)) = Len(l)
         /\ \A k \in 1..Len(l) :
              IF SameObject(l, k, i) THEN StoredAt(Written(l, i, e)[k], e, l[k].part)
                                     ELSE Written(l, i, e)[k] = l[k]
<1> DEFINE w == Written(l, i, e)
<1>1. DOMAIN l = 1..Len(l) /\ Len(l) \in Nat
  OBVIOUS
<1>2. ASSUME NEW k \in 1..Len(l)
      PROVE  /\ IF SameObject(l, k, i) THEN StoredAt(w[k], e, l[k].part) ELSE w[k] = l[k]
             /\ w[k] \in InstrType
  <2>1. l[k] \in InstrType /\ l[k].part \in Nat
    <3>1. PICK d \in InstrType : d = l[k]
      OBVIOUS
    <3> QED
      BY <3>1 DEF InstrType
  <2>2. w[k] = IF SameObject(l, k, i) THEN [e EXCEPT !.part = l[k].part] ELSE l[k]
    BY <1>1 DEF Written
  <2>3. CASE SameObject(l, k, i)
    <3>1. StoredAt([e EXCEPT !.part = l[k].part], e, l[k].part)
      BY <2>1, Stored
    <3>2. StoredAt(w[k], e, l[k].part)
      BY <2>2, <2>3, <3>1
    <3> QED
      BY <2>3, <3>2 DEF StoredAt
  <2>4. CASE ~SameObject(l, k, i)
    BY <2>1, <2>2, <2>4
  <2> QED
    BY <2>3, <2>4
<1>3. DOMAIN w = 1..Len(l) /\ w = [k \in 1..Len(l) |-> w[k]]
  BY <1>1 DEF Written
<1> HIDE DEF w
<1>4. w \in Seq(InstrType) /\ Len(w) = Len(l)
  BY <1>1, <1>2, <1>3, FcnSeq
<1> QED
  BY <1>2, <1>4 DEF w

LEMMA SamePlaces ==
  ASSUME NEW l, NEW i, NEW j, NEW k
  PROVE  /\ SameObject(l, i, i)
         /\ SameObject(l, i, j) => SameObject(l, j, i)
         /\ SameObject(l, i, j) /\ SameObject(l, j, k) => SameObject(l, i, k)
BY DEF SameObject

\* Where two lists have the same objects at the same places.
LEMMA SameObjects ==
  ASSUME NEW l, NEW w, NEW j, NEW k,
         w[j].shared = l[j].shared, w[j].sid = l[j].sid,
         w[k].shared = l[k].shared, w[k].sid = l[k].sid
  PROVE  SameObject(w, j, k) <=> SameObject(l, j, k)
BY DEF SameObject

LEMMA WrittenAlike ==
  ASSUME NEW l \in Seq(InstrType), NEW i \in 1..Len(l), NEW e \in InstrType,
         AllAlike(l), e.shared = l[i].shared, e.sid = l[i].sid
  PROVE  AllAlike(Written(l, i, e))
<1> DEFINE w == Written(l, i, e)
<1>1. /\ Len(w) = Len(l)
      /\ \A k \in 1..Len(l) : IF SameObject(l, k, i) THEN StoredAt(w[k], e, l[k].part)
                                                     ELSE w[k] = l[k]
  BY WrittenAt
<1> HIDE DEF w
<1>2. ASSUME NEW k \in 1..Len(l)
      PROVE  w[k].shared = l[k].shared /\ w[k].sid = l[k].sid
  <2>1. CASE SameObject(l, k, i)
    <3>1. w[k].shared = l[i].shared /\ w[k].sid = l[i].sid
      BY <1>1, <2>1 DEF StoredAt, Alike
    <3> QED
      BY <2>1, <3>1 DEF SameObject
  <2>2. CASE ~SameObject(l, k, i)
    BY <1>1, <2>2
  <2> QED
    BY <2>1, <2>2
<1>3. ASSUME NEW j \in 1..Len(l), NEW k \in 1..Len(l), SameObject(w, j, k)
      PROVE  Alike(w[j], w[k])
  <2>1. SameObject(l, j, k)
    BY <1>2, <1>3, SameObjects
  <2>2. CASE SameObject(l, j, i)
    <3>1. SameObject(l, k, i)
      BY <2>1, <2>2, SamePlaces
    <3>2. Alike(w[j], e) /\ Alike(w[k], e)
      BY <1>1, <2>2, <3>1 DEF StoredAt
    <3> QED
      BY <3>2 DEF Alike
  <2>3. CASE ~SameObject(l, j, i)
    <3>1. ~SameObject(l, k, i)
      BY <2>1, <2>3, SamePlaces
    <3>2. w[j] = l[j] /\ w[k] = l[k]
      BY <1>1, <2>3, <3>1
    <3> QED
      BY <2>1, <3>2 DEF AllAlike
  <2> QED
    BY <2>2, <2>3
<1> QED
  BY <1>1, <1>3 DEF AllAlike, w

LEMMA GenDirectedOk ==
  ASSUME TypeOK, DirectedOk, GenDirected
  PROVE  /\ DirectedOk'
         /\ directed' \in Seq(Seq(InstrType)) /\ Len(directed') <= MaxStreams
<1>1. PICK kind \in Kind \ {"random"} : \E s \in StreamsOf(kind, basic) :
        directed' = Append(directed, AsStream(s, Len(directed) + 1))
  BY DEF GenDirected
<1>2. PICK s \in StreamsOf(kind, basic) :
        directed' = Append(directed, AsStream(s, Len(directed) + 1))
  BY <1>1
<1> DEFINE new == AsStream(s, Len(directed) + 1)
<1>3. directed \in Seq(Seq(InstrType)) /\ Len(directed) \in Nat /\ basic \subseteq Category
  BY DEF TypeOK
<1>4. StreamOk(new, Len(directed) + 1)
  BY <1>3, StreamsOfRaw, MarkedStream
<1>5. new \in Seq(InstrType) /\ directed' = Append(directed, new)
  BY <1>2, <1>4 DEF StreamOk
<1> HIDE DEF new
<1>6. directed' \in Seq(Seq(InstrType)) /\ Len(directed') = Len(directed) + 1
  BY <1>3, <1>5
<1>7. \A t \in 1..Len(directed) : directed'[t] = directed[t]
  BY <1>3, <1>5
<1>8. directed'[Len(directed) + 1] = new
  BY <1>3, <1>5
<1>9. ASSUME NEW t \in 1..(Len(directed) + 1) PROVE StreamOk(directed'[t], t)
  <2>1. CASE t \in 1..Len(directed)
    BY <1>7, <2>1 DEF DirectedOk
  <2>2. CASE t = Len(directed) + 1
    BY <1>4, <1>8, <2>2
  <2> QED
    BY <1>3, <2>1, <2>2
<1>10. Len(directed) < MaxStreams /\ MaxStreams \in Nat
  BY ProgramAssumption DEF GenDirected
<1> QED
  BY <1>3, <1>6, <1>9, <1>10 DEF DirectedOk

(* What the actions that change the list do to it, entry by entry.          *)

LEMMA GenMainList ==
  ASSUME TypeOK, GenMain
  PROVE  /\ list' \in Seq(InstrType)
         /\ \A k \in 1..Len(list') :
              /\ list'[k].sid = 0 /\ ~list'[k].atomic /\ list'[k].has_label
              /\ ~list'[k].assigned /\ list'[k].shared = 0
         /\ Len(list') > 0 => list'[Len(list')].category # "BRANCH"
<1>1. PICK c \in GenInstr(AllowedInstr, InstrCnt) :
        list' = [k \in 1..Len(c) |-> Instr("random", c[k])]
  BY DEF GenMain
<1>2. basic \subseteq Category
  BY DEF TypeOK
<1>3. /\ Len(c) \in Nat /\ list' \in Seq(InstrType) /\ Len(list') = Len(c)
      /\ \A k \in 1..Len(c) : c[k] \in Category /\ list'[k] = Instr("random", c[k])
      /\ Len(c) > 0 => c[Len(c)] # "BRANCH"
  BY <1>1, <1>2, RandomTyped
<1>4. ASSUME NEW k \in 1..Len(c)
      PROVE  /\ list'[k].sid = 0 /\ ~list'[k].atomic /\ list'[k].has_label
             /\ ~list'[k].assigned /\ list'[k].category = c[k]
             /\ list'[k].shared = 0
  <2>1. list'[k] = Instr("random", c[k])
    BY <1>3
  <2>2. /\ Instr("random", c[k]).sid = 0 /\ Instr("random", c[k]).category = c[k]
        /\ Instr("random", c[k]).shared = 0
    BY DEF Instr
  <2>3. Instr("random", c[k]).atomic = FALSE
    BY DEF Instr
  <2>4. Instr("random", c[k]).has_label = TRUE
    BY DEF Instr
  <2>5. Instr("random", c[k]).assigned = FALSE
    BY DEF Instr
  <2> QED
    BY <2>1, <2>2, <2>3, <2>4, <2>5
<1> QED
  BY <1>3, <1>4

LEMMA InsertList ==
  ASSUME TypeOK, InsertDirected
  PROVE  /\ list' \in Seq(InstrType) /\ directed[pos] \in Seq(InstrType)
         /\ \/ list = <<>> /\ list' = directed[pos]
            \/ \E i \in 1..Len(list) :
                 /\ ~list[i].atomic /\ list' = Spliced(list, i, directed[pos])
                 /\ Len(list') = Len(list) + Len(directed[pos])
                 /\ \A k \in 1..Len(list') :
                      \/ k < i /\ list'[k] = list[k]
                      \/ /\ k >= i /\ k < i + Len(directed[pos])
                         /\ list'[k] = directed[pos][k - i + 1]
                      \/ /\ k >= i + Len(directed[pos])
                         /\ list'[k] = list[k - Len(directed[pos])]
<1>1. pos \in 1..Len(directed) /\ directed \in Seq(Seq(InstrType)) /\ list \in Seq(InstrType)
  BY DEF TypeOK, InsertDirected
<1>2. directed[pos] \in Seq(InstrType)
  BY <1>1
<1>3. CASE list = <<>> /\ list' = directed[pos]
  BY <1>2, <1>3
<1>4. ASSUME NEW i \in InjectPoints(list), list' = Spliced(list, i, directed[pos])
      PROVE  /\ i \in 1..Len(list) /\ ~list[i].atomic
             /\ list' \in Seq(InstrType)
             /\ Len(list') = Len(list) + Len(directed[pos])
             /\ \A k \in 1..Len(list') :
                      \/ k < i /\ list'[k] = list[k]
                      \/ /\ k >= i /\ k < i + Len(directed[pos])
                         /\ list'[k] = directed[pos][k - i + 1]
                      \/ /\ k >= i + Len(directed[pos])
                         /\ list'[k] = list[k - Len(directed[pos])]
  <2>1. i \in 1..Len(list) /\ ~list[i].atomic
    BY DEF InjectPoints
  <2>2. list' \in Seq(InstrType) /\ Len(list') = Len(list) + Len(directed[pos])
    BY <1>1, <1>2, <1>4, <2>1, SplicedSeq
  <2>3. ASSUME NEW k \in 1..Len(list')
        PROVE  \/ k < i /\ list'[k] = list[k]
               \/ /\ k >= i /\ k < i + Len(directed[pos])
                  /\ list'[k] = directed[pos][k - i + 1]
               \/ /\ k >= i + Len(directed[pos])
                  /\ list'[k] = list[k - Len(directed[pos])]
    <3>1. k \in 1..(Len(list) + Len(directed[pos]))
      BY <2>2
    <3>2. list'[k] = IF k < i THEN list[k]
                     ELSE IF k < i + Len(directed[pos]) THEN directed[pos][k - i + 1]
                     ELSE list[k - Len(directed[pos])]
      BY <1>4, <3>1 DEF Spliced
    <3>3. k \in Nat /\ i \in Nat /\ Len(directed[pos]) \in Nat
      BY <1>1, <1>2, <2>1, <2>2
    <3> QED
      BY <3>2, <3>3
  <2> QED
    BY <2>1, <2>2, <2>3
<1> QED
  BY <1>2, <1>3, <1>4 DEF InsertDirected

\* What the second loop makes of an instruction.
LabelResult(d, e) ==
  /\ e.kind = d.kind /\ e.sid = d.sid /\ e.category = d.category
  /\ e.atomic = d.atomic /\ e.has_label = d.has_label /\ e.assigned = d.assigned
  /\ e.target = d.target /\ e.shared = d.shared /\ e.idx = label_idx
  /\ TakesLabel(d) => e.label = label_idx /\ e.local
  /\ ~TakesLabel(d) => e.label = d.label /\ e.local = d.local

LEMMA LabelResultAlike ==
  ASSUME NEW d, NEW e, NEW c, NEW f, Alike(d, c), Alike(e, f), LabelResult(c, f)
  PROVE  LabelResult(d, e)
<1>1. TakesLabel(c) <=> TakesLabel(d)
  BY DEF TakesLabel, Alike
<1> QED
  BY <1>1 DEF LabelResult, Alike

LEMMA LabelList ==
  ASSUME TypeOK, Aliases, LabelStep
  PROVE  /\ pos \in 1..Len(list) /\ list' \in Seq(InstrType) /\ Len(list') = Len(list)
         /\ AllAlike(list')
         /\ \A k \in 1..Len(list) :
              /\ list'[k].part = list[k].part
              /\ IF SameObject(list, k, pos) THEN LabelResult(list[k], list'[k])
                                             ELSE list'[k] = list[k]
<1>1. /\ pos \in 1..Len(list) /\ list \in Seq(InstrType) /\ label_idx \in Nat
      /\ list[pos] \in InstrType /\ phase = "label"
  BY DEF TypeOK, LabelStep
<1> DEFINE e == LabelInstr(list[pos])
<1>2. e \in InstrType /\ LabelResult(list[pos], e)
  BY <1>1, LabelTyped DEF LabelResult
<1>3. list' = Written(list, pos, e)
  BY DEF LabelStep
<1>4. AllAlike(list)
  BY <1>1 DEF Aliases
<1> HIDE DEF e
<1>5. /\ list' \in Seq(InstrType) /\ Len(list') = Len(list)
      /\ \A k \in 1..Len(list) :
           IF SameObject(list, k, pos) THEN StoredAt(list'[k], e, list[k].part)
                                       ELSE list'[k] = list[k]
  BY <1>1, <1>2, <1>3, WrittenAt
<1>6. AllAlike(list')
  BY <1>1, <1>2, <1>3, <1>4, WrittenAlike DEF LabelResult
<1>7. ASSUME NEW k \in 1..Len(list)
      PROVE  /\ list'[k].part = list[k].part
             /\ IF SameObject(list, k, pos) THEN LabelResult(list[k], list'[k])
                                            ELSE list'[k] = list[k]
  <2>1. CASE SameObject(list, k, pos)
    <3>1. Alike(list'[k], e) /\ list'[k].part = list[k].part
      BY <1>5, <2>1 DEF StoredAt
    <3>2. Alike(list[k], list[pos])
      BY <1>1, <1>4, <2>1 DEF AllAlike
    <3> QED
      BY <1>2, <2>1, <3>1, <3>2, LabelResultAlike
  <2>2. CASE ~SameObject(list, k, pos)
    BY <1>5, <2>2
  <2> QED
    BY <2>1, <2>2
<1> QED
  BY <1>1, <1>5, <1>6, <1>7

\* What the third loop makes of an instruction.
BranchResult(d, e, asked) ==
  /\ e.kind = d.kind /\ e.sid = d.sid /\ e.category = d.category
  /\ e.atomic = d.atomic /\ e.label = d.label /\ e.local = d.local
  /\ e.idx = d.idx /\ e.shared = d.shared
  /\ d.has_label /\ d.label \in asked => e.has_label
  /\ d.has_label /\ ~d.local => e.has_label
  /\ e.has_label => d.has_label
  /\ ~NeedsTarget(d) => e.target = d.target /\ e.assigned = d.assigned
  /\ NeedsTarget(d) =>
       /\ e.target \in asked
       /\ \E step \in 1..MaxBranchStep : e.target = BranchTargetLabel(d, step)

LEMMA BranchResultAlike ==
  ASSUME NEW d, NEW e, NEW c, NEW f, NEW asked,
         Alike(d, c), Alike(e, f), BranchResult(c, f, asked)
  PROVE  BranchResult(d, e, asked)
<1>1. NeedsTarget(c) <=> NeedsTarget(d)
  BY DEF NeedsTarget, Alike
<1>2. \A step : BranchTargetLabel(c, step) = BranchTargetLabel(d, step)
  BY DEF BranchTargetLabel, Alike
<1>3. /\ NeedsTarget(d) =>
           /\ e.target \in asked
           /\ \E step \in 1..MaxBranchStep : e.target = BranchTargetLabel(d, step)
  BY <1>1, <1>2 DEF BranchResult, Alike
<1>4. ~NeedsTarget(d) => e.target = d.target /\ e.assigned = d.assigned
  BY <1>1 DEF BranchResult, Alike
<1> QED
  BY <1>3, <1>4 DEF BranchResult, Alike

LEMMA BranchList ==
  ASSUME TypeOK, Aliases, BranchStep
  PROVE  /\ pos \in 1..Len(list) /\ list' \in Seq(InstrType) /\ Len(list') = Len(list)
         /\ AllAlike(list')
         /\ branch_target \subseteq branch_target' /\ branch_target' \subseteq Int
         /\ \A k \in 1..Len(list) :
              /\ list'[k].part = list[k].part
              /\ IF SameObject(list, k, pos)
                 THEN BranchResult(list[k], list'[k], branch_target')
                 ELSE list'[k] = list[k]
<1> DEFINE d == list[pos]
<1>1. /\ pos \in 1..Len(list) /\ list \in Seq(InstrType) /\ label_idx \in Nat
      /\ d \in InstrType /\ branch_target \subseteq Int /\ phase = "branch"
  BY DEF TypeOK, BranchStep
<1>2. PICK step \in IF NeedsTarget(d) THEN 1..MaxBranchStep ELSE {1} :
        /\ branch_target' = IF NeedsTarget(d)
                            THEN branch_target \cup {WithTarget(d, step).target}
                            ELSE branch_target
        /\ list' = Written(list, pos, DropLabel(WithTarget(d, step), branch_target'))
  BY DEF BranchStep
<1>3. step \in Nat
  BY ProgramAssumption
<1> DEFINE w == WithTarget(d, step)
           e == DropLabel(w, branch_target')
<1>4. /\ w \in InstrType
      /\ w.sid = d.sid /\ w.part = d.part /\ w.atomic = d.atomic /\ w.idx = d.idx
      /\ w.label = d.label /\ w.local = d.local /\ w.has_label = d.has_label
      /\ w.category = d.category /\ w.kind = d.kind /\ w.shared = d.shared
      /\ NeedsTarget(d) => w.target = BranchTargetLabel(d, step)
      /\ ~NeedsTarget(d) => w.target = d.target /\ w.assigned = d.assigned
  BY <1>1, <1>3, TargetTyped
<1>5. /\ e \in InstrType
      /\ e.sid = w.sid /\ e.part = w.part /\ e.atomic = w.atomic /\ e.idx = w.idx
      /\ e.label = w.label /\ e.local = w.local /\ e.category = w.category
      /\ e.target = w.target /\ e.shared = w.shared /\ e.assigned = w.assigned
      /\ w.has_label /\ w.label \in branch_target' => e.has_label
      /\ e.kind = w.kind /\ (e.has_label => w.has_label)
      /\ w.has_label /\ ~w.local => e.has_label
  BY <1>4, DropTyped
<1>6. list' = Written(list, pos, e)
  BY <1>2
<1>7. w.target \in Int
  BY <1>4 DEF InstrType
<1>8. /\ branch_target \subseteq branch_target' /\ branch_target' \subseteq Int
      /\ NeedsTarget(d) => w.target \in branch_target' /\ step \in 1..MaxBranchStep
  BY <1>1, <1>2, <1>7
<1> HIDE DEF w, e
<1>9. BranchResult(d, e, branch_target')
  <2>1. NeedsTarget(d) =>
          /\ e.target \in branch_target'
          /\ \E n \in 1..MaxBranchStep : e.target = BranchTargetLabel(d, n)
    BY <1>4, <1>5, <1>8
  <2>2. ~NeedsTarget(d) => e.target = d.target /\ e.assigned = d.assigned
    BY <1>4, <1>5
  <2> HIDE DEF d
  <2> QED
    BY <1>4, <1>5, <2>1, <2>2 DEF BranchResult
<1>10. AllAlike(list)
  BY <1>1 DEF Aliases
<1>11. /\ list' \in Seq(InstrType) /\ Len(list') = Len(list)
       /\ \A k \in 1..Len(list) :
            IF SameObject(list, k, pos) THEN StoredAt(list'[k], e, list[k].part)
                                        ELSE list'[k] = list[k]
  BY <1>1, <1>5, <1>6, WrittenAt
<1>12. AllAlike(list')
  BY <1>1, <1>5, <1>6, <1>9, <1>10, WrittenAlike DEF BranchResult
<1>13. ASSUME NEW k \in 1..Len(list)
       PROVE  /\ list'[k].part = list[k].part
              /\ IF SameObject(list, k, pos)
                 THEN BranchResult(list[k], list'[k], branch_target')
                 ELSE list'[k] = list[k]
  <2>1. CASE SameObject(list, k, pos)
    <3>1. Alike(list'[k], e) /\ list'[k].part = list[k].part
      BY <1>11, <2>1 DEF StoredAt
    <3>2. Alike(list[k], d)
      BY <1>1, <1>10, <2>1 DEF AllAlike
    <3>3. BranchResult(list[k], list'[k], branch_target')
      BY <1>9, <3>1, <3>2, BranchResultAlike
    <3> QED
      BY <2>1, <3>1, <3>3
  <2>2. CASE ~SameObject(list, k, pos)
    BY <1>11, <2>2
  <2> QED
    BY <2>1, <2>2
<1> QED
  BY <1>1, <1>8, <1>11, <1>12, <1>13

LEMMA EmitList ==
  ASSUME TypeOK, Aliases, Emit, list # <<>>
  PROVE  /\ list' \in Seq(InstrType) /\ Len(list') = Len(list) /\ Len(list) > 0
         /\ \A k \in 1..Len(list) :
              /\ EmitResult(list[k], list'[k]) /\ list'[k].part = list[k].part
              /\ IF k = 1 THEN list'[k].has_label /\ list'[k].label = Named
                          ELSE list'[k].label = list[k].label
<1>1. /\ list \in Seq(InstrType) /\ 1 \in 1..Len(list) /\ list[1] \in InstrType
      /\ phase = "emit" /\ Len(list) > 0
  BY DEF TypeOK, Emit
<1> DEFINE e == [list[1] EXCEPT !.has_label = TRUE]
           w == Written(list, 1, e)
<1>2. /\ e \in InstrType /\ EmitResult(list[1], e) /\ e.has_label
      /\ e.label = list[1].label
  BY <1>1, EmitTyped DEF EmitResult
<1>3. list' = [w EXCEPT ![1].label = Named]
  BY <1>1 DEF Emit
<1>4. AllAlike(list)
  BY <1>1 DEF Aliases
<1> HIDE DEF e
<1>5. /\ w \in Seq(InstrType) /\ Len(w) = Len(list)
      /\ \A k \in 1..Len(list) :
           IF SameObject(list, k, 1) THEN StoredAt(w[k], e, list[k].part)
                                     ELSE w[k] = list[k]
  BY <1>1, <1>2, WrittenAt
<1> HIDE DEF w
<1>6. ASSUME NEW k \in 1..Len(list)
      PROVE  /\ w[k] \in InstrType /\ EmitResult(list[k], w[k])
             /\ w[k].part = list[k].part /\ w[k].label = list[k].label
             /\ k = 1 => w[k].has_label
  <2>1. CASE SameObject(list, k, 1)
    <3>1. w[k] \in InstrType /\ Alike(w[k], e) /\ w[k].part = list[k].part
      BY <1>5, <2>1 DEF StoredAt
    <3>2. Alike(list[k], list[1])
      BY <1>1, <1>4, <2>1 DEF AllAlike
    <3>3. EmitResult(list[k], w[k])
      BY <1>2, <3>1, <3>2 DEF EmitResult, Alike
    <3>4. w[k].label = list[k].label /\ w[k].has_label
      BY <1>2, <3>1, <3>2 DEF Alike
    <3> QED
      BY <3>1, <3>3, <3>4
  <2>2. CASE ~SameObject(list, k, 1)
    <3>1. k # 1 /\ w[k] = list[k] /\ w[k] \in InstrType
      BY <1>1, <1>5, <2>2, SamePlaces
    <3> QED
      BY <3>1 DEF EmitResult
  <2> QED
    BY <2>1, <2>2
<1>7. PICK n : n = [w[1] EXCEPT !.label = Named] /\ NamedResult(w[1], n)
  <2>1. PICK d \in InstrType : d = w[1]
    BY <1>1, <1>6
  <2>2. NamedResult(d, [d EXCEPT !.label = Named])
    BY NamedTyped
  <2> QED
    BY <2>1, <2>2
<1>8. /\ Len(list') = Len(list) /\ list'[1] = n /\ list' \in Seq(InstrType)
      /\ \A k \in 1..Len(list) : k # 1 => list'[k] = w[k]
  <2>1. list' = [w EXCEPT ![1] = n] /\ n \in InstrType
    BY <1>3, <1>7 DEF NamedResult
  <2> QED
    BY <1>1, <1>5, <2>1
<1>9. ASSUME NEW k \in 1..Len(list)
      PROVE  /\ EmitResult(list[k], list'[k]) /\ list'[k].part = list[k].part
             /\ IF k = 1 THEN list'[k].has_label /\ list'[k].label = Named
                         ELSE list'[k].label = list[k].label
  <2>1. CASE k = 1
    <3>1. EmitResult(list[1], w[1]) /\ w[1].part = list[1].part /\ w[1].has_label
      BY <1>1, <1>6
    <3>2. EmitResult(list[1], n)
      BY <1>7, <3>1 DEF EmitResult, NamedResult
    <3> QED
      BY <1>7, <1>8, <2>1, <3>1, <3>2 DEF NamedResult
  <2>2. CASE k # 1
    BY <1>6, <1>8, <2>2
  <2> QED
    BY <2>1, <2>2
<1> QED
  BY <1>1, <1>8, <1>9

-----------------------------------------------------------------------------
(* One lemma for each conjunct of the invariant.                            *)

LEMMA DirectedStep ==
  ASSUME TypeOK, DirectedOk, Next
  PROVE  DirectedOk'
<1>1. CASE GenDirected
  BY <1>1, GenDirectedOk
<1>2. CASE NextHart /\ hart < NHarts
  BY <1>2 DEF NextHart, DirectedOk
<1>3. CASE UNCHANGED directed
  BY <1>3 DEF DirectedOk
<1> QED
  BY <1>1, <1>2, <1>3
     DEF Next, Pass, DirectedFails, GenMain, InsertDirected, InjectFails, EndInsert, LabelStep, EndLabel,
         BranchStep, EndBranch, Emit, NextHart

\* A step that leaves the marks of all instructions alone.
Unmarked(d, e) ==
  /\ e.sid = d.sid /\ e.part = d.part /\ e.atomic = d.atomic
  /\ e.category = d.category /\ e.kind = d.kind /\ e.shared = d.shared

SameMarks ==
  /\ directed' = directed /\ Len(list') = Len(list)
  /\ \A k \in 1..Len(list) : Unmarked(list[k], list'[k])

LEMMA MarksKept ==
  ASSUME TypeOK, Aliases,
         \/ LabelStep \/ BranchStep \/ Emit
         \/ EndInsert \/ EndLabel \/ EndBranch \/ InjectFails \/ DirectedFails
  PROVE  SameMarks
<1>1. CASE LabelStep
  <2>1. ASSUME NEW k \in 1..Len(list) PROVE Unmarked(list[k], list'[k])
    <3>1. list'[k].part = list[k].part
      BY <1>1, LabelList
    <3>2. LabelResult(list[k], list'[k]) \/ list'[k] = list[k]
      BY <1>1, LabelList
    <3> QED
      BY <3>1, <3>2 DEF LabelResult, Unmarked
  <2> QED
    BY <1>1, <2>1, LabelList DEF SameMarks, LabelStep
<1>2. CASE BranchStep
  <2>1. ASSUME NEW k \in 1..Len(list) PROVE Unmarked(list[k], list'[k])
    <3>1. list'[k].part = list[k].part
      BY <1>2, BranchList
    <3>2. BranchResult(list[k], list'[k], branch_target') \/ list'[k] = list[k]
      BY <1>2, BranchList
    <3> QED
      BY <3>1, <3>2 DEF BranchResult, Unmarked
  <2> QED
    BY <1>2, <2>1, BranchList DEF SameMarks, BranchStep
<1>3. CASE Emit /\ list # <<>>
  <2>1. ASSUME NEW k \in 1..Len(list) PROVE Unmarked(list[k], list'[k])
    BY <1>3, EmitList DEF EmitResult, Unmarked
  <2> QED
    BY <1>3, <2>1, EmitList DEF SameMarks, Emit
<1>4. CASE UNCHANGED <<directed, list>>
  BY <1>4 DEF SameMarks, Unmarked
<1> QED
  BY <1>1, <1>2, <1>3, <1>4
     DEF Emit, EndInsert, EndLabel, EndBranch, InjectFails, DirectedFails

LEMMA IntactKept ==
  ASSUME TypeOK, DirectedOk, StreamsIntact, SameMarks, Inserted' \subseteq Inserted,
         Inserted' \subseteq 1..Len(directed)
  PROVE  StreamsIntact'
<1>1. ASSUME NEW s \in Inserted'
      PROVE  \E k \in 0..Len(list') : StandsAt(s, k)'
  <2>1. PICK k \in 0..Len(list) : StandsAt(s, k)
    BY <1>1 DEF StreamsIntact
  <2>2. directed[s] \in Seq(InstrType) /\ list \in Seq(InstrType)
    BY <1>1 DEF DirectedOk, StreamOk, TypeOK
  <2>3. ASSUME NEW i \in DOMAIN directed[s] PROVE k + i \in 1..Len(list)
    BY <2>1, <2>2 DEF StandsAt
  <2>4. StandsAt(s, k)'
    BY <2>1, <2>3 DEF StandsAt, SameMarks, Unmarked
  <2> QED
    BY <2>4 DEF SameMarks
<1> QED
  BY <1>1 DEF StreamsIntact

LEMMA IntactInsert ==
  ASSUME TypeOK, DirectedOk, StreamsIntact, InsertDirected
  PROVE  StreamsIntact'
<1>1. /\ pos \in 1..Len(directed) /\ list \in Seq(InstrType) /\ directed' = directed
      /\ Inserted = 1..(pos - 1) /\ Inserted' = 1..pos
  <2>1. phase = "insert" /\ phase' = "insert" /\ pos' = pos + 1 /\ pos \in Nat \ {0}
    BY DEF TypeOK, InsertDirected
  <2> QED
    BY <2>1 DEF TypeOK, InsertDirected, Inserted
<1>5. PICK p \in 1..Len(directed) : p = pos
  BY <1>1
<1> DEFINE new == directed[pos]
<1>2. /\ new \in Seq(InstrType) /\ Len(new) \in Nat
      /\ \A j \in 1..Len(new) : new[j].sid = pos /\ new[j].part = j /\ new[j].atomic
  BY <1>1 DEF DirectedOk, StreamOk, Directed
<1>3. CASE list = <<>> /\ list' = new
  <2>1. ASSUME NEW s \in 1..(pos - 1) PROVE FALSE
    <3>1. PICK k \in 0..Len(list) : StandsAt(s, k)
      BY <1>1 DEF StreamsIntact
    <3>2. directed[s] \in Seq(InstrType) /\ Len(directed[s]) > 0
      BY <1>1 DEF DirectedOk, StreamOk
    <3> QED
      BY <1>3, <3>1, <3>2 DEF StandsAt
  <2>2. StandsAt(p, 0)'
    BY <1>1, <1>2, <1>3, <1>5 DEF StandsAt
  <2>3. 0 \in 0..Len(list')
    BY <1>2, <1>3
  <2> QED
    BY <1>1, <1>5, <2>1, <2>2, <2>3 DEF StreamsIntact
<1>4. ASSUME NEW i \in 1..Len(list), ~list[i].atomic,
             Len(list') = Len(list) + Len(new),
             \A k \in 1..Len(list') :
               \/ k < i /\ list'[k] = list[k]
               \/ /\ k >= i /\ k < i + Len(new)
                  /\ list'[k] = new[k - i + 1]
               \/ /\ k >= i + Len(new)
                  /\ list'[k] = list[k - Len(new)]
      PROVE  StreamsIntact'
  <2> HIDE DEF new
  <2>1. StandsAt(p, i - 1)'
    <3>1. directed'[p] = new
      BY <1>1, <1>5 DEF new
    <3>2. i - 1 + Len(new) <= Len(list')
      BY <1>1, <1>2, <1>4
    <3>3. ASSUME NEW j \in 1..Len(new)
          PROVE  list'[i - 1 + j] = new[j]
      <4>3. i \in 1..Len(list) /\ Len(list) \in Nat
        BY <1>1
      <4>1. /\ i - 1 + j \in 1..Len(list') /\ i - 1 + j >= i /\ i - 1 + j < i + Len(new)
            /\ (i - 1 + j) - i + 1 = j
        BY <1>2, <1>4, <4>3
      <4>2. list'[i - 1 + j] = new[(i - 1 + j) - i + 1]
        <5>1. ~(i - 1 + j < i) /\ ~(i - 1 + j >= i + Len(new))
          BY <1>2, <4>1, <4>3
        <5> QED
          BY <1>4, <4>1, <5>1
      <4> QED
        BY <4>1, <4>2
    <3>4. DOMAIN new = 1..Len(new)
      BY <1>2
    <3> QED
      BY <1>2, <1>5, <3>1, <3>2, <3>3, <3>4 DEF StandsAt
  <2>2. i - 1 \in 0..Len(list')
    BY <1>1, <1>2, <1>4
  <2>3. ASSUME NEW s \in 1..(pos - 1)
        PROVE  \E k \in 0..Len(list') : StandsAt(s, k)'
    <3>1. PICK k \in 0..Len(list) : StandsAt(s, k)
      BY <1>1 DEF StreamsIntact
    <3>0. PICK n \in Nat : n = Len(directed[s])
      BY <1>1 DEF DirectedOk, StreamOk
    <3>2. directed[s] \in Seq(InstrType) /\ DOMAIN directed[s] = 1..n
      BY <1>1, <3>0 DEF DirectedOk, StreamOk
    <3>3. /\ k + n <= Len(list)
          /\ \A j \in 1..n : list[k + j].sid = s /\ list[k + j].part = j
                             /\ list[k + j].atomic
      BY <3>0, <3>1, <3>2 DEF StandsAt
    <3>4. ~(i > k /\ i <= k + n)
      <4>1. ASSUME i > k, i <= k + n PROVE FALSE
        <5>1. i - k \in 1..n /\ k + (i - k) = i
          BY <3>1, <3>2, <4>1
        <5> QED
          BY <1>4, <3>3, <5>1
      <4> QED
        BY <4>1
    <3>5. CASE i > k + n
      <4>1. ASSUME NEW j \in 1..n PROVE list'[k + j] = list[k + j]
        <5>1. k + j \in 1..Len(list') /\ k + j < i
          BY <1>1, <1>2, <1>4, <3>1, <3>2, <3>3, <3>5
        <5> QED
          BY <1>2, <1>4, <5>1
      <4>2. k \in 0..Len(list') /\ k + n <= Len(list')
        BY <1>1, <1>2, <1>4, <3>1, <3>2, <3>3
      <4>3. StandsAt(s, k)'
        BY <1>1, <3>0, <3>2, <3>3, <4>1, <4>2 DEF StandsAt
      <4> QED
        BY <4>2, <4>3
    <3>6. CASE i <= k
      <4>0. PICK q \in Nat : q = k + Len(new)
        BY <1>2, <3>1
      <4>1. ASSUME NEW j \in 1..n PROVE list'[q + j] = list[k + j]
        <5>0. k + j \in Nat /\ k + j <= Len(list) /\ k + j >= i /\ Len(list) \in Nat
          BY <1>1, <3>0, <3>1, <3>3, <3>6
        <5>1. /\ q + j \in 1..Len(list') /\ q + j >= i + Len(new)
              /\ (q + j) - Len(new) = k + j
          BY <1>2, <1>4, <3>1, <4>0, <5>0
        <5>2. list'[q + j] = list[(q + j) - Len(new)]
          BY <1>1, <1>2, <1>4, <5>1
        <5> QED
          BY <5>1, <5>2
      <4>2. q \in 0..Len(list') /\ q + n <= Len(list')
        BY <1>1, <1>2, <1>4, <3>1, <3>2, <3>3, <4>0
      <4>3. StandsAt(s, q)'
        BY <1>1, <3>0, <3>2, <3>3, <4>1, <4>2 DEF StandsAt
      <4> QED
        BY <4>2, <4>3
    <3> QED
      BY <1>1, <3>1, <3>2, <3>4, <3>5, <3>6
  <2> QED
    BY <1>1, <1>5, <2>1, <2>2, <2>3 DEF StreamsIntact
<1> QED
  BY <1>3, <1>4, InsertList

LEMMA IntactStep ==
  ASSUME TypeOK, DirectedOk, Aliases, StreamsIntact, Next
  PROVE  StreamsIntact'
<1>1. CASE InsertDirected
  BY <1>1, IntactInsert
<1>2. CASE \/ LabelStep \/ BranchStep \/ Emit \/ EndInsert \/ EndLabel \/ EndBranch
           \/ InjectFails \/ DirectedFails
  <2>1. SameMarks
    BY <1>2, MarksKept
  <2>2. pos \in Nat \ {0} /\ Len(directed) \in Nat /\ DOMAIN directed = 1..Len(directed)
    BY DEF TypeOK
  <2>3. CASE InjectFails \/ DirectedFails \/ (Emit /\ phase' = "failed")
    <3>1. Inserted' = {}
      BY <2>3 DEF InjectFails, DirectedFails, Inserted
    <3> QED
      BY <3>1 DEF StreamsIntact
  <2>4. CASE ~(InjectFails \/ DirectedFails \/ (Emit /\ phase' = "failed"))
    <3>1. /\ Inserted' \subseteq Inserted /\ Inserted' \subseteq 1..Len(directed)
          /\ directed' = directed
      <4>1. CASE EndInsert
        BY <4>1, <2>2 DEF EndInsert, Inserted
      <4>2. CASE LabelStep
        BY <4>2, <2>2 DEF LabelStep, Inserted
      <4>3. CASE BranchStep
        BY <4>3, <2>2 DEF BranchStep, Inserted
      <4>4. CASE Emit
        <5>1. phase = "emit" /\ phase' = "emitted" /\ directed' = directed
          BY <4>4, <2>4 DEF Emit
        <5> QED
          BY <5>1, <2>2 DEF Inserted
      <4>5. CASE EndLabel
        BY <4>5, <2>2 DEF EndLabel, Inserted
      <4>6. CASE EndBranch
        BY <4>6, <2>2 DEF EndBranch, Inserted
      <4> QED
        BY <1>2, <2>4, <4>1, <4>2, <4>3, <4>4, <4>5, <4>6
    <3> QED
      BY <2>1, <3>1, IntactKept
  <2> QED
    BY <2>3, <2>4
<1>3. CASE GenDirected \/ GenMain \/ NextHart
  <2>1. Inserted' = {}
    BY <1>3 DEF GenDirected, GenMain, NextHart, Inserted
  <2> QED
    BY <2>1 DEF StreamsIntact
<1> QED
  BY <1>1, <1>2, <1>3 DEF Next, Pass

LEMMA TypeStep ==
  ASSUME TypeOK, DirectedOk, Aliases, Next
  PROVE  TypeOK'
<1>0. /\ no_branch \in BOOLEAN /\ hart \in 1..NHarts /\ phase \in Phase
      /\ basic \subseteq Category
      /\ directed \in Seq(Seq(InstrType)) /\ Len(directed) <= MaxStreams
      /\ list \in Seq(InstrType)
      /\ pos \in Nat \ {0} /\ label_idx \in Nat
      /\ branch_target \subseteq Int
      /\ NHarts \in Nat /\ MaxStreams \in Nat
  BY ProgramAssumption DEF TypeOK
<1>1. CASE GenDirected
  BY <1>0, <1>1, GenDirectedOk DEF GenDirected, TypeOK
<1>2. CASE GenMain
  <2>1. list' \in Seq(InstrType) /\ basic' \subseteq Category
    BY <1>0, <1>2, GenMainList DEF GenMain, AllowedInstr, Category
  <2>2. /\ phase' = "insert" /\ pos' = 1
        /\ UNCHANGED <<no_branch, hart, directed, label_idx, branch_target>>
    BY <1>2 DEF GenMain
  <2> QED
    BY <1>0, <2>1, <2>2 DEF TypeOK, Phase
<1>3. CASE InsertDirected
  <2>1. list' \in Seq(InstrType)
    BY <1>3, InsertList
  <2> QED
    BY <1>0, <1>3, <2>1 DEF InsertDirected, TypeOK
<1>4. CASE DirectedFails \/ InjectFails \/ EndInsert \/ EndLabel \/ EndBranch
  <2>1. /\ phase' \in Phase /\ pos' \in Nat \ {0} /\ label_idx' \in Nat
        /\ branch_target' \subseteq Int
        /\ UNCHANGED <<no_branch, hart, basic, directed, list>>
    <3>0. CASE DirectedFails
      BY <1>0, <3>0 DEF DirectedFails, Phase
    <3>1. CASE InjectFails
      BY <1>0, <3>1 DEF InjectFails, Phase
    <3>2. CASE EndInsert
      BY <1>0, <3>2 DEF EndInsert, Phase
    <3>3. CASE EndLabel
      BY <1>0, <3>3 DEF EndLabel, Phase
    <3>4. CASE EndBranch
      BY <1>0, <3>4 DEF EndBranch, Phase
    <3> QED
      BY <1>4, <3>0, <3>1, <3>2, <3>3, <3>4
  <2> QED
    BY <1>0, <2>1 DEF TypeOK
<1>5. CASE LabelStep
  BY <1>0, <1>5, LabelList DEF LabelStep, TypeOK
<1>6. CASE BranchStep
  <2>1. list' \in Seq(InstrType) /\ branch_target' \subseteq Int
    BY <1>6, BranchList
  <2>2. pos' = pos + 1 /\ UNCHANGED <<no_branch, hart, phase, basic, directed, label_idx>>
    BY <1>6 DEF BranchStep
  <2> QED
    BY <1>0, <2>1, <2>2 DEF TypeOK
<1>7. CASE Emit
  <2>1. list' \in Seq(InstrType)
    BY <1>0, <1>7, EmitList DEF Emit
  <2> QED
    BY <1>0, <1>7, <2>1 DEF Emit, TypeOK, Phase
<1>8. CASE NextHart
  <2>1. /\ hart' \in 1..NHarts /\ phase' \in Phase /\ pos' = 1
        /\ (directed' = directed \/ directed' = <<>>)
        /\ (list' = list \/ list' = <<>>)
        /\ label_idx' = 0 /\ branch_target' = {}
        /\ UNCHANGED <<no_branch, basic>>
    <3>1. CASE hart < NHarts
      BY <1>0, <1>8, <3>1 DEF NextHart, Phase
    <3>2. CASE ~(hart < NHarts)
      BY <1>0, <1>8, <3>2 DEF NextHart, Phase
    <3> QED
      BY <3>1, <3>2
  <2>2. <<>> \in Seq(Seq(InstrType)) /\ <<>> \in Seq(InstrType) /\ Len(<<>>) = 0
    OBVIOUS
  <2>3. directed' \in Seq(Seq(InstrType)) /\ list' \in Seq(InstrType)
    BY <1>0, <2>1, <2>2, Zenon
  <2>4. Len(directed') <= MaxStreams
    <3>1. CASE directed' = directed
      BY <1>0, <3>1
    <3>2. CASE directed' = <<>>
      BY <1>0, <2>2, <3>2
    <3> QED
      BY <2>1, <3>1, <3>2
  <2>5. pos' \in Nat \ {0} /\ label_idx' \in Nat /\ branch_target' \subseteq Int
    BY <2>1
  <2> QED
    BY <1>0, <2>1, <2>3, <2>4, <2>5 DEF TypeOK
<1> QED
  BY <1>1, <1>2, <1>3, <1>4, <1>5, <1>6, <1>7, <1>8 DEF Next, Pass

\* Where the entries of the list and of the new stream go, and where each entry
\* of the longer list comes from.
Inserts(i, new) ==
  /\ i \in 1..Len(list) /\ ~list[i].atomic
  /\ Len(list') = Len(list) + Len(new)
  /\ \A k \in 1..Len(list) :
       /\ k < i => k \in 1..Len(list') /\ list'[k] = list[k]
       /\ k >= i => k + Len(new) \in 1..Len(list') /\ list'[k + Len(new)] = list[k]
  /\ \A j \in 1..Len(new) :
       i - 1 + j \in 1..Len(list') /\ list'[i - 1 + j] = new[j]
  /\ \A k \in 1..Len(list') :
       \/ k \in 1..(i - 1) /\ list'[k] = list[k]
       \/ \E j \in 1..Len(new) : k = i - 1 + j /\ list'[k] = new[j]
       \/ \E q \in i..Len(list) : k = q + Len(new) /\ list'[k] = list[q]

LEMMA InsertPlaces ==
  ASSUME TypeOK, InsertDirected
  PROVE  \/ list = <<>> /\ list' = directed[pos]
         \/ \E i \in 1..Len(list) : Inserts(i, directed[pos])
<1> DEFINE new == directed[pos]
           L == Len(new)
<1>1. list \in Seq(InstrType) /\ Len(list) \in Nat /\ new \in Seq(InstrType) /\ L \in Nat
  BY InsertList DEF TypeOK
<1>4. ASSUME NEW i \in 1..Len(list), ~list[i].atomic,
             Len(list') = Len(list) + L,
             \A k \in 1..Len(list') :
               \/ k < i /\ list'[k] = list[k]
               \/ /\ k >= i /\ k < i + L
                  /\ list'[k] = new[k - i + 1]
               \/ /\ k >= i + L
                  /\ list'[k] = list[k - L]
      PROVE  Inserts(i, new)
  <2> HIDE DEF new, L
  <2>1. ASSUME NEW k \in 1..Len(list)
        PROVE  /\ k < i => k \in 1..Len(list') /\ list'[k] = list[k]
               /\ k >= i => k + L \in 1..Len(list') /\ list'[k + L] = list[k]
    <3>1. CASE k < i
      BY <1>1, <1>4, <3>1
    <3>2. CASE k >= i
      <4>1. k + L \in 1..Len(list') /\ k + L >= i + L /\ (k + L) - L = k
        BY <1>1, <1>4, <3>2
      <4>2. list'[k + L] = list[(k + L) - L]
        BY <1>1, <1>4, <3>2, <4>1
      <4> QED
        BY <3>2, <4>1, <4>2
    <3> QED
      BY <3>1, <3>2
  <2>2. ASSUME NEW j \in 1..L
        PROVE  i - 1 + j \in 1..Len(list') /\ list'[i - 1 + j] = new[j]
    <3>1. /\ i - 1 + j \in 1..Len(list') /\ i - 1 + j >= i /\ i - 1 + j < i + L
          /\ (i - 1 + j) - i + 1 = j
      BY <1>1, <1>4
    <3>2. list'[i - 1 + j] = new[(i - 1 + j) - i + 1]
      BY <1>1, <1>4, <3>1
    <3> QED
      BY <3>1, <3>2
  <2>3. ASSUME NEW k \in 1..Len(list')
        PROVE  \/ k \in 1..(i - 1) /\ list'[k] = list[k]
               \/ \E j \in 1..L : k = i - 1 + j /\ list'[k] = new[j]
               \/ \E q \in i..Len(list) : k = q + L /\ list'[k] = list[q]
    <3>1. CASE k < i
      BY <1>1, <1>4, <3>1
    <3>2. CASE k >= i /\ k < i + L
      <4>1. k - i + 1 \in 1..L /\ k = i - 1 + (k - i + 1)
        BY <1>1, <1>4, <3>2
      <4>2. list'[k] = new[k - i + 1]
        BY <1>1, <1>4, <3>2
      <4> QED
        BY <4>1, <4>2
    <3>3. CASE k >= i + L
      <4>1. k - L \in i..Len(list) /\ k = (k - L) + L
        BY <1>1, <1>4, <3>3
      <4> QED
        BY <1>1, <1>4, <3>3, <4>1
    <3> QED
      BY <1>1, <1>4, <3>1, <3>2, <3>3
  <2> QED
    BY <1>4, <2>1, <2>2, <2>3 DEF Inserts, L
<1> QED
  BY <1>4, InsertList

LEMMA RandomLastInsert ==
  ASSUME TypeOK, DirectedOk, RandomLast, InsertDirected
  PROVE  RandomLast'
<1> DEFINE new == directed[pos]
<1>1. /\ pos \in 1..Len(directed) /\ list \in Seq(InstrType) /\ pos \in Nat \ {0}
      /\ Len(list) \in Nat
  BY DEF TypeOK, InsertDirected
<1>2. /\ new \in Seq(InstrType) /\ Len(new) \in Nat /\ Len(new) > 0
      /\ \A j \in 1..Len(new) : new[j].sid = pos /\ new[j].atomic
  BY <1>1 DEF DirectedOk, StreamOk, Directed
<1>3. CASE list = <<>> /\ list' = new
  BY <1>1, <1>2, <1>3 DEF RandomLast
<1>4. ASSUME NEW i \in 1..Len(list), Inserts(i, new)
      PROVE  RandomLast'
  <2> HIDE DEF new
  <2>1. list'[Len(list')] = list[Len(list)]
    BY <1>1, <1>4 DEF Inserts
  <2>2. ASSUME NEW k \in 1..Len(list')
        PROVE  \/ list'[k].sid # 0 /\ list'[k].atomic
               \/ \E m \in 1..Len(list) : list'[k] = list[m]
    <3>2. \/ k \in 1..(i - 1) /\ list'[k] = list[k]
          \/ \E j \in 1..Len(new) : list'[k] = new[j]
          \/ \E q \in i..Len(list) : list'[k] = list[q]
      BY <1>4 DEF Inserts
    <3>3. 1..(i - 1) \subseteq 1..Len(list) /\ i..Len(list) \subseteq 1..Len(list)
      BY <1>1
    <3>1. \/ \E j \in 1..Len(new) : list'[k] = new[j]
          \/ \E q \in 1..Len(list) : list'[k] = list[q]
      BY <3>2, <3>3
    <3> QED
      BY <1>1, <1>2, <3>1
  <2> QED
    BY <2>1, <2>2 DEF RandomLast
<1> QED
  BY <1>3, <1>4, InsertPlaces

LEMMA RandomLastStep ==
  ASSUME TypeOK, DirectedOk, Aliases, RandomLast, Next
  PROVE  RandomLast'
<1>1. CASE InsertDirected
  BY <1>1, RandomLastInsert
<1>2. CASE \/ LabelStep \/ BranchStep \/ Emit \/ EndInsert \/ EndLabel \/ EndBranch
           \/ InjectFails \/ DirectedFails
  <2>1. SameMarks /\ list \in Seq(InstrType)
    BY <1>2, MarksKept DEF TypeOK
  <2> QED
    BY <2>1 DEF SameMarks, Unmarked, RandomLast
<1>3. CASE GenMain
  <2>1. /\ list' \in Seq(InstrType)
        /\ \A k \in 1..Len(list') : list'[k].sid = 0 /\ ~list'[k].atomic
        /\ Len(list') > 0 => list'[Len(list')].category # "BRANCH"
    BY <1>3, GenMainList
  <2> QED
    BY <2>1 DEF RandomLast
<1>4. CASE GenDirected \/ NextHart
  <2>1. list' = list \/ list' = <<>>
    BY <1>4 DEF GenDirected, NextHart
  <2> QED
    BY <2>1 DEF RandomLast
<1> QED
  BY <1>1, <1>2, <1>3, <1>4 DEF Next, Pass

\* Where an entry of the longer list stood before.
Before(i, n, k, q) == (q < i /\ k = q) \/ (q >= i /\ k = q + n)

LEMMA AliasesInsert ==
  ASSUME TypeOK, DirectedOk, Aliases, InsertDirected
  PROVE  Aliases'
<1> DEFINE new == directed[pos]
<1>1. /\ pos \in 1..Len(directed) /\ list \in Seq(InstrType) /\ pos \in Nat \ {0}
      /\ Len(list) \in Nat /\ phase = "insert" /\ phase' = "insert" /\ pos' = pos + 1
  BY DEF TypeOK, InsertDirected
<1>2. /\ new \in Seq(InstrType) /\ Len(new) \in Nat
      /\ \A j \in 1..Len(new) : new[j].sid = pos /\ new[j].atomic
      /\ SharedAlike(new)
  BY <1>1 DEF DirectedOk, StreamOk, Directed
<1>3. /\ \A k \in 1..Len(list) : list[k].sid < pos
      /\ Together(list) /\ AllAlike(list)
  BY <1>1 DEF Aliases
<1>4. ASSUME NEW k \in 1..Len(list) PROVE list[k].sid \in Nat
  <2>1. PICK d \in InstrType : d = list[k]
    BY <1>1
  <2> QED
    BY <2>1 DEF InstrType
<1> HIDE DEF new
<1>5. ASSUME NEW j \in 1..Len(new), NEW k \in 1..Len(new), SameObject(new, j, k)
      PROVE  Alike(new[j], new[k])
  <2>1. CASE j = k
    BY <2>1 DEF Alike
  <2>2. CASE j # k
    BY <1>2, <1>5, <2>2 DEF SameObject, SharedAlike
  <2> QED
    BY <2>1, <2>2
<1>6. CASE list = <<>> /\ list' = new
  <2>1. \A k \in 1..Len(list') : list'[k].sid < pos'
    BY <1>1, <1>2, <1>6
  <2>2. Together(list')
    <3>1. ASSUME NEW j \in 1..Len(new), NEW k \in 1..Len(new), NEW m \in 1..Len(new)
          PROVE  new[m].atomic
      BY <1>2
    <3> QED
      BY <1>2, <1>6, <3>1 DEF Together
  <2>3. AllAlike(list')
    BY <1>5, <1>6 DEF AllAlike
  <2> QED
    BY <1>1, <2>1, <2>2, <2>3 DEF Aliases
<1>7. ASSUME NEW i \in 1..Len(list), Inserts(i, new)
      PROVE  Aliases'
  <2>0. PICK L \in Nat : L = Len(new)
    BY <1>2
  <2>1. i \in Nat /\ Len(list') \in Nat
    BY <1>1, <1>2, <1>7 DEF Inserts
  <2>2. ASSUME NEW k \in 1..Len(list')
        PROVE  \/ \E j \in 1..L : k = i - 1 + j /\ list'[k] = new[j]
               \/ \E q \in 1..Len(list) : Before(i, L, k, q) /\ list'[k] = list[q]
    <3>1. \/ k \in 1..(i - 1) /\ list'[k] = list[k]
          \/ \E j \in 1..L : k = i - 1 + j /\ list'[k] = new[j]
          \/ \E q \in i..Len(list) : k = q + L /\ list'[k] = list[q]
      BY <1>7, <2>0 DEF Inserts
    <3>2. CASE k \in 1..(i - 1) /\ list'[k] = list[k]
      <4>1. k \in 1..Len(list) /\ Before(i, L, k, k)
        BY <1>1, <2>1, <3>2 DEF Before
      <4> QED
        BY <3>2, <4>1
    <3>3. ASSUME NEW q \in i..Len(list), k = q + L, list'[k] = list[q]
          PROVE  q \in 1..Len(list) /\ Before(i, L, k, q)
      BY <1>1, <2>1, <3>3 DEF Before
    <3> QED
      BY <3>1, <3>2, <3>3
  <2>3. ASSUME NEW k \in 1..Len(list'), list'[k].sid = pos
        PROVE  \E j \in 1..L : k = i - 1 + j /\ list'[k] = new[j]
    BY <1>1, <1>3, <1>4, <2>2, <2>3
  <2>4. ASSUME NEW k \in 1..Len(list'), list'[k].sid # pos
        PROVE  \E q \in 1..Len(list) : Before(i, L, k, q) /\ list'[k] = list[q]
    BY <1>2, <2>0, <2>2, <2>4
  <2>5. ASSUME NEW k \in 1..Len(list')
        PROVE  list'[k].sid < pos' /\ (list'[k].shared # 0 => list'[k].atomic)
    <3>1. CASE \E j \in 1..L : list'[k] = new[j]
      BY <1>1, <1>2, <2>0, <3>1
    <3>2. CASE \E q \in 1..Len(list) : list'[k] = list[q]
      BY <1>1, <1>3, <1>4, <3>2 DEF Together
    <3> QED
      BY <2>2, <3>1, <3>2
  <2>6. ASSUME NEW j \in 1..Len(list'), NEW m \in 1..Len(list'), NEW k \in 1..Len(list'),
               j < m, m < k, SameObject(list', j, k)
        PROVE  list'[m].atomic
    <3>1. j # k /\ list'[k].sid = list'[j].sid /\ list'[k].shared = list'[j].shared
          /\ list'[j].shared # 0
      BY <2>1, <2>6 DEF SameObject
    <3>2. CASE list'[j].sid = pos
      <4>1. PICK a \in 1..L : j = i - 1 + a
        BY <2>3, <3>2
      <4>2. PICK b \in 1..L : k = i - 1 + b
        BY <2>3, <3>1, <3>2
      <4>3. m - (i - 1) \in 1..L /\ m = i - 1 + (m - (i - 1))
        BY <2>0, <2>1, <2>6, <4>1, <4>2
      <4>4. list'[i - 1 + (m - (i - 1))] = new[m - (i - 1)]
        BY <1>7, <2>0, <4>3 DEF Inserts
      <4> QED
        BY <1>2, <2>0, <4>3, <4>4
    <3>3. CASE list'[j].sid # pos
      <4>1. PICK a \in 1..Len(list) : Before(i, L, j, a) /\ list'[j] = list[a]
        BY <2>4, <3>3
      <4>2. PICK b \in 1..Len(list) : Before(i, L, k, b) /\ list'[k] = list[b]
        BY <2>4, <3>1, <3>3
      <4>3. SameObject(list, a, b)
        BY <3>1, <4>1, <4>2 DEF SameObject
      <4>4. CASE \E c \in 1..L : list'[m] = new[c]
        BY <1>2, <2>0, <4>4
      <4>5. ASSUME NEW c \in 1..Len(list), Before(i, L, m, c), list'[m] = list[c]
            PROVE  list'[m].atomic
        <5>1. a < c /\ c < b
          BY <1>1, <2>1, <2>6, <4>1, <4>2, <4>5 DEF Before
        <5>2. list[c].atomic
          BY <1>3, <4>3, <5>1 DEF Together
        <5> QED
          BY <4>5, <5>2
      <4> QED
        BY <2>2, <4>4, <4>5
    <3> QED
      BY <3>2, <3>3
  <2>7. Together(list')
    BY <2>5, <2>6 DEF Together
  <2>8. ASSUME NEW j \in 1..Len(list'), NEW k \in 1..Len(list'), SameObject(list', j, k)
        PROVE  Alike(list'[j], list'[k])
    <3>1. CASE j = k
      BY <3>1 DEF Alike
    <3>2. CASE j # k
      <4>1. list'[k].sid = list'[j].sid /\ list'[k].shared = list'[j].shared
            /\ list'[j].shared # 0
        BY <2>8, <3>2 DEF SameObject
      <4>2. CASE list'[j].sid = pos
        <5>1. PICK a \in 1..L : list'[j] = new[a]
          BY <2>3, <4>2
        <5>2. PICK b \in 1..L : list'[k] = new[b]
          BY <2>3, <4>1, <4>2
        <5>3. SameObject(new, a, b)
          BY <4>1, <5>1, <5>2 DEF SameObject
        <5> QED
          BY <1>5, <2>0, <5>1, <5>2, <5>3
      <4>3. CASE list'[j].sid # pos
        <5>1. PICK a \in 1..Len(list) : list'[j] = list[a]
          BY <2>4, <4>3
        <5>2. PICK b \in 1..Len(list) : list'[k] = list[b]
          BY <2>4, <4>1, <4>3
        <5>3. SameObject(list, a, b)
          BY <4>1, <5>1, <5>2 DEF SameObject
        <5> QED
          BY <1>3, <5>1, <5>2, <5>3 DEF AllAlike
      <4> QED
        BY <4>2, <4>3
    <3> QED
      BY <3>1, <3>2
  <2>9. AllAlike(list')
    BY <2>8 DEF AllAlike
  <2> QED
    BY <1>1, <2>5, <2>7, <2>9 DEF Aliases
<1> QED
  BY <1>6, <1>7, InsertPlaces DEF new

LEMMA TogetherKept ==
  ASSUME SameMarks, Together(list)
  PROVE  Together(list')
<1>1. /\ Len(list') = Len(list)
      /\ \A k \in 1..Len(list) :
           /\ list'[k].sid = list[k].sid /\ list'[k].atomic = list[k].atomic
           /\ list'[k].shared = list[k].shared
  BY DEF SameMarks, Unmarked
<1>2. \A j, k \in 1..Len(list) : SameObject(list', j, k) => SameObject(list, j, k)
  BY <1>1, SameObjects
<1> QED
  BY <1>1, <1>2 DEF Together

LEMMA AliasesStep ==
  ASSUME TypeOK, DirectedOk, Aliases, Next
  PROVE  Aliases'
<1>1. CASE InsertDirected
  BY <1>1, AliasesInsert
<1>2. CASE LabelStep
  <2>1. phase = "label" /\ phase' = "label"
    BY <1>2 DEF LabelStep
  <2>2. Together(list') /\ AllAlike(list')
    BY <1>2, <2>1, LabelList, MarksKept, TogetherKept DEF Aliases
  <2> QED
    BY <2>1, <2>2 DEF Aliases
<1>3. CASE BranchStep
  <2>1. phase = "branch" /\ phase' = "branch"
    BY <1>3 DEF BranchStep
  <2>2. Together(list') /\ AllAlike(list')
    BY <1>3, <2>1, BranchList, MarksKept, TogetherKept DEF Aliases
  <2> QED
    BY <2>1, <2>2 DEF Aliases
<1>4. CASE GenMain
  <2>1. phase' = "insert" /\ pos' = 1
    BY <1>4 DEF GenMain
  <2>2. \A k \in 1..Len(list') : list'[k].sid = 0 /\ list'[k].shared = 0
    BY <1>4, GenMainList
  <2>3. list' \in Seq(InstrType) /\ Len(list') \in Nat
    BY <1>4, GenMainList
  <2>4. \A j, k \in 1..Len(list') : SameObject(list', j, k) => j = k
    BY <2>2 DEF SameObject
  <2>5. Together(list')
    BY <2>2, <2>3, <2>4 DEF Together
  <2>6. AllAlike(list')
    BY <2>4 DEF AllAlike, Alike
  <2> QED
    BY <2>1, <2>2, <2>5, <2>6 DEF Aliases
<1>5. CASE list' = list /\ phase \notin {"emitted", "done"} /\ phase' # "insert"
  BY <1>5 DEF Aliases
<1>6. CASE list' = <<>> /\ phase' # "insert"
  <2>1. Together(<<>>) /\ AllAlike(<<>>)
    BY DEF Together, AllAlike
  <2> QED
    BY <1>6, <2>1 DEF Aliases
<1>7. CASE phase' \in {"emitted", "done"}
  BY <1>7 DEF Aliases
<1>8. CASE InjectFails \/ DirectedFails \/ GenDirected \/ EndInsert \/ EndLabel \/ EndBranch
  BY <1>5, <1>8
     DEF InjectFails, DirectedFails, GenDirected, EndInsert, EndLabel, EndBranch
<1>9. CASE Emit \/ NextHart
  BY <1>5, <1>6, <1>7, <1>9 DEF Emit, NextHart
<1> QED
  BY <1>1, <1>2, <1>3, <1>4, <1>8, <1>9 DEF Next, Pass

LEMMA FreshStep ==
  ASSUME TypeOK, DirectedOk, Aliases, Fresh, Next
  PROVE  Fresh'
<1>0. list \in Seq(InstrType) /\ Len(list) \in Nat /\ pos \in Nat \ {0} /\ label_idx \in Nat
  BY DEF TypeOK
<1>1. CASE InsertDirected
  <2> DEFINE new == directed[pos]
  <2>1. /\ pos \in 1..Len(directed) /\ phase = "insert" /\ phase' = "insert"
    BY <1>1 DEF TypeOK, InsertDirected
  <2>2. /\ new \in Seq(InstrType) /\ Len(new) \in Nat
        /\ \A j \in 1..Len(new) : /\ new[j].atomic
                                  /\ new[j].assigned => new[j].target \in LoopLabels
    BY <2>1 DEF DirectedOk, StreamOk, Directed
  <2>3. ASSUME NEW k \in 1..Len(list')
        PROVE  \/ \E j \in 1..Len(new) : list'[k] = new[j]
               \/ \E m \in 1..Len(list) : list'[k] = list[m]
    <3>1. CASE list' = new
      BY <3>1
    <3>2. ASSUME NEW i \in 1..Len(list), Inserts(i, new)
          PROVE  \/ \E j \in 1..Len(new) : list'[k] = new[j]
                 \/ \E m \in 1..Len(list) : list'[k] = list[m]
      <4> HIDE DEF new
      <4>1. \/ k \in 1..(i - 1) /\ list'[k] = list[k]
            \/ \E j \in 1..Len(new) : list'[k] = new[j]
            \/ \E q \in i..Len(list) : list'[k] = list[q]
        BY <3>2 DEF Inserts
      <4>2. 1..(i - 1) \subseteq 1..Len(list) /\ i..Len(list) \subseteq 1..Len(list)
        BY <1>0
      <4> QED
        BY <4>1, <4>2
    <3> QED
      BY <1>1, <3>1, <3>2, InsertPlaces
  <2> HIDE DEF new
  <2> QED
    BY <2>1, <2>2, <2>3 DEF Fresh
<1>2. CASE GenMain
  BY <1>2, GenMainList DEF GenMain, Fresh
<1>3. CASE LabelStep
  <2>1. phase = "label" /\ phase' = "label" /\ Len(list') = Len(list)
    BY <1>3, LabelList DEF LabelStep
  <2>2. ASSUME NEW k \in 1..Len(list)
        PROVE  /\ list'[k].atomic = list[k].atomic
               /\ list'[k].has_label = list[k].has_label
               /\ list'[k].assigned = list[k].assigned
               /\ list'[k].target = list[k].target
    <3>1. LabelResult(list[k], list'[k]) \/ list'[k] = list[k]
      BY <1>3, LabelList
    <3> QED
      BY <3>1 DEF LabelResult
  <2> QED
    BY <2>1, <2>2 DEF Fresh
<1>4. CASE BranchStep
  <2>1. /\ phase = "branch" /\ phase' = "branch" /\ pos' = pos + 1 /\ pos \in 1..Len(list)
        /\ Len(list') = Len(list) /\ Together(list)
    BY <1>4, BranchList DEF BranchStep, Aliases
  <2>2. ASSUME NEW k \in 1..Len(list'), k >= pos', ~list'[k].atomic
        PROVE  list'[k].has_label
    <3>1. k # pos /\ k \in 1..Len(list) /\ k >= pos
      BY <1>0, <2>1, <2>2
    <3>2. CASE SameObject(list, k, pos)
      <4>1. list[k].atomic
        BY <2>1, <3>1, <3>2 DEF SameObject, Together
      <4>2. list'[k].atomic = list[k].atomic
        BY <1>4, <3>1, <3>2, BranchList DEF BranchResult
      <4> QED
        BY <2>2, <4>1, <4>2
    <3>3. CASE ~SameObject(list, k, pos)
      <4>1. list'[k] = list[k]
        BY <1>4, <3>1, <3>3, BranchList
      <4> QED
        BY <2>1, <2>2, <3>1, <4>1 DEF Fresh
    <3> QED
      BY <3>2, <3>3
  <2> QED
    BY <2>1, <2>2 DEF Fresh
<1>5. CASE EndInsert
  BY <1>5 DEF EndInsert, Fresh
<1>6. CASE EndLabel
  BY <1>6, <1>0 DEF EndLabel, Fresh
<1>7. CASE GenDirected \/ DirectedFails \/ InjectFails \/ EndBranch \/ Emit \/ NextHart
  BY <1>7 DEF GenDirected, DirectedFails, InjectFails, EndBranch, Emit, NextHart, Fresh
<1> QED
  BY <1>1, <1>2, <1>3, <1>4, <1>5, <1>6, <1>7 DEF Next, Pass

\* The numbering of the entries in S, with next the next label.
NumberedIn(l, S, next) ==
  /\ \A k \in S : /\ l[k].idx \in 0..next
                  /\ ~l[k].atomic => l[k].idx < next
  /\ \A j, k \in S : j < k => /\ ~l[k].atomic => l[j].idx <= l[k].idx
                              /\ ~l[j].atomic => l[j].idx < l[k].idx
  /\ \A v \in 0..(next - 1) : \E k \in S : ~l[k].atomic /\ l[k].idx = v

LabelsIn(l, S) ==
  \A k \in S : ~l[k].atomic => l[k].label = l[k].idx /\ l[k].local

LEMMA NumberingParts ==
  Numbering <=> (phase \in Later =>
                   /\ NumberedIn(list, Numbered, label_idx)
                   /\ phase # "emitted" => LabelsIn(list, Numbered))
BY DEF Numbering, NumberedIn, LabelsIn

LEMMA NumberingPartsNext ==
  Numbering' <=> (phase' \in Later =>
                    /\ NumberedIn(list', Numbered', label_idx')
                    /\ phase' # "emitted" => LabelsIn(list', Numbered'))
BY DEF Numbering, NumberedIn, LabelsIn, Later

\* The places written together with place pos are atomic, and so is all between.
LEMMA NumberingLabel ==
  ASSUME TypeOK, Aliases, Fresh, Numbering, LabelStep
  PROVE  Numbering'
<1>1. /\ phase = "label" /\ phase' = "label" /\ pos' = pos + 1
      /\ pos \in 1..Len(list) /\ list \in Seq(InstrType) /\ label_idx \in Nat
      /\ list[pos] \in InstrType /\ Len(list') = Len(list) /\ list' \in Seq(InstrType)
      /\ Len(list) \in Nat /\ pos \in Nat /\ Together(list)
  BY LabelList DEF TypeOK, LabelStep, Aliases
<1>2. TakesLabel(list[pos]) <=> ~list[pos].atomic
  BY <1>1 DEF Fresh, TakesLabel
<1>3. ASSUME NEW k \in 1..Len(list), SameObject(list, k, pos)
      PROVE  /\ list'[k].idx = label_idx /\ list'[k].atomic = list[k].atomic
             /\ k # pos => list'[k].atomic
  <2>1. LabelResult(list[k], list'[k])
    BY <1>3, LabelList
  <2>2. k # pos => list[k].atomic
    BY <1>1, <1>3 DEF SameObject, Together
  <2> QED
    BY <2>1, <2>2 DEF LabelResult
<1>4. ~list[pos].atomic => list'[pos].label = label_idx /\ list'[pos].local
  <2>1. LabelResult(list[pos], list'[pos])
    BY <1>1, LabelList, SamePlaces
  <2> QED
    BY <1>2, <2>1 DEF LabelResult
<1>5. label_idx' = IF list[pos].atomic THEN label_idx ELSE label_idx + 1
  BY <1>2 DEF LabelStep
<1>6. Numbered = 1..(pos - 1) /\ Numbered' = 1..pos
  BY <1>1 DEF Numbered
<1>7. NumberedIn(list, 1..(pos - 1), label_idx) /\ LabelsIn(list, 1..(pos - 1))
  BY <1>1, <1>6, NumberingParts DEF Later
<1>8. SameObject(list, pos, pos) /\ label_idx' \in Nat /\ label_idx <= label_idx'
  BY <1>1, <1>5, SamePlaces
<1>9. ASSUME NEW k \in 1..pos, ~SameObject(list, k, pos)
      PROVE  /\ k \in 1..(pos - 1) /\ list'[k] = list[k]
             /\ list[k].idx \in 0..label_idx
             /\ ~list[k].atomic => list[k].idx < label_idx
  <2>1. k # pos
    BY <1>8, <1>9
  <2>2. k \in 1..(pos - 1) /\ k \in 1..Len(list)
    BY <1>1, <2>1
  <2>3. list'[k] = list[k]
    BY <1>9, <2>2, LabelList
  <2> QED
    BY <1>7, <2>2, <2>3 DEF NumberedIn
<1>10. ASSUME NEW k \in 1..pos
       PROVE  /\ list'[k].idx \in 0..label_idx'
              /\ ~list'[k].atomic => list'[k].idx < label_idx'
              /\ ~list'[k].atomic => list'[k].label = list'[k].idx /\ list'[k].local
  <2>0. k \in 1..Len(list)
    BY <1>1
  <2>1. CASE k = pos
    BY <1>1, <1>3, <1>4, <1>5, <1>8, <2>1
  <2>2. CASE k # pos /\ SameObject(list, k, pos)
    BY <1>1, <1>3, <1>8, <2>0, <2>2
  <2>3. CASE ~SameObject(list, k, pos)
    <3>1. ~list[k].atomic => list[k].label = list[k].idx /\ list[k].local
      BY <1>7, <1>9, <2>3 DEF LabelsIn
    <3> QED
      BY <1>1, <1>8, <1>9, <2>3, <3>1
  <2> QED
    BY <2>1, <2>2, <2>3
<1>11. ASSUME NEW j \in 1..pos, NEW k \in 1..pos, j < k
       PROVE  /\ ~list'[k].atomic => list'[j].idx <= list'[k].idx
              /\ ~list'[j].atomic => list'[j].idx < list'[k].idx
  <2>0. j \in 1..Len(list) /\ k \in 1..Len(list) /\ j # pos /\ j \in Nat /\ k \in Nat
    BY <1>1, <1>11
  <2>1. CASE SameObject(list, k, pos)
    <3>1. list'[k].idx = label_idx
      BY <1>3, <2>0, <2>1
    <3>2. CASE SameObject(list, j, pos)
      BY <1>1, <1>3, <2>0, <3>1, <3>2
    <3>3. CASE ~SameObject(list, j, pos)
      BY <1>1, <1>9, <3>1, <3>3
    <3> QED
      BY <3>2, <3>3
  <2>2. CASE ~SameObject(list, k, pos) /\ SameObject(list, j, pos)
    <3>1. k < pos
      BY <1>1, <1>9, <2>2
    <3>2. list[k].atomic /\ list'[k] = list[k]
      BY <1>1, <1>9, <1>11, <2>0, <2>2, <3>1 DEF Together
    <3>3. list'[j].atomic
      BY <1>3, <2>0, <2>2
    <3> QED
      BY <3>2, <3>3
  <2>3. CASE ~SameObject(list, k, pos) /\ ~SameObject(list, j, pos)
    BY <1>7, <1>9, <1>11, <2>3 DEF NumberedIn
  <2> QED
    BY <2>1, <2>2, <2>3
<1>12. ASSUME NEW v \in 0..(label_idx' - 1)
       PROVE  \E k \in 1..pos : ~list'[k].atomic /\ list'[k].idx = v
  <2>1. CASE v \in 0..(label_idx - 1)
    <3>1. PICK k \in 1..(pos - 1) : ~list[k].atomic /\ list[k].idx = v
      BY <1>7, <2>1 DEF NumberedIn
    <3>2. k \in 1..pos /\ k \in 1..Len(list) /\ k # pos
      BY <1>1
    <3>3. ~SameObject(list, k, pos)
      BY <1>1, <3>1, <3>2 DEF SameObject, Together
    <3> QED
      BY <1>9, <3>1, <3>2, <3>3
  <2>2. CASE v = label_idx /\ ~list[pos].atomic
    <3>1. pos \in 1..pos
      BY <1>1
    <3> QED
      BY <1>1, <1>3, <1>8, <2>2, <3>1
  <2> QED
    BY <1>1, <1>5, <2>1, <2>2
<1>13. NumberedIn(list', Numbered', label_idx') /\ LabelsIn(list', Numbered')
  BY <1>6, <1>10, <1>11, <1>12 DEF NumberedIn, LabelsIn
<1> QED
  BY <1>13, NumberingPartsNext

LEMMA NumberingStep ==
  ASSUME TypeOK, Aliases, Fresh, Numbering, Next
  PROVE  Numbering'
<1>0. list \in Seq(InstrType) /\ Len(list) \in Nat /\ pos \in Nat \ {0} /\ label_idx \in Nat
  BY DEF TypeOK
<1>1. CASE LabelStep
  BY <1>1, NumberingLabel
<1>2. CASE EndInsert
  <2>1. phase' = "label" /\ label_idx' = 0 /\ Numbered' = {}
    BY <1>0, <1>2 DEF EndInsert, Numbered
  <2>2. NumberedIn(list', {}, 0) /\ LabelsIn(list', {})
    BY DEF NumberedIn, LabelsIn
  <2> QED
    BY <2>1, <2>2, NumberingPartsNext
<1>3. CASE EndLabel \/ EndBranch
  <2>1. /\ phase \in Later /\ phase # "emitted"
        /\ list' = list /\ label_idx' = label_idx /\ Numbered' = Numbered
    BY <1>0, <1>3 DEF EndLabel, EndBranch, Numbered, Later
  <2> QED
    BY <2>1, NumberingParts, NumberingPartsNext
<1>4. CASE BranchStep \/ (Emit /\ phase' = "emitted")
  <2>1. /\ phase \in {"branch", "emit"} /\ phase' \in {"branch", "emitted"}
        /\ label_idx' = label_idx /\ Len(list') = Len(list)
        /\ phase = "emit" => phase' = "emitted"
        /\ \A k \in 1..Len(list) :
             /\ list'[k].idx = list[k].idx /\ list'[k].atomic = list[k].atomic
             /\ phase = "branch" => /\ list'[k].label = list[k].label
                                    /\ list'[k].local = list[k].local
    <3>1. CASE BranchStep
      <4>1. /\ phase = "branch" /\ phase' = "branch" /\ label_idx' = label_idx
            /\ Len(list') = Len(list)
        BY <3>1, BranchList DEF BranchStep
      <4>2. ASSUME NEW k \in 1..Len(list)
            PROVE  /\ list'[k].idx = list[k].idx /\ list'[k].atomic = list[k].atomic
                   /\ list'[k].label = list[k].label /\ list'[k].local = list[k].local
        <5>1. BranchResult(list[k], list'[k], branch_target') \/ list'[k] = list[k]
          BY <3>1, BranchList
        <5> QED
          BY <5>1 DEF BranchResult
      <4> QED
        BY <4>1, <4>2
    <3>2. CASE Emit /\ phase' = "emitted"
      <4>1. phase = "emit" /\ list # <<>> /\ label_idx' = label_idx
        BY <3>2 DEF Emit
      <4> QED
        BY <3>2, <4>1, EmitList DEF EmitResult
    <3> QED
      BY <1>4, <3>1, <3>2
  <2>2. Numbered = 1..Len(list) /\ Numbered' = 1..Len(list)
    BY <2>1 DEF Numbered
  <2>3. NumberedIn(list, 1..Len(list), label_idx) /\ LabelsIn(list, 1..Len(list))
    BY <2>1, <2>2, NumberingParts DEF Later
  <2>4. NumberedIn(list', 1..Len(list), label_idx)
    BY <2>1, <2>3 DEF NumberedIn
  <2>5. phase' # "emitted" => LabelsIn(list', 1..Len(list))
    BY <2>1, <2>3 DEF LabelsIn
  <2> QED
    BY <2>1, <2>2, <2>4, <2>5, NumberingPartsNext
<1>5. CASE phase' \notin Later
  BY <1>5, NumberingPartsNext
<1> QED
  BY <1>1, <1>2, <1>3, <1>4, <1>5
     DEF Next, Pass, Later, GenDirected, DirectedFails, GenMain, InsertDirected, InjectFails, Emit, NextHart

\* The target a branch gets is a label of an instruction further down, from each
\* of its places.
LEMMA TargetAhead ==
  ASSUME TypeOK, RandomLast, Aliases, Fresh, Numbering, HasRandom,
         phase = "branch", pos \in 1..Len(list),
         NEW k \in 1..Len(list), SameObject(list, k, pos),
         list[k].category = "BRANCH",
         NEW step \in Nat \ {0}
  PROVE  \E m \in (k + 1)..Len(list) :
           /\ list[m].has_label
           /\ list[m].label = BranchTargetLabel(list[k], step)
<1> DEFINE n == Len(list)
           t == BranchTargetLabel(list[k], step)
<1>1. /\ list \in Seq(InstrType) /\ n \in Nat /\ label_idx \in Nat /\ pos \in Nat \ {0}
      /\ k \in 1..n /\ Together(list)
  BY DEF TypeOK, Aliases
<1>2. Numbered = 1..n
  BY DEF Numbered
<1>3. NumberedIn(list, 1..n, label_idx) /\ LabelsIn(list, 1..n)
  BY <1>2, NumberingParts DEF Later
<1>4. list[n].sid = 0 /\ ~list[n].atomic /\ list[n].category # "BRANCH" /\ n \in 1..n
  <2>1. PICK j \in 1..n : list[j].sid = 0
    BY <1>1 DEF HasRandom
  <2> QED
    BY <1>1, <2>1 DEF RandomLast
<1>5. k < n
  BY <1>1, <1>4
<1>6. /\ list[k].idx \in Int /\ list[n].idx \in Int
      /\ list[k].idx >= 0
      /\ list[k].idx <= list[n].idx /\ list[n].idx < label_idx
      /\ ~list[k].atomic => list[k].idx < list[n].idx
  <2>1. list[k].idx \in 0..label_idx /\ list[n].idx \in 0..label_idx
    BY <1>1, <1>3, <1>4 DEF NumberedIn
  <2>2. list[n].idx < label_idx
    BY <1>3, <1>4 DEF NumberedIn
  <2>3. /\ list[k].idx <= list[n].idx
        /\ ~list[k].atomic => list[k].idx < list[n].idx
    BY <1>1, <1>3, <1>4, <1>5 DEF NumberedIn
  <2> QED
    BY <1>1, <2>1, <2>2, <2>3
<1>7. /\ t \in 0..(label_idx - 1) /\ t >= list[k].idx
      /\ ~list[k].atomic => t > list[k].idx
  BY <1>1, <1>6 DEF BranchTargetLabel
<1> HIDE DEF n, t
<1>8. PICK m \in 1..n : ~list[m].atomic /\ list[m].idx = t
  BY <1>3, <1>7 DEF NumberedIn
<1>9. m > k
  <2>1. ASSUME m = k PROVE FALSE
    BY <1>6, <1>7, <1>8, <2>1
  <2>2. ASSUME m < k PROVE FALSE
    <3>1. list[m].idx < list[k].idx
      BY <1>1, <1>3, <1>8, <2>2 DEF NumberedIn
    <3> QED
      BY <1>1, <1>6, <1>7, <1>8, <3>1
  <2> QED
    BY <1>1, <2>1, <2>2
<1>10. list[m].label = t
  BY <1>3, <1>8 DEF LabelsIn
<1>11. m >= pos
  <2>1. ASSUME m < pos PROVE FALSE
    <3>1. list[m].atomic
      BY <1>1, <1>8, <1>9, <2>1 DEF Together, n
    <3> QED
      BY <1>8, <3>1
  <2> QED
    BY <1>1, <2>1
<1>12. list[m].has_label
  BY <1>1, <1>8, <1>11 DEF Fresh, n
<1>13. m \in (k + 1)..Len(list)
  BY <1>1, <1>8, <1>9 DEF n
<1> QED
  BY <1>10, <1>12, <1>13 DEF t

LEMMA TargetsBranch ==
  ASSUME TypeOK, RandomLast, Aliases, Fresh, Numbering, Targets, BranchStep
  PROVE  Targets'
<1>1. /\ phase = "branch" /\ phase' = "branch" /\ pos' = pos + 1
      /\ pos \in 1..Len(list) /\ list \in Seq(InstrType) /\ list' \in Seq(InstrType)
      /\ Len(list') = Len(list) /\ Len(list) \in Nat /\ pos \in Nat /\ label_idx \in Nat
  <2>1. phase = "branch" /\ phase' = "branch" /\ pos' = pos + 1 /\ pos <= Len(list)
    BY DEF BranchStep
  <2>2. list \in Seq(InstrType) /\ pos \in Nat \ {0} /\ label_idx \in Nat
    BY DEF TypeOK
  <2>3. list' \in Seq(InstrType) /\ Len(list') = Len(list)
    BY BranchList
  <2> QED
    BY <2>1, <2>2, <2>3
<1>2. HasRandom' => HasRandom
  BY <1>1, MarksKept DEF HasRandom, SameMarks, Unmarked
<1>3. ASSUME NEW m \in 1..Len(list)
      PROVE  /\ list'[m].label = list[m].label /\ list'[m].category = list[m].category
             /\ list[m].has_label /\ list[m].label \in branch_target'
                  => list'[m].has_label
  <2>1. BranchResult(list[m], list'[m], branch_target') \/ list'[m] = list[m]
    BY BranchList
  <2> QED
    BY <2>1 DEF BranchResult
<1>4. branch_target \subseteq branch_target'
  BY BranchList
<1>5. ASSUME NEW k \in 1..Len(list), NEW v, list'[k].target = v, v \in branch_target',
             \E m \in (k + 1)..Len(list) : list[m].has_label /\ list[m].label = v
      PROVE  Served(k)'
  <2>1. PICK m \in (k + 1)..Len(list) : list[m].has_label /\ list[m].label = v
    BY <1>5
  <2>2. m \in 1..Len(list)
    BY <1>1
  <2>3. list'[m].has_label /\ list'[m].label = v
    BY <1>3, <1>5, <2>1, <2>2
  <2> QED
    BY <1>1, <1>5, <2>1, <2>3 DEF Served
<1>6. ASSUME NEW k \in 1..Len(list), list'[k].target = list[k].target,
             Reached(k), ForwardBranch(k)
      PROVE  /\ list'[k].target >= -1
             /\ HasRandom' => list'[k].target \in branch_target' /\ Served(k)'
  <2>1. list[k].target >= -1
    BY <1>1, <1>6 DEF Targets
  <2>2. ASSUME HasRandom' PROVE list'[k].target \in branch_target' /\ Served(k)'
    <3>1. list[k].target \in branch_target /\ Served(k)
      BY <1>1, <1>2, <1>6, <2>2 DEF Targets
    <3> QED
      BY <1>4, <1>5, <1>6, <3>1 DEF Served
  <2> QED
    BY <1>6, <2>1, <2>2
<1>7. ASSUME NEW k \in 1..Len(list), SameObject(list, k, pos), NeedsTarget(list[k]),
             BranchResult(list[k], list'[k], branch_target')
      PROVE  /\ list'[k].target >= -1
             /\ HasRandom' => list'[k].target \in branch_target' /\ Served(k)'
  <2>1. /\ list'[k].target \in branch_target'
        /\ \E step \in 1..MaxBranchStep :
             list'[k].target = BranchTargetLabel(list[k], step)
    BY <1>7 DEF BranchResult
  <2>2. PICK step \in Nat \ {0} : list'[k].target = BranchTargetLabel(list[k], step)
    BY <2>1, ProgramAssumption
  <2>3. list[k].idx \in 0..label_idx
    BY <1>1 DEF Numbering, Numbered, Later
  <2>4. list'[k].target >= -1
    BY <1>1, <2>2, <2>3 DEF BranchTargetLabel
  <2>5. ASSUME HasRandom' PROVE Served(k)'
    <3>1. HasRandom /\ list[k].category = "BRANCH"
      BY <1>2, <1>7, <2>5 DEF NeedsTarget
    <3>2. \E m \in (k + 1)..Len(list) :
            /\ list[m].has_label
            /\ list[m].label = BranchTargetLabel(list[k], step)
      BY <1>1, <1>7, <3>1, TargetAhead
    <3> QED
      BY <1>5, <2>1, <2>2, <3>2
  <2> QED
    BY <2>1, <2>4, <2>5
<1>8. ASSUME NEW k \in 1..Len(list), Reached(k)', ForwardBranch(k)'
      PROVE  /\ list'[k].target >= -1
             /\ HasRandom' => list'[k].target \in branch_target' /\ Served(k)'
  <2>1. list[k].category = "BRANCH" /\ list'[k].target \notin LoopLabels
    BY <1>3, <1>8 DEF ForwardBranch
  <2>2. CASE SameObject(list, k, pos)
    <3>1. BranchResult(list[k], list'[k], branch_target')
      BY <2>2, BranchList
    <3>2. CASE NeedsTarget(list[k])
      BY <1>7, <2>2, <3>1, <3>2
    <3>3. CASE ~NeedsTarget(list[k])
      <4>1. list'[k].target = list[k].target /\ list[k].assigned
        BY <2>1, <3>1, <3>3 DEF BranchResult, NeedsTarget
      <4>2. Reached(k) /\ ForwardBranch(k)
        BY <2>1, <4>1 DEF Reached, ForwardBranch
      <4> QED
        BY <1>6, <4>1, <4>2
    <3> QED
      BY <3>2, <3>3
  <2>3. CASE ~SameObject(list, k, pos)
    <3>1. k # pos /\ list'[k] = list[k]
      BY <2>3, BranchList, SamePlaces
    <3>2. Reached(k) /\ ForwardBranch(k)
      BY <1>1, <1>8, <2>1, <3>1 DEF Reached, ForwardBranch
    <3> QED
      BY <1>6, <3>1, <3>2
  <2> QED
    BY <2>2, <2>3
<1> QED
  BY <1>1, <1>8 DEF Targets

LEMMA TargetsStep ==
  ASSUME TypeOK, RandomLast, Aliases, Fresh, Numbering, Targets, Next
  PROVE  Targets'
<1>0. list \in Seq(InstrType) /\ Len(list) \in Nat /\ pos \in Nat \ {0}
  BY DEF TypeOK
<1>1. CASE BranchStep
  BY <1>1, TargetsBranch
<1>2. CASE EndLabel
  <2>1. phase = "label" /\ phase' = "branch" /\ pos' = 1 /\ list' = list
    BY <1>2 DEF EndLabel
  <2>2. ASSUME NEW k \in 1..Len(list), Reached(k)', ForwardBranch(k)' PROVE FALSE
    <3>1. list[k].assigned
      BY <1>0, <2>1, <2>2 DEF Reached
    <3> QED
      BY <2>1, <2>2, <3>1 DEF Fresh, ForwardBranch
  <2> QED
    BY <2>1, <2>2 DEF Targets
<1>3. CASE EndBranch
  <2>1. /\ phase = "branch" /\ phase' = "emit" /\ pos > Len(list)
        /\ list' = list /\ branch_target' = branch_target
    BY <1>3 DEF EndBranch
  <2>2. ASSUME NEW k \in 1..Len(list), ForwardBranch(k)'
        PROVE  /\ list[k].target >= -1
               /\ HasRandom' => list[k].target \in branch_target /\ Served(k)
    <3>1. Reached(k) /\ ForwardBranch(k) /\ (HasRandom' => HasRandom)
      BY <1>0, <2>1, <2>2 DEF ForwardBranch, HasRandom, Reached
    <3> QED
      BY <2>1, <3>1 DEF Targets
  <2> QED
    BY <2>1, <2>2 DEF Targets, Served
<1>4. CASE Emit /\ list # <<>>
  <2>1. /\ phase = "emit" /\ branch_target' = branch_target
        /\ Len(list') = Len(list) /\ list' \in Seq(InstrType)
    BY <1>4, EmitList DEF Emit
  <2>2. ASSUME NEW k \in 1..Len(list)
        PROVE  /\ k # 1 => list'[k].label = list[k].label
               /\ list[k].has_label => list'[k].has_label
               /\ list'[k].target = list[k].target
               /\ list'[k].category = list[k].category
               /\ list'[k].sid = list[k].sid
    BY <1>4, EmitList DEF EmitResult
  <2>3. ASSUME NEW k \in 1..Len(list'), ForwardBranch(k)'
        PROVE  /\ list'[k].target >= -1
               /\ HasRandom' => list'[k].target \in branch_target' /\ Served(k)'
    <3>1. ForwardBranch(k) /\ Reached(k) /\ (HasRandom' => HasRandom)
      BY <1>0, <2>1, <2>2, <2>3 DEF ForwardBranch, HasRandom, Reached
    <3>2. /\ list[k].target >= -1
          /\ HasRandom => list[k].target \in branch_target /\ Served(k)
      BY <2>1, <3>1 DEF Targets
    <3>3. ASSUME Served(k) PROVE Served(k)'
      <4>1. PICK m \in (k + 1)..Len(list) :
              list[m].has_label /\ list[m].label = list[k].target
        BY <3>3 DEF Served
      <4>2. m \in 1..Len(list) /\ m # 1
        BY <1>0, <2>1
      <4>3. list'[m].has_label /\ list'[m].label = list'[k].target
        BY <2>1, <2>2, <4>1, <4>2
      <4> QED
        BY <2>1, <4>3 DEF Served
    <3> QED
      BY <2>1, <2>2, <3>1, <3>2, <3>3
  <2> QED
    BY <2>3 DEF Targets
<1>5. CASE phase' \notin {"branch", "emit", "emitted"}
  BY <1>5 DEF Targets
<1> QED
  BY <1>1, <1>2, <1>3, <1>4, <1>5
     DEF Next, Pass, GenDirected, DirectedFails, GenMain, InsertDirected, InjectFails,
         EndInsert, LabelStep, Emit, NextHart

-----------------------------------------------------------------------------
(* Loops stay closed, and no number labels the inside of a memory stream or *)
(* a loop.                                                                  *)

\* What a directed stream's instruction carries for a label: one the third
\* loop of post_process_instr does not drop, and a number only in a jump stream.
Sealed(d) == ~d.local /\ (d.kind # "jal" => d.label < -1)

HasLabel(d, v) == d.has_label /\ d.label = v

\* A branch to the label of a loop finds it further up in a raw stream, and not
\* on its first line.
ClosedStream(s) ==
  \A k \in 1..Len(s) : s[k].target \in LoopLabels =>
    \E m \in 2..(k - 1) : HasLabel(s[m], s[k].target)

Shaped(s) == ClosedStream(s) /\ \A k \in 1..Len(s) : Sealed(s[k])

DirectedShaped == \A s \in 1..Len(directed) : Shaped(directed[s])

Closed(l) ==
  \A k \in 1..Len(l) : l[k].target \in LoopLabels =>
    \E m \in 2..(k - 1) : /\ l[m].sid = l[k].sid /\ l[m].atomic
                          /\ HasLabel(l[m], l[k].target)

AtomicSealed == \A k \in 1..Len(list) : list[k].atomic => Sealed(list[k])

ShapeInv == DirectedShaped /\ Closed(list) /\ AtomicSealed

LEMMA PlainShape ==
  ASSUME NEW kind \in Kind, NEW c \in Category
  PROVE  /\ Unlabelled(kind, c) \in InstrType
         /\ Unlabelled(kind, c).target \notin LoopLabels
         /\ Sealed(Unlabelled(kind, c))
<1>1. Unlabelled(kind, c) \in InstrType
  BY InstrTyped
<1>2. Unlabelled(kind, c).target = NoLabel /\ Unlabelled(kind, c).label = NoLabel
  BY DEF Unlabelled, Instr
<1>3. Unlabelled(kind, c).local = FALSE
  BY DEF Unlabelled, Instr
<1>4. NoLabel < -1
  BY DEF NoLabel
<1> QED
  BY <1>1, <1>2, <1>3, <1>4, LoopLabelValues DEF Sealed

LEMMA MarkedShape ==
  ASSUME NEW s, Raw(s), Shaped(s), NEW sid \in Nat
  PROVE  Shaped(AsStream(s, sid))
<1> DEFINE a == AsStream(s, sid)
<1>1. Len(s) \in Nat /\ Len(a) = Len(s)
  BY DEF Raw, AsStream
<1>2. \A k \in 1..Len(s) : Marks(a[k], s[k], sid, k)
  BY MarkedAt
<1> HIDE DEF a
<1>3. \A k \in 1..Len(s) : Sealed(a[k])
  BY <1>2 DEF Shaped, Sealed, Marks
<1>4. ASSUME NEW k \in 1..Len(s), a[k].target \in LoopLabels
      PROVE  \E m \in 2..(k - 1) : HasLabel(a[m], a[k].target)
  <2>1. a[k].target = s[k].target
    BY <1>2 DEF Marks
  <2>2. PICK m \in 2..(k - 1) : HasLabel(s[m], s[k].target)
    BY <1>4, <2>1 DEF Shaped, ClosedStream
  <2>3. m \in 1..Len(s)
    BY <1>1
  <2>4. HasLabel(a[m], a[k].target)
    BY <1>2, <2>1, <2>2, <2>3 DEF HasLabel, Marks
  <2> QED
    BY <2>4
<1> QED
  BY <1>1, <1>3, <1>4 DEF Shaped, ClosedStream, a

LEMMA MemShape ==
  ASSUME NEW basic_ \in SUBSET Category, NEW s \in MemStreams(basic_)
  PROVE  Shaped(s)
<1>1. PICK n \in 0..MaxMixed : \E m \in [1..n -> basic_] :
        s = [k \in 1..(n + 2) |-> Unlabelled("mem", IF k \in 2..(n + 1) THEN m[k - 1]
                                                    ELSE "OTHER")]
  BY DEF MemStreams
<1>2. PICK m \in [1..n -> basic_] :
        s = [k \in 1..(n + 2) |-> Unlabelled("mem", IF k \in 2..(n + 1) THEN m[k - 1]
                                                    ELSE "OTHER")]
  BY <1>1
<1>3. n \in Nat
  BY ShapeAssumption
<1>4. ASSUME NEW k \in 1..(n + 2)
      PROVE  Sealed(s[k]) /\ s[k].target \notin LoopLabels
  <2> DEFINE c == IF k \in 2..(n + 1) THEN m[k - 1] ELSE "OTHER"
  <2>1. c \in Category
    <3>1. k \in 2..(n + 1) => k - 1 \in 1..n
      BY <1>3
    <3> QED
      BY <3>1 DEF Category
  <2>2. s[k] = Unlabelled("mem", c)
    BY <1>2
  <2> HIDE DEF c
  <2> QED
    BY <2>1, <2>2, PlainShape DEF Kind
<1>5. Len(s) = n + 2
  BY <1>2, <1>3
<1> QED
  BY <1>4, <1>5 DEF Shaped, ClosedStream

LEMMA JalShape ==
  ASSUME NEW basic_ \in SUBSET Category, NEW s \in JalStreams(basic_)
  PROVE  Shaped(s)
<1>1. PICK c \in basic_ :
        s = [k \in 1..(NJumps + 2) |->
               [Instr("jal", IF k = NJumps + 2 THEN c ELSE "OTHER")
                  EXCEPT !.label = IF k = 1 THEN Named ELSE k - 2]]
  BY DEF JalStreams
<1>2. NJumps \in Nat
  BY ShapeAssumption
<1>3. ASSUME NEW k \in 1..(NJumps + 2)
      PROVE  Sealed(s[k]) /\ s[k].target \notin LoopLabels
  <2> DEFINE d == IF k = NJumps + 2 THEN c ELSE "OTHER"
             v == IF k = 1 THEN Named ELSE k - 2
  <2>1. s[k] = [Instr("jal", d) EXCEPT !.label = v]
    BY <1>1
  <2> HIDE DEF d, v
  <2>2. s[k].target = NoLabel
    BY <2>1 DEF Instr
  <2>3. s[k].local = FALSE
    BY <2>1 DEF Instr
  <2>4. s[k].kind = "jal"
    BY <2>1 DEF Instr
  <2> QED
    BY <2>2, <2>3, <2>4, LoopLabelValues DEF Sealed
<1>4. Len(s) = NJumps + 2
  BY <1>1, <1>2
<1> QED
  BY <1>3, <1>4 DEF Shaped, ClosedStream

LEMMA DrawnShape ==
  ASSUME NEW k, NEW nested, NEW own
  PROVE  /\ Sealed(DrawnInstr(k, nested, own))
         /\ DrawnInstr(k, nested, own).target \notin LoopLabels
<1> DEFINE c == IF k \in own THEN "BRANCH" ELSE "OTHER"
           d == DrawnInstr(k, nested, own)
           v == IF k <= nested THEN k ELSE 0
<1>1. c \in Category
  BY DEF Category
<1>2. d = [Unlabelled("loop", c) EXCEPT !.shared = v]
  BY DEF DrawnInstr
<1> HIDE DEF c, d, v
<1>3. d.target = NoLabel /\ d.label = NoLabel
  BY <1>2 DEF Unlabelled, Instr
<1>4. d.local = FALSE
  BY <1>2 DEF Unlabelled, Instr
<1>5. NoLabel < -1
  BY DEF NoLabel
<1>6. Sealed(d) /\ d.target \notin LoopLabels
  BY <1>3, <1>4, <1>5, LoopLabelValues DEF Sealed
<1> QED
  BY <1>6 DEF d

LEMMA TargetShape ==
  ASSUME NEW i \in 1..MaxNested
  PROVE  /\ Sealed(LoopTarget(i)) /\ LoopTarget(i).target \notin LoopLabels
         /\ HasLabel(LoopTarget(i), LoopLabel(i))
<1>1. LoopTarget(i).label = LoopLabel(i) /\ LoopTarget(i).target = NoLabel
  BY DEF LoopTarget, Instr
<1>2. LoopTarget(i).has_label = TRUE
  BY DEF LoopTarget, Instr
<1>3. LoopTarget(i).local = FALSE
  BY DEF LoopTarget, Instr
<1>4. LoopLabel(i) < -1
  BY ShapeAssumption DEF LoopLabel
<1> QED
  BY <1>1, <1>2, <1>3, <1>4, LoopLabelValues DEF Sealed, HasLabel

LEMMA BranchShape ==
  ASSUME NEW i \in 1..MaxNested
  PROVE  Sealed(LoopBranch(i)) /\ LoopBranch(i).target = LoopLabel(i)
<1>1. LoopBranch(i).label = NoLabel /\ LoopBranch(i).target = LoopLabel(i)
  BY DEF LoopBranch, Unlabelled, Instr
<1>2. LoopBranch(i).local = FALSE
  BY DEF LoopBranch, Unlabelled, Instr
<1>3. NoLabel < -1
  BY DEF NoLabel
<1> QED
  BY <1>1, <1>2, <1>3 DEF Sealed

\* A branch to a loop's label ends the six instructions of that loop, whose
\* third carries the label.
LEMMA SkeletonShape ==
  ASSUME NEW nested \in 1..MaxNested, NEW own, NEW i \in 1..(6 * nested)
  PROVE  LET S == LoopSkeleton(nested, own)
         IN /\ Sealed(S[i])
            /\ S[i].target \in LoopLabels =>
                 i \in {6, 12} /\ HasLabel(S[i - 3], S[i].target)
<1> DEFINE S == LoopSkeleton(nested, own)
<1>1. nested \in {1, 2} /\ i \in Nat
  BY ShapeAssumption
<1>2. LoopOf(i) \in 1..nested /\ LoopOf(i) \in 1..MaxNested
  BY <1>1, SkeletonAt, ShapeAssumption
<1>3. \/ (i - 1) % 6 = 2 /\ S[i] = LoopTarget(LoopOf(i))
      \/ (i - 1) % 6 = 5 /\ S[i] = LoopBranch(LoopOf(i))
      \/ \E k \in 1..(6 * nested) : S[i] = DrawnInstr(k, nested, own)
  BY SkeletonAt
<1>4. CASE S[i] = LoopTarget(LoopOf(i))
  BY <1>2, <1>4, TargetShape
<1>5. CASE \E k \in 1..(6 * nested) : S[i] = DrawnInstr(k, nested, own)
  BY <1>5, DrawnShape
<1>6. CASE (i - 1) % 6 = 5 /\ S[i] = LoopBranch(LoopOf(i))
  <2>1. i \in {6, 12}
    BY <1>1, <1>6
  <2>2. i - 3 \in 1..(6 * nested) /\ ((i - 3) - 1) % 6 = 2 /\ LoopOf(i - 3) = LoopOf(i)
    <3>1. CASE i = 6
      BY <1>1, <3>1 DEF LoopOf
    <3>2. CASE i = 12
      BY <1>1, <3>2 DEF LoopOf
    <3> QED
      BY <2>1, <3>1, <3>2
  <2>3. S[i - 3] = LoopTarget(LoopOf(i))
    BY <2>2 DEF LoopSkeleton
  <2>4. HasLabel(S[i - 3], LoopLabel(LoopOf(i)))
    BY <1>2, <2>3, TargetShape
  <2>5. Sealed(S[i]) /\ S[i].target = LoopLabel(LoopOf(i))
    BY <1>2, <1>6, BranchShape
  <2> QED
    BY <2>1, <2>4, <2>5
<1> QED
  BY <1>3, <1>4, <1>5, <1>6

\* A sorted tuple is one.
LEMMA SortedUp ==
  ASSUME NEW N \in Nat, NEW n \in Nat, NEW p \in Sorted(N, n)
  PROVE  /\ \A i \in 1..N : p[i] \in 0..n
         /\ \A i, j \in 1..N : i <= j => p[i] <= p[j]
<1>1. PICK below \in [1..n -> 0..N] :
        p = [i \in 1..N |-> Cardinality({j \in 1..n : below[j] < i})]
  BY DEF Sorted
<1> DEFINE B(i) == {j \in 1..n : below[j] < i}
<1>2. IsFiniteSet(1..n) /\ Cardinality(1..n) = n
  <2>1. IsFiniteSet(1..n) /\ Cardinality(1..n) = IF 1 > n THEN 0 ELSE n - 1 + 1
    BY FS_Interval
  <2> QED
    BY <2>1
<1>3. ASSUME NEW i \in 1..N
      PROVE  /\ IsFiniteSet(B(i)) /\ Cardinality(B(i)) \in Nat /\ Cardinality(B(i)) <= n
             /\ p[i] = Cardinality(B(i))
  <2>1. B(i) \subseteq 1..n
    OBVIOUS
  <2>2. IsFiniteSet(B(i)) /\ Cardinality(B(i)) <= n
    BY <1>2, <2>1, FS_Subset
  <2>3. Cardinality(B(i)) \in Nat
    BY <2>2, FS_CardinalityType
  <2>4. p[i] = Cardinality(B(i))
    BY <1>1
  <2> QED
    BY <2>2, <2>3, <2>4
<1>4. ASSUME NEW i \in 1..N, NEW j \in 1..N, i <= j PROVE p[i] <= p[j]
  <2>1. B(i) \subseteq B(j)
    <3>1. \A k \in 1..n : below[k] \in Nat
      BY <1>1
    <3> QED
      BY <1>4, <3>1
  <2>2. Cardinality(B(i)) <= Cardinality(B(j))
    BY <1>3, <2>1, FS_Subset
  <2> QED
    BY <1>3, <2>2
<1>5. ASSUME NEW i \in 1..N PROVE p[i] \in 0..n
  <2> HIDE DEF B
  <2> QED
    BY <1>3
<1> QED
  BY <1>4, <1>5

\* The instructions of the loops stand at different places and in their order,
\* except that the last may stand before the one before it.
Apart(at, N, n) ==
  /\ \A i \in 1..N : at[i] \in 1..(n + N) /\ (i > 1 => at[i] > 1)
  /\ \A i, j \in 1..N : at[i] = at[j] => i = j
  /\ \A i, j \in 1..N : i < j /\ i < N - 1 => at[i] < at[j]

\* What MixSlots yields is apart in this sense.
LEMMA SlotsApart ==
  ASSUME NEW N \in {6, 12}, NEW n \in Nat, NEW at \in MixSlots(N, n)
  PROVE  Apart(at, N, n)
<1> DEFINE first(p) == [i \in 1..N |-> CASE i = 1 -> 1
                                         [] i = N /\ N > 1 -> n - 1 + N
                                         [] OTHER -> p[i] + i]
           moved(p) == [i \in 1..N |-> IF i < N /\ first(p)[i] >= first(p)[N]
                                       THEN first(p)[i] + 1 ELSE first(p)[i]]
<1>1. PICK p \in Sorted(N, n) : at = moved(p)
  BY DEF MixSlots
<1>2. N \in Nat /\ N > 5
  OBVIOUS
<1>3. /\ \A i \in 1..N : p[i] \in 0..n
      /\ \A i, j \in 1..N : i <= j => p[i] <= p[j]
  BY <1>2, SortedUp
<1>4. /\ first(p)[1] = 1 /\ first(p)[N] = n - 1 + N
      /\ \A i \in 2..(N - 1) : first(p)[i] = p[i] + i
  BY <1>2
<1>5. \A i \in 1..N : at[i] = IF i < N /\ first(p)[i] >= first(p)[N]
                              THEN first(p)[i] + 1 ELSE first(p)[i]
  BY <1>1
<1> HIDE DEF first, moved
<1>6. 1 \in 1..N /\ N \in 1..N /\ N - 1 \in 1..N
  BY <1>2
<1>7. at[1] = 1 /\ at[N] = n - 1 + N
  BY <1>2, <1>4, <1>5, <1>6
<1>8. ASSUME NEW i \in 2..(N - 2) PROVE at[i] = p[i] + i /\ i \in 1..N
  <2>1. i \in 1..N /\ i \in 2..(N - 1)
    BY <1>2
  <2>2. p[i] \in 0..n
    BY <1>3, <2>1
  <2> QED
    BY <1>2, <1>4, <1>5, <2>1, <2>2
<1>9. at[N - 1] = IF p[N - 1] = n THEN n + N ELSE p[N - 1] + N - 1
  <2>1. N - 1 \in 2..(N - 1) /\ p[N - 1] \in 0..n
    BY <1>2, <1>3, <1>6
  <2> QED
    BY <1>2, <1>4, <1>5, <1>6, <2>1
<1>10. \A i \in 1..N : i = 1 \/ i \in 2..(N - 2) \/ i = N - 1 \/ i = N
  BY <1>2
<1>11. ASSUME NEW i \in 1..N
       PROVE  at[i] \in 1..(n + N) /\ (i > 1 => at[i] > 1)
  <2>1. p[i] \in 0..n
    BY <1>3
  <2>2. CASE i \in 2..(N - 2)
    BY <1>2, <1>8, <2>1, <2>2
  <2>3. CASE i = N - 1
    BY <1>2, <1>9, <2>1, <2>3
  <2> QED
    BY <1>2, <1>7, <1>10, <2>2, <2>3
<1>12. ASSUME NEW i \in 1..N, NEW j \in 1..N, i < j, i < N - 1
       PROVE  at[i] < at[j]
  <2>1. p[i] \in 0..n /\ p[j] \in 0..n /\ p[i] <= p[j]
    BY <1>3, <1>12
  <2>2. CASE i = 1
    BY <1>2, <1>7, <1>11, <1>12, <2>2
  <2>3. CASE i \in 2..(N - 2) /\ j \in 2..(N - 2)
    BY <1>8, <1>12, <2>1, <2>3
  <2>4. CASE i \in 2..(N - 2) /\ j = N - 1
    BY <1>2, <1>8, <1>9, <2>1, <2>4
  <2>5. CASE i \in 2..(N - 2) /\ j = N
    BY <1>2, <1>7, <1>8, <2>1, <2>5
  <2> QED
    BY <1>2, <1>10, <1>12, <2>2, <2>3, <2>4, <2>5
<1>13. at[N - 1] # at[N]
  <2>1. p[N - 1] \in 0..n
    BY <1>3, <1>6
  <2> QED
    BY <1>2, <1>7, <1>9, <2>1
<1>14. ASSUME NEW i \in 1..N, NEW j \in 1..N, at[i] = at[j], i < j PROVE FALSE
  <2>1. at[i] \in Int
    BY <1>11
  <2>2. i < N - 1 => at[i] < at[j]
    BY <1>12, <1>14
  <2>3. i = N - 1 /\ j = N
    BY <1>2, <1>14, <2>1, <2>2
  <2> QED
    BY <1>13, <1>14, <2>3
<1>15. ASSUME NEW i \in 1..N, NEW j \in 1..N, at[i] = at[j] PROVE i = j
  BY <1>2, <1>14, <1>15
<1> QED
  BY <1>11, <1>12, <1>15 DEF Apart

LEMMA LoopShape ==
  ASSUME NEW basic_ \in SUBSET Category, NEW s \in LoopStreams(basic_)
  PROVE  Shaped(s)
<1>1. PICK nested \in 1..MaxNested, n \in Nat : \E at \in MixSlots(6 * nested, n) :
        \E own : \E body \in LoopBodies(at, n, basic_) :
          s = MixedLoop(LoopSkeleton(nested, own), at, n, body)
  BY LoopPick
<1>2. PICK at \in MixSlots(6 * nested, n) :
        \E own : \E body \in LoopBodies(at, n, basic_) :
          s = MixedLoop(LoopSkeleton(nested, own), at, n, body)
  BY <1>1
<1>3. PICK own : \E body \in LoopBodies(at, n, basic_) :
        s = MixedLoop(LoopSkeleton(nested, own), at, n, body)
  BY <1>2
<1>4. PICK body \in LoopBodies(at, n, basic_) :
        s = MixedLoop(LoopSkeleton(nested, own), at, n, body)
  BY <1>3
<1> DEFINE S == LoopSkeleton(nested, own)
<1>0. PICK N \in {6, 12} : N = 6 * nested
  BY ShapeAssumption
<1>5. Len(S) = N /\ DOMAIN S = 1..N
  BY <1>0, SkeletonRaw DEF LoopSkeleton
<1>6. /\ \A i \in 1..N : at[i] \in 1..(n + N) /\ (i > 1 => at[i] > 1)
      /\ \A i, j \in 1..N : at[i] = at[j] => i = j
      /\ \A i, j \in 1..N : i < j /\ i < N - 1 => at[i] < at[j]
  <2>1. Apart(at, N, n)
    BY <1>0, <1>2, SlotsApart
  <2> QED
    BY <2>1 DEF Apart
<1>7. ASSUME NEW i \in 1..N PROVE s[at[i]] = S[i]
  <2>1. (CHOOSE j \in DOMAIN S : at[j] = at[i]) = i
    BY <1>5, <1>6
  <2>2. s[at[i]] = S[CHOOSE j \in DOMAIN S : at[j] = at[i]]
    BY <1>4, <1>5, <1>6 DEF MixedLoop
  <2> QED
    BY <2>1, <2>2
<1>8. /\ DOMAIN at = 1..N /\ Len(at) = N
      /\ \A k \in 1..(n + N) : (\A i \in 1..N : at[i] # k) => body[k] \in Category
  <2>1. DOMAIN at = 1..N /\ Len(at) = N
    BY <1>0, <1>2 DEF MixSlots
  <2> QED
    BY <1>4, <2>1 DEF LoopBodies
<1>9. ASSUME NEW k \in 1..(n + N), \A i \in 1..N : at[i] # k
      PROVE  Sealed(s[k]) /\ s[k].target \notin LoopLabels
  <2>1. body[k] \in Category
    BY <1>8, <1>9
  <2>2. s[k] = Unlabelled("loop", body[k])
    BY <1>4, <1>5, <1>9 DEF MixedLoop
  <2> QED
    BY <2>1, <2>2, PlainShape DEF Kind
<1>10. Len(s) = n + N
  BY <1>0, <1>4, <1>5 DEF MixedLoop
<1>11. ASSUME NEW i \in 1..N
       PROVE  /\ Sealed(S[i])
              /\ S[i].target \in LoopLabels =>
                   i \in {6, 12} /\ HasLabel(S[i - 3], S[i].target)
  BY <1>0, SkeletonShape
<1> HIDE DEF S
<1>12. ASSUME NEW k \in 1..(n + N) PROVE Sealed(s[k])
  BY <1>7, <1>9, <1>11
<1>13. ASSUME NEW k \in 1..(n + N), s[k].target \in LoopLabels
       PROVE  \E m \in 2..(k - 1) : HasLabel(s[m], s[k].target)
  <2>1. PICK i \in 1..N : at[i] = k
    BY <1>9, <1>13
  <2>2. s[k] = S[i] /\ i \in {6, 12} /\ HasLabel(S[i - 3], S[i].target)
    BY <1>7, <1>11, <1>13, <2>1
  <2>3. i - 3 \in 1..N /\ i - 3 > 1 /\ i - 3 < N - 1 /\ i - 3 < i
    BY <2>2
  <2>4. at[i - 3] \in 2..(k - 1)
    <3>1. at[i - 3] \in 1..(n + N) /\ at[i - 3] > 1 /\ at[i - 3] < k
      BY <1>6, <2>1, <2>3
    <3> QED
      BY <3>1
  <2>5. HasLabel(s[at[i - 3]], s[k].target)
    BY <1>7, <2>2, <2>3
  <2> QED
    BY <2>4, <2>5
<1> QED
  BY <1>10, <1>12, <1>13 DEF Shaped, ClosedStream

LEMMA StreamsOfShape ==
  ASSUME NEW basic_ \in SUBSET Category, NEW kind \in Kind \ {"random"},
         NEW s \in StreamsOf(kind, basic_)
  PROVE  Shaped(s)
BY MemShape, JalShape, LoopShape DEF StreamsOf, Kind

LEMMA DirectedShapedStep ==
  ASSUME TypeOK, DirectedOk, DirectedShaped, Next
  PROVE  DirectedShaped'
<1>1. CASE GenDirected
  <2>1. PICK kind \in Kind \ {"random"} : \E s \in StreamsOf(kind, basic) :
          directed' = Append(directed, AsStream(s, Len(directed) + 1))
    BY <1>1 DEF GenDirected
  <2>2. PICK s \in StreamsOf(kind, basic) :
          directed' = Append(directed, AsStream(s, Len(directed) + 1))
    BY <2>1
  <2> DEFINE new == AsStream(s, Len(directed) + 1)
  <2>3. directed \in Seq(Seq(InstrType)) /\ Len(directed) \in Nat /\ basic \subseteq Category
    BY DEF TypeOK
  <2>4. StreamOk(new, Len(directed) + 1) /\ Shaped(new)
    BY <2>3, StreamsOfRaw, StreamsOfShape, MarkedStream, MarkedShape
  <2>5. new \in Seq(InstrType) /\ directed' = Append(directed, new)
    BY <2>2, <2>4 DEF StreamOk
  <2> HIDE DEF new
  <2>6. /\ Len(directed') = Len(directed) + 1 /\ directed'[Len(directed) + 1] = new
        /\ \A t \in 1..Len(directed) : directed'[t] = directed[t]
    BY <2>3, <2>5
  <2>7. ASSUME NEW t \in 1..Len(directed') PROVE Shaped(directed'[t])
    <3>1. t \in 1..Len(directed) \/ t = Len(directed) + 1
      BY <2>3, <2>6
    <3> QED
      BY <2>4, <2>6, <3>1 DEF DirectedShaped
  <2> QED
    BY <2>7 DEF DirectedShaped
<1>2. CASE NextHart /\ hart < NHarts
  BY <1>2 DEF NextHart, DirectedShaped
<1>3. CASE UNCHANGED directed
  BY <1>3 DEF DirectedShaped
<1> QED
  BY <1>1, <1>2, <1>3
     DEF Next, Pass, DirectedFails, GenMain, InsertDirected, InjectFails, EndInsert, LabelStep, EndLabel,
         BranchStep, EndBranch, Emit, NextHart

LEMMA ShapeInsert ==
  ASSUME TypeOK, DirectedOk, DirectedShaped, Closed(list), AtomicSealed, InsertDirected
  PROVE  Closed(list') /\ AtomicSealed'
<1> DEFINE new == directed[pos]
<1>1. pos \in 1..Len(directed) /\ list \in Seq(InstrType) /\ Len(list) \in Nat
  BY DEF TypeOK, InsertDirected
<1>2. /\ new \in Seq(InstrType) /\ Len(new) \in Nat
      /\ \A j \in 1..Len(new) : new[j].sid = pos /\ new[j].atomic
      /\ Shaped(new)
  BY <1>1 DEF DirectedOk, StreamOk, Directed, DirectedShaped
<1> HIDE DEF new
<1>3. CASE list = <<>> /\ list' = new
  <2>1. \A k \in 1..Len(new) : Sealed(new[k])
    BY <1>2 DEF Shaped
  <2>2. ASSUME NEW k \in 1..Len(new), new[k].target \in LoopLabels
        PROVE  \E m \in 2..(k - 1) : /\ new[m].sid = new[k].sid /\ new[m].atomic
                                     /\ HasLabel(new[m], new[k].target)
    <3>1. PICK m \in 2..(k - 1) : HasLabel(new[m], new[k].target)
      BY <1>2, <2>2 DEF Shaped, ClosedStream
    <3>2. m \in 1..Len(new)
      BY <1>2
    <3> QED
      BY <1>2, <3>1, <3>2
  <2> QED
    BY <1>3, <2>1, <2>2 DEF Closed, AtomicSealed
<1>4. ASSUME NEW i \in 1..Len(list), Inserts(i, new)
      PROVE  Closed(list') /\ AtomicSealed'
  <2>0. PICK L \in Nat : L = Len(new)
    BY <1>2
  <2>1. /\ i \in Nat /\ Len(list') \in Nat
        /\ \A k \in 1..Len(list) :
             /\ k < i => list'[k] = list[k]
             /\ k >= i => list'[k + L] = list[k]
        /\ \A j \in 1..L : list'[i - 1 + j] = new[j]
    BY <1>1, <1>2, <1>4, <2>0 DEF Inserts
  <2>2. ASSUME NEW k \in 1..Len(list')
        PROVE  \/ k \in 1..(i - 1) /\ list'[k] = list[k]
               \/ \E j \in 1..L : k = i - 1 + j /\ list'[k] = new[j]
               \/ \E q \in i..Len(list) : k = q + L /\ list'[k] = list[q]
    BY <1>4, <2>0 DEF Inserts
  <2>3. 1..(i - 1) \subseteq 1..Len(list) /\ i..Len(list) \subseteq 1..Len(list)
    BY <1>1
  <2>4. ASSUME NEW k \in 1..Len(list'), list'[k].atomic PROVE Sealed(list'[k])
    <3>1. CASE \E q \in 1..Len(list) : list'[k] = list[q]
      BY <2>4, <3>1 DEF AtomicSealed
    <3>2. CASE \E j \in 1..L : list'[k] = new[j]
      BY <1>2, <2>0, <3>2 DEF Shaped
    <3> QED
      BY <2>2, <2>3, <3>1, <3>2
  <2>5. ASSUME NEW k \in 1..Len(list'), list'[k].target \in LoopLabels
        PROVE  \E m \in 2..(k - 1) : /\ list'[m].sid = list'[k].sid /\ list'[m].atomic
                                     /\ HasLabel(list'[m], list'[k].target)
    <3>1. CASE k \in 1..(i - 1) /\ list'[k] = list[k]
      <4>1. PICK m \in 2..(k - 1) : /\ list[m].sid = list[k].sid /\ list[m].atomic
                                    /\ HasLabel(list[m], list[k].target)
        BY <2>3, <2>5, <3>1 DEF Closed
      <4>2. list'[m] = list[m]
        <5>1. m \in 1..Len(list) /\ m < i
          BY <1>1, <2>1, <3>1
        <5> QED
          BY <2>1, <5>1
      <4> QED
        BY <3>1, <4>1, <4>2
    <3>2. ASSUME NEW j \in 1..L, k = i - 1 + j, list'[k] = new[j]
          PROVE  \E m \in 2..(k - 1) : /\ list'[m].sid = list'[k].sid /\ list'[m].atomic
                                       /\ HasLabel(list'[m], list'[k].target)
      <4>1. PICK m \in 2..(j - 1) : HasLabel(new[m], new[j].target)
        BY <1>2, <2>0, <2>5, <3>2 DEF Shaped, ClosedStream
      <4>2. m \in 1..L
        BY <2>0
      <4>3. /\ list'[i - 1 + m] = new[m] /\ new[m].sid = new[j].sid /\ new[m].atomic
        BY <1>2, <2>0, <2>1, <4>2
      <4>4. i - 1 + m \in 2..(k - 1)
        BY <1>1, <2>0, <2>1, <3>2
      <4> QED
        BY <3>2, <4>1, <4>3, <4>4
    <3>3. ASSUME NEW q \in i..Len(list), k = q + L, list'[k] = list[q]
          PROVE  \E m \in 2..(k - 1) : /\ list'[m].sid = list'[k].sid /\ list'[m].atomic
                                       /\ HasLabel(list'[m], list'[k].target)
      <4>1. PICK m \in 2..(q - 1) : /\ list[m].sid = list[q].sid /\ list[m].atomic
                                    /\ HasLabel(list[m], list[q].target)
        BY <2>3, <2>5, <3>3 DEF Closed
      <4>2. m \in 1..Len(list) /\ m \in Nat
        BY <1>1
      <4>3. CASE m < i
        <5>1. list'[m] = list[m] /\ m \in 2..(k - 1)
          BY <1>1, <2>1, <3>3, <4>2, <4>3
        <5> QED
          BY <3>3, <4>1, <5>1
      <4>4. CASE m >= i
        <5>1. list'[m + L] = list[m] /\ m + L \in 2..(k - 1)
          BY <1>1, <2>1, <3>3, <4>2, <4>4
        <5> QED
          BY <3>3, <4>1, <5>1
      <4> QED
        BY <2>1, <4>2, <4>3, <4>4
    <3> QED
      BY <2>2, <3>1, <3>2, <3>3
  <2> QED
    BY <2>4, <2>5 DEF Closed, AtomicSealed
<1> QED
  BY <1>3, <1>4, InsertPlaces DEF new

\* What a step may do to the instruction on line k: it gives no branch the label
\* of a loop, and leaves the labels of atomic instructions alone, except that
\* line 1 may be named.
KeepsShape(d, e, k) ==
  /\ e.sid = d.sid /\ e.atomic = d.atomic /\ e.kind = d.kind
  /\ e.target \in LoopLabels => d.target = e.target
  /\ d.atomic /\ Sealed(d) =>
       /\ Sealed(e)
       /\ k # 1 => e.label = d.label /\ (d.has_label => e.has_label)

LEMMA ShapeKept ==
  ASSUME TypeOK, Closed(list), AtomicSealed, Len(list') = Len(list),
         \A k \in 1..Len(list) : KeepsShape(list[k], list'[k], k)
  PROVE  Closed(list') /\ AtomicSealed'
<1>1. Len(list) \in Nat
  BY DEF TypeOK
<1>2. ASSUME NEW k \in 1..Len(list), list'[k].atomic PROVE Sealed(list'[k])
  BY <1>2 DEF AtomicSealed, KeepsShape
<1>3. ASSUME NEW k \in 1..Len(list), list'[k].target \in LoopLabels
      PROVE  \E m \in 2..(k - 1) : /\ list'[m].sid = list'[k].sid /\ list'[m].atomic
                                   /\ HasLabel(list'[m], list'[k].target)
  <2>1. list[k].target = list'[k].target /\ list[k].sid = list'[k].sid
    BY <1>3 DEF KeepsShape
  <2>2. PICK m \in 2..(k - 1) : /\ list[m].sid = list[k].sid /\ list[m].atomic
                                /\ HasLabel(list[m], list[k].target)
    BY <1>3, <2>1 DEF Closed
  <2>3. m \in 1..Len(list) /\ m # 1
    BY <1>1
  <2>4. Sealed(list[m]) /\ KeepsShape(list[m], list'[m], m)
    BY <2>2, <2>3 DEF AtomicSealed
  <2>5. HasLabel(list'[m], list'[k].target)
    BY <2>1, <2>2, <2>3, <2>4 DEF HasLabel, KeepsShape
  <2>6. list'[m].sid = list'[k].sid /\ list'[m].atomic
    BY <2>1, <2>2, <2>4 DEF KeepsShape
  <2> QED
    BY <2>5, <2>6
<1> QED
  BY <1>2, <1>3 DEF Closed, AtomicSealed

LEMMA ShapeLabel ==
  ASSUME TypeOK, Aliases, Closed(list), AtomicSealed, LabelStep
  PROVE  Closed(list') /\ AtomicSealed'
<1>1. Len(list') = Len(list)
  BY LabelList
<1>2. ASSUME NEW k \in 1..Len(list) PROVE KeepsShape(list[k], list'[k], k)
  <2>1. CASE LabelResult(list[k], list'[k])
    <3>1. list[k].atomic => ~TakesLabel(list[k])
      BY DEF TakesLabel
    <3> QED
      BY <2>1, <3>1 DEF LabelResult, KeepsShape, Sealed
  <2>2. CASE list'[k] = list[k]
    BY <2>2 DEF KeepsShape
  <2> QED
    BY <2>1, <2>2, LabelList
<1> QED
  BY <1>1, <1>2, ShapeKept

LEMMA ShapeBranch ==
  ASSUME TypeOK, Aliases, Numbering, Closed(list), AtomicSealed, BranchStep
  PROVE  Closed(list') /\ AtomicSealed'
<1>1. Len(list') = Len(list) /\ phase = "branch" /\ label_idx \in Nat
  BY BranchList DEF BranchStep, TypeOK
<1>2. ASSUME NEW k \in 1..Len(list) PROVE KeepsShape(list[k], list'[k], k)
  <2>1. CASE BranchResult(list[k], list'[k], branch_target')
    <3>1. ASSUME NeedsTarget(list[k]) PROVE list'[k].target \notin LoopLabels
      <4>1. PICK step \in 1..MaxBranchStep :
              list'[k].target = BranchTargetLabel(list[k], step)
        BY <2>1, <3>1 DEF BranchResult
      <4>2. step \in Nat
        BY ProgramAssumption
      <4>3. list[k].idx \in 0..label_idx
        BY <1>1 DEF Numbering, Numbered, Later
      <4>4. list'[k].target \in Int /\ list'[k].target >= -1
        BY <1>1, <4>1, <4>2, <4>3 DEF BranchTargetLabel
      <4>5. ASSUME list'[k].target \in LoopLabels PROVE FALSE
        <5>1. list'[k].target < -3
          BY <4>5, LoopLabelValues
        <5> QED
          BY <4>4, <5>1
      <4> QED
        BY <4>5
    <3>2. list'[k].target \in LoopLabels => list[k].target = list'[k].target
      BY <2>1, <3>1 DEF BranchResult
    <3>3. Sealed(list[k]) => Sealed(list'[k]) /\ (list[k].has_label => list'[k].has_label)
      BY <2>1 DEF BranchResult, Sealed
    <3> QED
      BY <2>1, <3>2, <3>3 DEF BranchResult, KeepsShape
  <2>2. CASE list'[k] = list[k]
    BY <2>2 DEF KeepsShape
  <2> QED
    BY <2>1, <2>2, BranchList
<1> QED
  BY <1>1, <1>2, ShapeKept

LEMMA ShapeEmit ==
  ASSUME TypeOK, Aliases, Closed(list), AtomicSealed, Emit, list # <<>>
  PROVE  Closed(list') /\ AtomicSealed'
<1>1. Len(list') = Len(list)
  BY EmitList
<1>2. ASSUME NEW k \in 1..Len(list) PROVE KeepsShape(list[k], list'[k], k)
  <2>1. /\ EmitResult(list[k], list'[k])
        /\ IF k = 1 THEN list'[k].has_label /\ list'[k].label = Named
                    ELSE list'[k].label = list[k].label
    BY EmitList
  <2>2. Named < -1
    BY DEF Named
  <2>3. Sealed(list[k]) => Sealed(list'[k])
    BY <2>1, <2>2 DEF EmitResult, Sealed
  <2> QED
    BY <2>1, <2>3 DEF EmitResult, KeepsShape
<1> QED
  BY <1>1, <1>2, ShapeKept

LEMMA ShapeStep ==
  ASSUME TypeOK, IInv, ShapeInv, Next
  PROVE  ShapeInv'
<1>0. /\ DirectedOk /\ Aliases /\ DirectedShaped /\ Closed(list) /\ AtomicSealed /\ Numbering
  BY DEF IInv, ShapeInv
<1>1. DirectedShaped'
  BY <1>0, DirectedShapedStep
<1>2. CASE GenMain
  <2>1. \A k \in 1..Len(list') : ~list'[k].atomic /\ list'[k].target \notin LoopLabels
    <3>1. PICK c \in GenInstr(AllowedInstr, InstrCnt) :
            list' = [k \in 1..Len(c) |-> Instr("random", c[k])]
      BY <1>2 DEF GenMain
    <3>2. basic \subseteq Category
      BY DEF TypeOK
    <3>3. /\ Len(list') = Len(c)
          /\ \A k \in 1..Len(c) : list'[k] = Instr("random", c[k])
      BY <3>1, <3>2, RandomTyped
    <3>4. ASSUME NEW k \in 1..Len(c) PROVE list'[k].target \notin LoopLabels
      <4>1. list'[k] = Instr("random", c[k])
        BY <3>3
      <4>2. Instr("random", c[k]).target = NoLabel
        BY DEF Instr
      <4> QED
        BY <4>1, <4>2, LoopLabelValues
    <3> QED
      BY <1>2, <3>3, <3>4, GenMainList
  <2> QED
    BY <1>1, <2>1 DEF ShapeInv, Closed, AtomicSealed
<1>3. CASE InsertDirected
  BY <1>0, <1>1, <1>3, ShapeInsert DEF ShapeInv
<1>4. CASE LabelStep
  BY <1>0, <1>1, <1>4, ShapeLabel DEF ShapeInv
<1>5. CASE BranchStep
  BY <1>0, <1>1, <1>5, ShapeBranch DEF ShapeInv
<1>6. CASE Emit /\ list # <<>>
  BY <1>0, <1>1, <1>6, ShapeEmit DEF ShapeInv
<1>7. CASE list' = list \/ list' = <<>>
  <2>1. Closed(<<>>)
    BY DEF Closed
  <2> QED
    BY <1>0, <1>1, <1>7, <2>1 DEF ShapeInv, AtomicSealed
<1> QED
  BY <1>2, <1>3, <1>4, <1>5, <1>6, <1>7
     DEF Next, Pass, GenDirected, DirectedFails, InjectFails, EndInsert, EndLabel, EndBranch, Emit, NextHart

-----------------------------------------------------------------------------
(* The theorems.                                                            *)

LEMMA InvStep ==
  ASSUME TypeOK, IInv, [Next]_vars
  PROVE  TypeOK' /\ IInv'
<1>1. CASE Next
  BY <1>1, TypeStep, DirectedStep, IntactStep, RandomLastStep, FreshStep, NumberingStep,
     TargetsStep, AliasesStep DEF IInv
<1>2. CASE UNCHANGED vars
  <2>1. TypeOK'
    BY <1>2 DEF vars, TypeOK
  <2>2. DirectedOk' /\ RandomLast' /\ Fresh'
    BY <1>2 DEF vars, IInv, DirectedOk, RandomLast, Fresh
  <2>3. StreamsIntact'
    BY <1>2 DEF vars, IInv, StreamsIntact, Inserted, StandsAt
  <2>4. Numbering'
    BY <1>2 DEF vars, IInv, Numbering, Numbered
  <2>5. Targets'
    BY <1>2 DEF vars, IInv, Targets, ForwardBranch, HasRandom, Served, Reached
  <2>6. Aliases'
    BY <1>2 DEF vars, IInv, Aliases
  <2> QED
    BY <2>1, <2>2, <2>3, <2>4, <2>5, <2>6 DEF IInv
<1> QED
  BY <1>1, <1>2

LEMMA Invariance == Spec => [](TypeOK /\ IInv)
<1>1. Init => TypeOK /\ IInv
  BY InvInit
<1>2. TypeOK /\ IInv /\ [Next]_vars => TypeOK' /\ IInv'
  BY InvStep
<1> QED
  BY <1>1, <1>2, PTL DEF Spec

\* The variables hold what TypeOK says, however many streams are put in.
THEOREM TypeCorrect == Spec => []TypeOK
BY Invariance, PTL

\* A directed stream that has been put in stays whole and in order.
THEOREM StreamsStayIntact == Spec => []StreamsIntact
<1>1. TypeOK /\ IInv => StreamsIntact
  BY DEF IInv
<1> QED
  BY <1>1, Invariance, PTL

\* In a finished program every numeric branch finds its label further down.
THEOREM BranchesGoForward == Spec => []BranchesForward
<1>1. ASSUME TypeOK, IInv PROVE BranchesForward
  <2>1. ASSUME phase = "emitted", HasRandom, NEW k \in DOMAIN list, ForwardBranch(k)
        PROVE  Destinations(k) # {}
    <3>1. k \in 1..Len(list) /\ phase # "branch"
      BY <1>1, <2>1 DEF TypeOK
    <3>2. Served(k)
      BY <1>1, <2>1, <3>1 DEF IInv, Targets, Reached
    <3> QED
      BY <3>2 DEF Served, Destinations
  <2> QED
    BY <2>1 DEF BranchesForward
<1>2. TypeOK /\ IInv => BranchesForward
  BY <1>1
<1> QED
  BY <1>2, Invariance, PTL

LEMMA ShapeInvariance == Spec => [](TypeOK /\ IInv /\ ShapeInv)
<1>1. Init => ShapeInv
  BY DEF Init, ShapeInv, DirectedShaped, Closed, AtomicSealed
<1>2. ASSUME TypeOK, IInv, ShapeInv, [Next]_vars PROVE ShapeInv'
  <2>1. CASE Next
    BY <1>2, <2>1, ShapeStep
  <2>2. CASE UNCHANGED vars
    BY <1>2, <2>2 DEF vars, ShapeInv, DirectedShaped, Closed, AtomicSealed
  <2> QED
    BY <1>2, <2>1, <2>2
<1>3. TypeOK /\ IInv /\ ShapeInv /\ [Next]_vars => ShapeInv'
  BY <1>2
<1> QED
  BY <1>1, <1>3, Invariance, PTL DEF Spec

\* The first of a set of natural numbers.
LEMMA Smallest ==
  ASSUME NEW S \in SUBSET Nat, S # {}
  PROVE  \E m \in S : \A n \in S : m <= n
<1>1. PICK m \in S : \A n \in S : ~(<<n, m>> \in OpToRel(<, Nat))
  BY NatLessThanWellFounded, WFMin
<1>2. ASSUME NEW n \in S PROVE m <= n
  <2>1. <<n, m>> \in Nat \X Nat /\ <<n, m>>[1] = n /\ <<n, m>>[2] = m
    OBVIOUS
  <2>2. ~(n < m)
    BY <1>1, <2>1 DEF OpToRel
  <2> QED
    BY <2>2
<1> QED
  BY <1>2

\* No forward branch of a finished program lands inside a memory stream or a
\* loop: what stands first under its number is not atomic, or of a jump stream.
THEOREM BranchesStayOut == Spec => []BranchesAvoidAtomic
<1>1. ASSUME TypeOK, IInv, ShapeInv PROVE BranchesAvoidAtomic
  <2>1. ASSUME phase = "emitted", NEW k \in DOMAIN list, ForwardBranch(k),
               Destinations(k) # {}
        PROVE  ~list[Landing(k)].atomic \/ list[Landing(k)].kind = "jal"
    <3>1. k \in Nat /\ Len(list) \in Nat
      BY <1>1 DEF TypeOK
    <3>2. Destinations(k) \subseteq Nat
      BY <3>1 DEF Destinations
    <3>3. \E m \in Destinations(k) : \A n \in Destinations(k) : m <= n
      BY <2>1, <3>2, Smallest
    <3>4. Landing(k) \in Destinations(k)
      BY <3>3 DEF Landing
    <3>5. PICK m \in Destinations(k) : m = Landing(k)
      BY <3>4
    <3>6. /\ m \in 1..Len(list) /\ list[m].has_label
          /\ list[m].label = list[k].target
      BY <3>1 DEF Destinations
    <3>7. list[m].label \in Int /\ list[m].label >= -1
      <4>1. k \in 1..Len(list) /\ Reached(k)
        BY <1>1, <2>1 DEF TypeOK, Reached
      <4>2. list[k].target >= -1
        BY <1>1, <2>1, <4>1 DEF IInv, Targets
      <4>3. PICK d \in InstrType : d = list[m]
        BY <1>1, <3>6 DEF TypeOK
      <4>4. list[m].label \in Int
        BY <4>3 DEF InstrType
      <4> QED
        BY <3>6, <4>2, <4>4
    <3>8. ASSUME list[m].atomic, list[m].kind # "jal" PROVE FALSE
      <4>1. list[m].label < -1
        BY <1>1, <3>6, <3>8 DEF ShapeInv, AtomicSealed, Sealed
      <4> QED
        BY <3>7, <4>1
    <3> QED
      BY <3>5, <3>8
  <2> QED
    BY <2>1 DEF BranchesAvoidAtomic
<1>2. TypeOK /\ IInv /\ ShapeInv => BranchesAvoidAtomic
  BY <1>1
<1> QED
  BY <1>2, ShapeInvariance, PTL

\* The backward branch of each loop of a stream, one or two, keeps the target
\* of its own loop before it in the same stream, through mixing, injection,
\* labelling, the write to one object that stands at two places, and the naming
\* of the first line.
THEOREM LoopsStayClosed == Spec => []LoopsClosed
<1>1. ASSUME TypeOK, ShapeInv PROVE LoopsClosed
  <2>1. DOMAIN list = 1..Len(list) /\ Closed(list)
    BY <1>1 DEF TypeOK, ShapeInv
  <2> QED
    <3>1. ASSUME NEW k \in 1..Len(list), list[k].target \in LoopLabels
          PROVE  \E m \in 1..(k - 1) : /\ list[m].sid = list[k].sid
                                       /\ list[m].has_label
                                       /\ list[m].label = list[k].target
      <4>1. PICK m \in 2..(k - 1) : /\ list[m].sid = list[k].sid
                                    /\ HasLabel(list[m], list[k].target)
        BY <2>1, <3>1 DEF Closed
      <4>2. m \in 1..(k - 1)
        OBVIOUS
      <4> QED
        BY <4>1, <4>2 DEF HasLabel
    <3> QED
      BY <2>1, <3>1 DEF LoopsClosed
<1>2. TypeOK /\ IInv /\ ShapeInv => LoopsClosed
  BY <1>1
<1> QED
  BY <1>2, ShapeInvariance, PTL
=============================================================================
