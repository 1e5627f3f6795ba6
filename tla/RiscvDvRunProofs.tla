-------------------------- MODULE RiscvDvRunProofs --------------------------
(***************************************************************************)
(* Proofs about run.py.  The first invariant is about its processes: the   *)
(* batches are cut without gap or overlap for every test list and batch    *)
(* size, and no generator runs when gcc starts, nor, if they run one after *)
(* the other, when run.py has ended.  The second, which rests on the       *)
(* first, is about the files: which process made them, with which seed.    *)
(***************************************************************************)
EXTENDS RiscvDvRun, TLAPS

-----------------------------------------------------------------------------
(* The arithmetic of do_simulate.                                           *)

\* There are as many batches as are needed for n programs, and no more.
LEMMA BatchCntBounds ==
  ASSUME NEW n \in Nat \ {0}, NEW s \in Nat
  PROVE  /\ BatchCnt(n, s) \in Nat \ {0}
         /\ s > 0 => n <= BatchCnt(n, s) * s /\ (BatchCnt(n, s) - 1) * s < n
         /\ s = 0 => BatchCnt(n, s) = 1
<1>1. CASE s = 0
  BY <1>1 DEF BatchCnt
<1>2. CASE s > 0
  <2> DEFINE c == (n + s - 1) \div s
  <2>1. c \in Nat /\ s * c <= n + s - 1 /\ n + s - 1 < s * c + s
    BY <1>2
  <2>2. s * c = c * s /\ (c - 1) * s = c * s - s
    BY <1>2, <2>1
  <2>3. c # 0
    BY <1>2, <2>1
  <2>4. BatchCnt(n, s) = c
    BY <1>2 DEF BatchCnt
  <2> HIDE DEF c
  <2> QED
    BY <1>2, <2>1, <2>2, <2>3, <2>4
<1> QED
  BY <1>1, <1>2

\* A batch's programs are some of the n.
LEMMA BatchInside ==
  ASSUME NEW n \in Nat \ {0}, NEW s \in Nat, NEW i \in 0..(BatchCnt(n, s) - 1)
  PROVE  /\ StartIdx(s, i) \in Nat /\ TestCnt(n, s, i) \in Nat
         /\ StartIdx(s, i) + TestCnt(n, s, i) <= n
<1>1. /\ BatchCnt(n, s) \in Nat \ {0}
      /\ s > 0 => n <= BatchCnt(n, s) * s /\ (BatchCnt(n, s) - 1) * s < n
      /\ s = 0 => BatchCnt(n, s) = 1
  BY BatchCntBounds
<1>2. i \in Nat /\ i * s \in Nat
  BY <1>1
<1>3. CASE i = BatchCnt(n, s) - 1
  BY <1>1, <1>2, <1>3 DEF StartIdx, TestCnt
<1>4. CASE i < BatchCnt(n, s) - 1
  <2>1. i * s + s <= (BatchCnt(n, s) - 1) * s
    BY <1>1, <1>2, <1>4
  <2> QED
    BY <1>1, <1>2, <1>4, <2>1 DEF StartIdx, TestCnt
<1> QED
  BY <1>1, <1>2, <1>3, <1>4

\* A batch ends before the next ones start.
LEMMA BatchesApart ==
  ASSUME NEW n \in Nat \ {0}, NEW s \in Nat,
         NEW i \in 0..(BatchCnt(n, s) - 1), NEW j \in 0..(BatchCnt(n, s) - 1), i < j
  PROVE  StartIdx(s, i) + TestCnt(n, s, i) <= StartIdx(s, j)
<1>1. BatchCnt(n, s) \in Nat \ {0} /\ i < BatchCnt(n, s) - 1 /\ i \in Nat /\ j \in Nat
  BY BatchCntBounds
<1>2. i * s + s <= j * s
  BY <1>1
<1> QED
  BY <1>1, <1>2 DEF StartIdx, TestCnt

\* Every program is in a batch.
LEMMA BatchesCover ==
  ASSUME NEW n \in Nat \ {0}, NEW s \in Nat, NEW k \in 0..(n - 1)
  PROVE  \E i \in 0..(BatchCnt(n, s) - 1) :
           StartIdx(s, i) <= k /\ k < StartIdx(s, i) + TestCnt(n, s, i)
<1>1. /\ BatchCnt(n, s) \in Nat \ {0}
      /\ s > 0 => n <= BatchCnt(n, s) * s /\ (BatchCnt(n, s) - 1) * s < n
      /\ s = 0 => BatchCnt(n, s) = 1
  BY BatchCntBounds
<1>2. CASE s = 0
  <2>1. 0 \in 0..(BatchCnt(n, s) - 1) /\ StartIdx(s, 0) = 0 /\ TestCnt(n, s, 0) = n
    BY <1>1, <1>2 DEF StartIdx, TestCnt
  <2> QED
    BY <2>1
<1>3. CASE s > 0
  <2> DEFINE i == k \div s
  <2>1. i \in Nat /\ s * i <= k /\ k < s * i + s
    BY <1>3
  <2>2. s * i = i * s
    BY <2>1
  <2> HIDE DEF i
  <2>3. i < BatchCnt(n, s)
    <3>1. SUFFICES ASSUME BatchCnt(n, s) <= i PROVE FALSE
      BY <1>1, <2>1
    <3>2. BatchCnt(n, s) * s <= i * s
      BY <1>1, <1>3, <2>1, <3>1
    <3>3. i * s \in Nat /\ BatchCnt(n, s) * s \in Nat
      BY <1>1, <2>1
    <3> QED
      BY <1>1, <1>3, <2>1, <2>2, <3>2, <3>3
  <2>4. StartIdx(s, i) <= k /\ k < StartIdx(s, i) + TestCnt(n, s, i)
    BY <1>1, <1>3, <2>1, <2>2, <2>3 DEF StartIdx, TestCnt
  <2> QED
    BY <1>1, <2>1, <2>3, <2>4
<1> QED
  BY <1>2, <1>3

-----------------------------------------------------------------------------
(* The batches of a command line.                                           *)

Cnt(t)       == BatchCnt(Iter(config, t), config.batch_size)
Before(a, b) == a[1] < b[1] \/ (a[1] = b[1] /\ a[2] < b[2])

LEMMA ElementOf ==
  ASSUME NEW S, NEW seq \in Seq(S), NEW i \in 1..Len(seq)
  PROVE  seq[i] \in S
OBVIOUS

LEMMA ConfigTyped ==
  ASSUME config \in Configs
  PROVE  /\ Len(config.tests) \in Nat \ {0} /\ Tests(config) = 1..Len(config.tests)
         /\ \A t \in Tests(config) : Iter(config, t) \in Nat \ {0}
         /\ config.batch_size \in Nat /\ config.lsf \in BOOLEAN
<1>1. /\ config.tests # <<>>
      /\ config.tests \in Seq([iterations : Nat \ {0}, gen_test : GenTests])
      /\ config.batch_size \in Nat /\ config.lsf \in BOOLEAN
  BY ConfigAssumption
<1>2. Len(config.tests) \in Nat \ {0} /\ DOMAIN config.tests = 1..Len(config.tests)
  BY <1>1
<1>3. ASSUME NEW t \in 1..Len(config.tests)
      PROVE  config.tests[t].iterations \in Nat \ {0}
  <2> DEFINE R == [iterations : Nat \ {0}, gen_test : GenTests]
  <2>1. \A r \in R : r.iterations \in Nat \ {0}
    OBVIOUS
  <2>2. config.tests \in Seq(R)
    BY <1>1
  <2> HIDE DEF R
  <2>3. config.tests[t] \in R
    BY <1>3, <2>2, ElementOf
  <2> QED
    BY <2>1, <2>3
<1> QED
  BY <1>1, <1>2, <1>3 DEF Tests, Iter

\* The pairs of two nested loops, and the order in which they come.
Pairs(n, c)   == UNION {{<<t, i>> : i \in 0..(c[t] - 1)} : t \in 1..n}
Last(n, c, b) == b[1] = n /\ b[2] = c[b[1]] - 1
Succ(c, b)    == IF b[2] = c[b[1]] - 1 THEN <<b[1] + 1, 0>> ELSE <<b[1], b[2] + 1>>

LEMMA PairsAre ==
  ASSUME NEW n \in Nat \ {0}, NEW c \in [1..n -> Nat \ {0}]
  PROVE  /\ \A b \in Pairs(n, c) : /\ b[1] \in 1..n /\ b[2] \in 0..(c[b[1]] - 1)
                                   /\ b = <<b[1], b[2]>> /\ c[b[1]] \in Nat \ {0}
         /\ \A t \in 1..n : \A i \in 0..(c[t] - 1) : <<t, i>> \in Pairs(n, c)
<1>1. \A b \in Pairs(n, c) : \E t \in 1..n : \E i \in 0..(c[t] - 1) : b = <<t, i>>
  BY DEF Pairs
<1>2. \A t \in 1..n : \A i \in 0..(c[t] - 1) : <<t, i>> \in Pairs(n, c)
  BY DEF Pairs
<1>3. ASSUME NEW b \in Pairs(n, c)
      PROVE  /\ b[1] \in 1..n /\ b[2] \in 0..(c[b[1]] - 1)
             /\ b = <<b[1], b[2]>> /\ c[b[1]] \in Nat \ {0}
  <2>1. PICK t \in 1..n : \E i \in 0..(c[t] - 1) : b = <<t, i>>
    BY <1>1
  <2>2. PICK i \in 0..(c[t] - 1) : b = <<t, i>>
    BY <2>1
  <2>3. b[1] = t /\ b[2] = i
    BY <2>2
  <2> QED
    BY <2>2, <2>3
<1> QED
  BY <1>2, <1>3, Zenon

\* Succ is the successor in the order of the loops.
LEMMA PairOrder ==
  ASSUME NEW n \in Nat \ {0}, NEW c \in [1..n -> Nat \ {0}]
  PROVE  /\ <<1, 0>> \in Pairs(n, c) /\ \A a \in Pairs(n, c) : ~Before(a, <<1, 0>>)
         /\ \A b \in Pairs(n, c) :
              /\ Last(n, c, b) => \A a \in Pairs(n, c) : Before(a, b) \/ a = b
              /\ ~Last(n, c, b) =>
                   /\ Succ(c, b) \in Pairs(n, c)
                   /\ \A a \in Pairs(n, c) : Before(a, Succ(c, b)) <=> Before(a, b) \/ a = b
<1>1. <<1, 0>> \in Pairs(n, c)
  <2>1. 1 \in 1..n /\ 0 \in 0..(c[1] - 1)
    OBVIOUS
  <2> QED
    BY <2>1, PairsAre
<1>2. \A a \in Pairs(n, c) : ~Before(a, <<1, 0>>)
  BY PairsAre DEF Before
<1>3. ASSUME NEW b \in Pairs(n, c), Last(n, c, b), NEW a \in Pairs(n, c)
      PROVE  Before(a, b) \/ a = b
  <2>1. b[1] = n /\ b[2] = c[b[1]] - 1
    BY <1>3 DEF Last
  <2>2. /\ a[1] \in 1..n /\ a[2] \in 0..(c[a[1]] - 1) /\ a = <<a[1], a[2]>>
        /\ b = <<b[1], b[2]>> /\ c[a[1]] \in Nat
    BY PairsAre
  <2>3. CASE a[1] = b[1]
    BY <2>1, <2>2, <2>3 DEF Before
  <2>4. CASE a[1] # b[1]
    BY <2>1, <2>2, <2>4 DEF Before
  <2> QED
    BY <2>3, <2>4
<1>4. ASSUME NEW b \in Pairs(n, c), ~Last(n, c, b)
      PROVE  /\ Succ(c, b) \in Pairs(n, c)
             /\ \A a \in Pairs(n, c) : Before(a, Succ(c, b)) <=> Before(a, b) \/ a = b
  <2>1. b[1] \in 1..n /\ b[2] \in 0..(c[b[1]] - 1) /\ c[b[1]] \in Nat
    BY PairsAre
  <2>2. ASSUME NEW a \in Pairs(n, c)
        PROVE  /\ a[1] \in Nat /\ a[2] \in Nat /\ a[2] <= c[a[1]] - 1
               /\ c[a[1]] \in Nat /\ (a = b <=> a[1] = b[1] /\ a[2] = b[2])
    <3>1. /\ a[1] \in 1..n /\ a[2] \in 0..(c[a[1]] - 1) /\ c[a[1]] \in Nat \ {0}
          /\ a = <<a[1], a[2]>> /\ b = <<b[1], b[2]>>
      BY PairsAre, Zenon
    <3>2. a[1] \in Nat /\ a[2] \in Nat /\ a[2] <= c[a[1]] - 1
      BY <3>1
    <3> QED
      BY <3>1, <3>2
  <2>3. CASE b[2] = c[b[1]] - 1
    <3>1. b[1] # n /\ Succ(c, b) = <<b[1] + 1, 0>>
      BY <1>4, <2>3 DEF Last, Succ
    <3>2. b[1] + 1 \in 1..n /\ 0 \in 0..(c[b[1] + 1] - 1)
      <4>1. b[1] + 1 \in 1..n
        BY <2>1, <3>1
      <4>2. c[b[1] + 1] \in Nat \ {0}
        BY <4>1
      <4> QED
        BY <4>1, <4>2
    <3>3. Succ(c, b) \in Pairs(n, c)
      <4>1. <<b[1] + 1, 0>> \in Pairs(n, c)
        BY <3>2, PairsAre, Zenon
      <4> QED
        BY <3>1, <4>1
    <3>4. ASSUME NEW a \in Pairs(n, c)
          PROVE  Before(a, Succ(c, b)) <=> Before(a, b) \/ a = b
      <4>1. Before(a, Succ(c, b)) <=> a[1] <= b[1]
        BY <2>1, <2>2, <3>1 DEF Before
      <4>2. a[1] = b[1] => a[2] <= b[2]
        BY <2>1, <2>2, <2>3
      <4> QED
        BY <2>1, <2>2, <4>1, <4>2 DEF Before
    <3> QED
      BY <3>3, <3>4
  <2>4. CASE b[2] # c[b[1]] - 1
    <3>1. Succ(c, b) = <<b[1], b[2] + 1>> /\ b[2] + 1 \in 0..(c[b[1]] - 1)
      BY <2>1, <2>4 DEF Succ
    <3>2. Succ(c, b) \in Pairs(n, c)
      BY <2>1, <3>1, PairsAre
    <3>3. ASSUME NEW a \in Pairs(n, c)
          PROVE  Before(a, Succ(c, b)) <=> Before(a, b) \/ a = b
      BY <2>1, <2>2, <3>1 DEF Before
    <3> QED
      BY <3>2, <3>3
  <2> QED
    BY <2>3, <2>4
<1> QED
  BY <1>1, <1>2, <1>3, <1>4

\* The batches are the pairs of a test and one of its batches.
LEMMA JobsArePairs ==
  ASSUME config \in Configs
  PROVE  /\ [t \in Tests(config) |-> Cnt(t)] \in [1..Len(config.tests) -> Nat \ {0}]
         /\ Jobs = Pairs(Len(config.tests), [t \in Tests(config) |-> Cnt(t)])
<1>1. Tests(config) = 1..Len(config.tests) /\ \A t \in Tests(config) : Cnt(t) \in Nat \ {0}
  BY ConfigTyped, BatchCntBounds DEF Cnt
<1> DEFINE c == [t \in Tests(config) |-> Cnt(t)]
<1>2. c \in [1..Len(config.tests) -> Nat \ {0}]
  BY <1>1
<1>3. \A t \in Tests(config) : c[t] = Cnt(t)
  OBVIOUS
<1> HIDE DEF c
<1>4. Jobs = Pairs(Len(config.tests), c)
  <2>1. \A x : x \in Jobs <=> \E t \in Tests(config) : \E i \in 0..(Cnt(t) - 1) : x = <<t, i>>
    BY DEF Jobs, Batches, Cnt
  <2>2. \A x : x \in Pairs(Len(config.tests), c) <=>
               \E t \in Tests(config) : \E i \in 0..(c[t] - 1) : x = <<t, i>>
    BY <1>1 DEF Pairs
  <2> QED
    BY <1>3, <2>1, <2>2
<1> QED
  BY <1>2, <1>4 DEF c

LEMMA JobsAre ==
  ASSUME config \in Configs
  PROVE  /\ \A t \in Tests(config) : Cnt(t) \in Nat \ {0}
         /\ \A b \in Jobs : /\ b[1] \in Tests(config) /\ b[2] \in 0..(Cnt(b[1]) - 1)
                            /\ b = <<b[1], b[2]>>
         /\ \A t \in Tests(config) : \A i \in 0..(Cnt(t) - 1) : <<t, i>> \in Jobs
<1> DEFINE c == [t \in Tests(config) |-> Cnt(t)]
<1>1. Len(config.tests) \in Nat \ {0} /\ Tests(config) = 1..Len(config.tests)
  BY ConfigTyped
<1>2. c \in [1..Len(config.tests) -> Nat \ {0}] /\ Jobs = Pairs(Len(config.tests), c)
  BY JobsArePairs
<1>3. \A t \in Tests(config) : c[t] = Cnt(t)
  OBVIOUS
<1> HIDE DEF c
<1> QED
  BY <1>1, <1>2, <1>3, PairsAre

\* NextJob is the successor in the order of do_simulate's two loops.
LEMMA JobOrder ==
  ASSUME config \in Configs
  PROVE  /\ FirstJob \in Jobs /\ \A a \in Jobs : ~Before(a, FirstJob)
         /\ \A b \in Jobs : LastJob(b) => \A a \in Jobs : Before(a, b) \/ a = b
         /\ \A b \in Jobs : ~LastJob(b) =>
              /\ NextJob(b) \in Jobs
              /\ \A a \in Jobs : Before(a, NextJob(b)) <=> Before(a, b) \/ a = b
<1> DEFINE c == [t \in Tests(config) |-> Cnt(t)]
<1>1. Len(config.tests) \in Nat \ {0}
  BY ConfigTyped
<1>2. c \in [1..Len(config.tests) -> Nat \ {0}] /\ Jobs = Pairs(Len(config.tests), c)
  BY JobsArePairs
<1>3. \A b \in Jobs : c[b[1]] = Cnt(b[1])
  BY JobsAre
<1> HIDE DEF c
<1>4. \A b \in Jobs : /\ LastJob(b) <=> Last(Len(config.tests), c, b)
                      /\ NextJob(b) = Succ(c, b)
  BY <1>3 DEF LastJob, LastBatch, NextJob, Last, Succ, Cnt
<1> QED
  BY <1>1, <1>2, <1>4, PairOrder DEF FirstJob

\* The programs are the pairs of a test and one of its iterations, and NextProg
\* is the successor in the order of the loops of gcc_compile and iss_sim.
LEMMA ProgOrder ==
  ASSUME config \in Configs
  PROVE  /\ <<1, 0>> \in Progs /\ \A a \in Progs : ~Before(a, <<1, 0>>)
         /\ \A p \in Progs : LastProg(p) => \A a \in Progs : Before(a, p) \/ a = p
         /\ \A p \in Progs : ~LastProg(p) =>
              /\ NextProg(p) \in Progs
              /\ \A a \in Progs : Before(a, NextProg(p)) <=> Before(a, p) \/ a = p
<1> DEFINE c == [t \in Tests(config) |-> Iter(config, t)]
<1>1. /\ Len(config.tests) \in Nat \ {0} /\ Tests(config) = 1..Len(config.tests)
      /\ \A t \in Tests(config) : Iter(config, t) \in Nat \ {0}
  BY ConfigTyped
<1>3. \A t \in Tests(config) : c[t] = Iter(config, t)
  OBVIOUS
<1>6. c \in [1..Len(config.tests) -> Nat \ {0}]
  BY <1>1
<1> HIDE DEF c
<1>2. c \in [1..Len(config.tests) -> Nat \ {0}] /\ Progs = Pairs(Len(config.tests), c)
  <2>1. \A t \in Tests(config) : {<<t, i>> : i \in 0..(Iter(config, t) - 1)}
                               = {<<t, i>> : i \in 0..(c[t] - 1)}
    BY <1>3
  <2>2. Progs = UNION {{<<t, i>> : i \in 0..(Iter(config, t) - 1)} : t \in Tests(config)}
    BY DEF Progs, Programs
  <2>3. Pairs(Len(config.tests), c) = UNION {{<<t, i>> : i \in 0..(c[t] - 1)} : t \in Tests(config)}
    BY <1>1 DEF Pairs
  <2> QED
    BY <1>6, <2>1, <2>2, <2>3
<1>4. \A p \in Progs : c[p[1]] = Iter(config, p[1])
  BY <1>1, <1>2, <1>3, PairsAre
<1>5. \A p \in Progs : /\ LastProg(p) <=> Last(Len(config.tests), c, p)
                       /\ NextProg(p) = Succ(c, p)
  BY <1>4 DEF LastProg, NextProg, Last, Succ
<1> QED
  BY <1>1, <1>2, <1>5, PairOrder

\* The programs the batches are given.
LEMMA GivenAre ==
  ASSUME config \in Configs, NEW b \in Jobs
  PROVE  \A p : p \in Given(config, b) <=>
           \E k \in Nat : /\ p = <<b[1], k>> /\ StartIdx(config.batch_size, b[2]) <= k
                          /\ k < StartIdx(config.batch_size, b[2])
                                 + TestCnt(Iter(config, b[1]), config.batch_size, b[2])
<1>1. /\ StartIdx(config.batch_size, b[2]) \in Nat
      /\ TestCnt(Iter(config, b[1]), config.batch_size, b[2]) \in Nat
  BY ConfigTyped, JobsAre, BatchInside DEF Cnt
<1> QED
  BY <1>1 DEF Given

LEMMA GivenApart ==
  ASSUME config \in Configs, NEW a \in Jobs, NEW b \in Jobs, a # b
  PROVE  Given(config, a) \cap Given(config, b) = {}
<1>1. /\ a[1] \in Tests(config) /\ a[2] \in 0..(Cnt(a[1]) - 1) /\ a = <<a[1], a[2]>>
      /\ b[1] \in Tests(config) /\ b[2] \in 0..(Cnt(b[1]) - 1) /\ b = <<b[1], b[2]>>
      /\ Cnt(a[1]) \in Nat /\ Cnt(b[1]) \in Nat
  BY JobsAre
<1>2. CASE a[1] # b[1]
  BY <1>2, GivenAre
<1>3. CASE a[1] = b[1]
  <2> DEFINE n == Iter(config, a[1])
             s == config.batch_size
  <2>1. n \in Nat \ {0} /\ s \in Nat
    BY <1>1, ConfigTyped
  <2>2. /\ a[2] \in 0..(BatchCnt(n, s) - 1) /\ b[2] \in 0..(BatchCnt(n, s) - 1)
        /\ BatchCnt(n, s) \in Nat
    BY <1>1, <1>3 DEF Cnt
  <2>3. /\ StartIdx(s, a[2]) \in Nat /\ TestCnt(n, s, a[2]) \in Nat
        /\ StartIdx(s, b[2]) \in Nat /\ TestCnt(n, s, b[2]) \in Nat
    BY <2>1, <2>2, BatchInside
  <2>4. a[2] < b[2] \/ b[2] < a[2]
    BY <1>1, <1>3
  <2>5. \/ StartIdx(s, a[2]) + TestCnt(n, s, a[2]) <= StartIdx(s, b[2])
        \/ StartIdx(s, b[2]) + TestCnt(n, s, b[2]) <= StartIdx(s, a[2])
    BY <2>1, <2>2, <2>4, BatchesApart
  <2>6. SUFFICES ASSUME NEW p \in Given(config, a), p \in Given(config, b) PROVE FALSE
    OBVIOUS
  <2>7. PICK k \in Nat : /\ p = <<a[1], k>> /\ StartIdx(s, a[2]) <= k
                         /\ k < StartIdx(s, a[2]) + TestCnt(n, s, a[2])
    BY <2>6, GivenAre
  <2>8. PICK l \in Nat : /\ p = <<b[1], l>> /\ StartIdx(s, b[2]) <= l
                         /\ l < StartIdx(s, b[2]) + TestCnt(n, s, b[2])
    BY <1>3, <2>6, GivenAre
  <2>9. k = l
    BY <2>7, <2>8
  <2> HIDE DEF n, s
  <2> QED
    BY <2>3, <2>5, <2>7, <2>8, <2>9
<1> QED
  BY <1>2, <1>3

LEMMA GivenCover ==
  ASSUME config \in Configs
  PROVE  UNION {Given(config, b) : b \in Jobs} = Progs
<1>1. ASSUME NEW b \in Jobs, NEW p \in Given(config, b)
      PROVE  p \in Progs
  <2>1. PICK k \in Nat : /\ p = <<b[1], k>>
                         /\ k < StartIdx(config.batch_size, b[2])
                                + TestCnt(Iter(config, b[1]), config.batch_size, b[2])
    BY <1>1, GivenAre
  <2>2. /\ b[1] \in Tests(config) /\ Iter(config, b[1]) \in Nat \ {0}
        /\ StartIdx(config.batch_size, b[2]) \in Nat
        /\ TestCnt(Iter(config, b[1]), config.batch_size, b[2]) \in Nat
        /\ StartIdx(config.batch_size, b[2])
             + TestCnt(Iter(config, b[1]), config.batch_size, b[2]) <= Iter(config, b[1])
    BY ConfigTyped, JobsAre, BatchInside DEF Cnt
  <2>3. k \in 0..(Iter(config, b[1]) - 1)
    BY <2>1, <2>2
  <2> QED
    BY <2>1, <2>2, <2>3 DEF Progs, Programs
<1>2. ASSUME NEW p \in Progs
      PROVE  \E b \in Jobs : p \in Given(config, b)
  <2>1. PICK t \in Tests(config) : \E k \in 0..(Iter(config, t) - 1) : p = <<t, k>>
    BY <1>2 DEF Progs, Programs
  <2>2. PICK k \in 0..(Iter(config, t) - 1) : p = <<t, k>>
    BY <2>1
  <2>3. Iter(config, t) \in Nat \ {0} /\ config.batch_size \in Nat
    BY ConfigTyped
  <2>4. PICK i \in 0..(BatchCnt(Iter(config, t), config.batch_size) - 1) :
          /\ StartIdx(config.batch_size, i) <= k
          /\ k < StartIdx(config.batch_size, i) + TestCnt(Iter(config, t), config.batch_size, i)
    BY <2>3, BatchesCover
  <2>5. <<t, i>> \in Jobs
    BY <2>4, JobsAre DEF Cnt
  <2>6. <<t, i>>[1] = t /\ <<t, i>>[2] = i /\ k \in Nat
    BY <2>3
  <2>7. p \in Given(config, <<t, i>>)
    BY <2>2, <2>4, <2>5, <2>6, GivenAre
  <2> QED
    BY <2>5, <2>7
<1> QED
  BY <1>1, <1>2

-----------------------------------------------------------------------------
(* The inductive invariant: the batches before the one run.py is at were    *)
(* started, in the sequential run they have also ended, those behind it     *)
(* were not, and in the parallel run the ones waited for have ended.        *)

Typed ==
  /\ config \in Configs
  /\ phase \in {"gen", "run", "wait", "compile", "sim", "cmp", "exited"}
  /\ phase \in {"gen", "run", "wait"} => at \in Jobs
  /\ job \in [Jobs -> {"none", "running", "ok", "failed", "killed", "timeout", "stopped"}]
  /\ used \in [Jobs -> Nat \cup {NoSeed}]

Ended(b) == job[b] \notin {"none", "running"}

InGen ==
  phase = "gen" =>
    \A b \in Jobs : IF Before(b, at) THEN job[b] # "none" /\ (~config.lsf => Ended(b))
                    ELSE job[b] = "none"

InRun ==
  phase = "run" =>
    /\ ~config.lsf /\ job[at] # "none"
    /\ \A b \in Jobs : b # at => IF Before(b, at) THEN Ended(b) ELSE job[b] = "none"

InWait ==
  phase = "wait" =>
    config.lsf /\ \A b \in Jobs : job[b] # "none" /\ (Before(b, at) => Ended(b))

AllEnded == Generated => \A b \in Jobs : Ended(b)

SeedsCount ==
  config.start_seed => \A b \in Jobs : job[b] # "none" => used[b] = b[2] * Cnt(b[1])

IInv == Typed /\ InGen /\ InRun /\ InWait /\ AllEnded /\ NoOrphans /\ SeedsCount

LEMMA InvInit == Init => IInv
<1> SUFFICES ASSUME Init PROVE IInv
  OBVIOUS
<1>1. /\ config \in Configs /\ phase = "gen" /\ at = FirstJob
      /\ job = [b \in Jobs |-> "none"] /\ used = [b \in Jobs |-> NoSeed]
  BY DEF Init
<1>2. FirstJob \in Jobs /\ \A a \in Jobs : ~Before(a, FirstJob)
  BY <1>1, JobOrder
<1> QED
  BY <1>1, <1>2 DEF IInv, Typed, InGen, InRun, InWait, AllEnded, NoOrphans, SeedsCount, Generated

\* run.py starts the process of a batch.
LEMMA StartJobStep ==
  ASSUME IInv, StartJob
  PROVE  IInv'
<1>1. /\ config \in Configs /\ config' = config /\ phase = "gen" /\ at \in Jobs
      /\ job \in [Jobs -> {"none", "running", "ok", "failed", "killed", "timeout", "stopped"}]
      /\ used \in [Jobs -> Nat \cup {NoSeed}]
      /\ job' = [job EXCEPT ![at] = "running"]
      /\ \A b \in Jobs : IF Before(b, at) THEN job[b] # "none" /\ (~config.lsf => Ended(b))
                         ELSE job[b] = "none"
  BY DEF IInv, Typed, InGen, StartJob
<1>2. PICK seed \in Seeds(config, at) : used' = [used EXCEPT ![at] = seed]
  BY DEF StartJob
<1>3. \/ ~config.lsf /\ phase' = "run" /\ at' = at
      \/ config.lsf /\ LastJob(at) /\ phase' = "wait" /\ at' = FirstJob
      \/ config.lsf /\ ~LastJob(at) /\ phase' = "gen" /\ at' = NextJob(at)
  BY <1>1, ConfigTyped DEF StartJob
<1>4. Jobs' = Jobs /\ \A b \in Jobs : Before(b, at)' = Before(b, at')
  BY <1>1 DEF Jobs, Before
<1>5. /\ FirstJob \in Jobs /\ \A a \in Jobs : ~Before(a, FirstJob)
      /\ LastJob(at) => \A a \in Jobs : Before(a, at) \/ a = at
      /\ ~LastJob(at) => /\ NextJob(at) \in Jobs
                         /\ \A a \in Jobs : Before(a, NextJob(at)) <=> Before(a, at) \/ a = at
  BY <1>1, JobOrder
<1>6. seed \in Nat /\ (config.start_seed => seed = at[2] * Cnt(at[1]))
  <2>1. /\ at[2] \in Nat /\ Cnt(at[1]) \in Nat
    BY <1>1, JobsAre
  <2>2. at[2] * Cnt(at[1]) \in Nat
    BY <2>1
  <2> QED
    BY <2>2, BoundAssumption DEF Seeds, Cnt
<1>7. \A b \in Jobs : job'[b] = IF b = at THEN "running" ELSE job[b]
  BY <1>1
<1>8. \A b \in Jobs : Ended(b)' <=> job'[b] \notin {"none", "running"}
  BY DEF Ended
<1>9. Typed'
  BY <1>1, <1>2, <1>3, <1>4, <1>5, <1>6 DEF Typed
<1>10. InGen'
  BY <1>1, <1>3, <1>4, <1>5, <1>7 DEF InGen
<1>11. InRun'
  <2>1. SUFFICES ASSUME phase' = "run"
                 PROVE  /\ ~config'.lsf /\ job'[at'] # "none"
                        /\ \A b \in Jobs : b # at' =>
                             IF Before(b, at') THEN Ended(b)' ELSE job'[b] = "none"
    BY <1>4 DEF InRun, Before
  <2>2. ~config.lsf /\ at' = at
    BY <1>3, <2>1
  <2>3. ASSUME NEW b \in Jobs, b # at
        PROVE  IF Before(b, at) THEN Ended(b)' ELSE job'[b] = "none"
    BY <1>1, <1>7, <1>8, <2>2, <2>3 DEF Ended
  <2> QED
    BY <1>1, <1>7, <2>2, <2>3
<1>12. InWait'
  BY <1>1, <1>3, <1>4, <1>5, <1>7 DEF InWait
<1>13. AllEnded' /\ NoOrphans'
  BY <1>3 DEF AllEnded, NoOrphans, Generated
<1>14. SeedsCount'
  <2>1. \A b \in Jobs : used'[b] = IF b = at THEN seed ELSE used[b]
    BY <1>1, <1>2
  <2>2. \A b \in Jobs : Cnt(b[1])' = Cnt(b[1])
    BY <1>1 DEF Cnt
  <2> QED
    BY <1>1, <1>4, <1>6, <1>7, <2>1, <2>2 DEF SeedsCount, IInv
<1> QED
  BY <1>9, <1>10, <1>11, <1>12, <1>13, <1>14 DEF IInv

\* The generator of one batch ends, or run.py has it killed; nothing else is
\* touched.
LEMMA JobEndsStep ==
  ASSUME IInv, NEW b \in Jobs, job[b] = "running",
         NEW s \in {"ok", "failed", "killed", "timeout", "stopped"},
         job' = [job EXCEPT ![b] = s],
         UNCHANGED <<config, phase, at, used>>
  PROVE  IInv'
<1>1. Jobs' = Jobs /\ Jobs = DOMAIN job
  BY DEF Jobs, IInv, Typed
<1>2. \A a \in Jobs : /\ job'[a] = IF a = b THEN s ELSE job[a]
                      /\ Ended(a)' <=> job'[a] \notin {"none", "running"}
                      /\ Before(a, at)' = Before(a, at)
                      /\ Cnt(a[1])' = Cnt(a[1])
  BY <1>1 DEF Ended, Before, Cnt
<1>3. Typed'
  BY <1>1 DEF IInv, Typed
<1>4. InGen' /\ InRun' /\ InWait'
  <2>1. phase \in {"run"} => at \in Jobs
    BY DEF IInv, Typed
  <2> QED
    BY <1>1, <1>2, <2>1 DEF IInv, InGen, InRun, InWait, Ended
<1>5. AllEnded' /\ NoOrphans' /\ SeedsCount'
  BY <1>1, <1>2 DEF IInv, AllEnded, NoOrphans, SeedsCount, Generated, Ended
<1> QED
  BY <1>3, <1>4, <1>5 DEF IInv

\* run.py moves on to the next batch, or out of the generation step, and no
\* process changes; or it ends.
LEMMA MoveStep ==
  ASSUME IInv, UNCHANGED <<config, job, used>>,
         \/ /\ phase = "run" /\ Ended(at) /\ ~LastJob(at) /\ phase' = "gen" /\ at' = NextJob(at)
         \/ /\ phase = "run" /\ Ended(at) /\ LastJob(at) /\ phase' = "compile"
         \/ /\ phase = "run" /\ Ended(at) /\ phase' = "exited"
         \/ /\ phase = "wait" /\ Ended(at) /\ ~LastJob(at) /\ phase' = "wait" /\ at' = NextJob(at)
         \/ /\ phase = "wait" /\ Ended(at) /\ LastJob(at) /\ phase' = "compile"
         \/ /\ phase = "wait" /\ phase' = "exited"
         \/ /\ phase = "gen" /\ phase' = "exited"
         \/ /\ Generated /\ phase' \in {"compile", "sim", "cmp", "exited"}
         \/ /\ phase' = phase /\ at' = at
  PROVE  IInv'
<1>1. Jobs' = Jobs /\ config \in Configs /\ (phase \in {"gen", "run", "wait"} => at \in Jobs)
  BY DEF Jobs, IInv, Typed
<1>2. \A a \in Jobs : /\ job'[a] = job[a] /\ (Ended(a)' <=> Ended(a))
                      /\ Before(a, at)' = Before(a, at') /\ Cnt(a[1])' = Cnt(a[1])
  BY DEF Ended, Before, Cnt
<1>3. phase \in {"gen", "run", "wait"} =>
        /\ LastJob(at) => \A a \in Jobs : Before(a, at) \/ a = at
        /\ ~LastJob(at) => /\ NextJob(at) \in Jobs
                           /\ \A a \in Jobs : Before(a, NextJob(at)) <=> Before(a, at) \/ a = at
  BY <1>1, JobOrder
<1>4. Typed'
  BY <1>1, <1>3 DEF IInv, Typed, Generated
<1>5. SeedsCount'
  BY <1>1, <1>2 DEF IInv, SeedsCount
<1>6. InGen'
  <2>1. CASE phase = "run" /\ Ended(at) /\ ~LastJob(at) /\ phase' = "gen" /\ at' = NextJob(at)
    BY <1>1, <1>2, <1>3, <2>1 DEF IInv, InGen, InRun, Ended
  <2>2. CASE phase' = phase /\ at' = at
    BY <1>1, <1>2, <2>2 DEF IInv, InGen
  <2>3. CASE phase' # "gen"
    BY <2>3 DEF InGen
  <2> QED
    BY <2>1, <2>2, <2>3 DEF Generated
<1>7. InRun'
  <2>1. CASE phase' = phase /\ at' = at
    BY <1>1, <1>2, <2>1 DEF IInv, InRun, Typed
  <2>2. CASE phase' # "run"
    BY <2>2 DEF InRun
  <2> QED
    BY <2>1, <2>2 DEF Generated
<1>8. InWait'
  <2>1. CASE phase = "wait" /\ Ended(at) /\ ~LastJob(at) /\ phase' = "wait" /\ at' = NextJob(at)
    BY <1>1, <1>2, <1>3, <2>1 DEF IInv, InWait, Ended
  <2>2. CASE phase' = phase /\ at' = at
    BY <1>1, <1>2, <2>2 DEF IInv, InWait
  <2>3. CASE phase' # "wait"
    BY <2>3 DEF InWait
  <2> QED
    BY <2>1, <2>2, <2>3 DEF Generated
<1>9. AllEnded'
  <2>1. CASE phase \in {"run", "wait"} /\ Ended(at) /\ LastJob(at) /\ phase' = "compile"
    BY <1>1, <1>2, <1>3, <2>1 DEF IInv, InRun, InWait, AllEnded, Ended
  <2>2. CASE Generated \/ phase' = phase
    BY <1>1, <1>2, <2>2 DEF IInv, AllEnded, Generated
  <2>3. CASE ~Generated'
    BY <2>3 DEF AllEnded
  <2> QED
    BY <2>1, <2>2, <2>3 DEF Generated
<1>10. NoOrphans'
  <2>1. SUFFICES ASSUME phase' = "exited", ~config.lsf, NEW b \in Jobs
                 PROVE  job[b] # "running"
    BY <1>1, <1>2 DEF NoOrphans
  <2>2. CASE phase = "run" /\ Ended(at)
    BY <2>1, <2>2 DEF IInv, InRun, Ended
  <2>3. CASE phase = "wait"
    BY <2>1, <2>3 DEF IInv, InWait
  <2>4. CASE phase = "gen"
    BY <2>1, <2>4 DEF IInv, InGen, Ended
  <2>5. CASE Generated
    BY <2>1, <2>5 DEF IInv, AllEnded, Ended
  <2>6. CASE phase = "exited"
    BY <2>1, <2>6 DEF IInv, NoOrphans
  <2> QED
    BY <2>1, <2>2, <2>3, <2>4, <2>5, <2>6
<1> QED
  BY <1>4, <1>5, <1>6, <1>7, <1>8, <1>9, <1>10 DEF IInv

\* run.py has the process killed that it waits for, and ends or moves on.
LEMMA KillStep ==
  ASSUME IInv, UNCHANGED <<config, used>>, phase \in {"run", "wait"}, job[at] = "running",
         NEW s \in {"timeout", "stopped"}, job' = [job EXCEPT ![at] = s],
         \/ phase' = "exited"
         \/ phase = "wait" /\ ~LastJob(at) /\ phase' = "wait" /\ at' = NextJob(at)
         \/ phase = "wait" /\ LastJob(at) /\ phase' = "compile"
  PROVE  IInv'
<1>1. Jobs' = Jobs /\ config \in Configs /\ at \in Jobs /\ Jobs = DOMAIN job
  BY DEF Jobs, IInv, Typed
<1>2. \A a \in Jobs : /\ job'[a] = IF a = at THEN s ELSE job[a]
                      /\ Ended(a)' <=> job'[a] \notin {"none", "running"}
                      /\ Before(a, at)' = Before(a, at') /\ Cnt(a[1])' = Cnt(a[1])
  BY <1>1 DEF Ended, Before, Cnt
<1>3. /\ LastJob(at) => \A a \in Jobs : Before(a, at) \/ a = at
      /\ ~LastJob(at) => /\ NextJob(at) \in Jobs
                         /\ \A a \in Jobs : Before(a, NextJob(at)) <=> Before(a, at) \/ a = at
  BY <1>1, JobOrder
<1>4. Typed'
  BY <1>1, <1>3 DEF IInv, Typed
<1>5. InGen' /\ InRun'
  BY DEF InGen, InRun
<1>6. InWait'
  BY <1>1, <1>2, <1>3 DEF IInv, InWait, Ended
<1>7. AllEnded'
  BY <1>1, <1>2, <1>3 DEF IInv, InWait, AllEnded, Generated, Ended
<1>8. NoOrphans'
  <2>1. SUFFICES ASSUME phase' = "exited", ~config.lsf, NEW b \in Jobs
                 PROVE  job'[b] # "running"
    BY <1>1 DEF NoOrphans
  <2>2. phase = "run"
    BY <2>1 DEF IInv, InWait
  <2>3. b # at => job[b] # "running"
    BY <2>1, <2>2 DEF IInv, InRun, Ended
  <2> QED
    BY <1>1, <1>2, <2>3
<1>9. SeedsCount'
  BY <1>1, <1>2 DEF IInv, SeedsCount
<1> QED
  BY <1>4, <1>5, <1>6, <1>7, <1>8, <1>9 DEF IInv

LEMMA InvStep == IInv /\ [Next]_vars => IInv'
<1> SUFFICES ASSUME IInv, [Next]_vars PROVE IInv'
  OBVIOUS
<1>1. CASE StartJob
  BY <1>1, StartJobStep
<1>2. CASE JobReturns
  <2>1. /\ phase = "run" /\ Ended(at) /\ UNCHANGED <<config, job, used>>
    BY <1>2 DEF JobReturns, Ended
  <2>2. \/ phase' = "exited"
        \/ LastJob(at) /\ phase' = "compile"
        \/ ~LastJob(at) /\ phase' = "gen" /\ at' = NextJob(at)
    BY <1>2 DEF JobReturns, Exit
  <2> QED
    BY <2>1, <2>2, MoveStep
<1>3. CASE JobTimeout
  BY <1>3, KillStep DEF JobTimeout, Exit
<1>4. CASE WaitJob
  <2>1. /\ phase = "wait" /\ Ended(at) /\ UNCHANGED <<config, job, used>>
        /\ \/ LastJob(at) /\ phase' = "compile"
           \/ ~LastJob(at) /\ phase' = "wait" /\ at' = NextJob(at)
    BY <1>4 DEF WaitJob, NextWait, Ended
  <2> QED
    BY <2>1, MoveStep
<1>5. CASE WaitTimeout
  <2>1. /\ phase = "wait" /\ job[at] = "running" /\ UNCHANGED <<config, used>>
        /\ job' = [job EXCEPT ![at] = "timeout"]
        /\ \/ phase' = "exited"
           \/ LastJob(at) /\ phase' = "compile"
           \/ ~LastJob(at) /\ phase' = "wait" /\ at' = NextJob(at)
    BY <1>5 DEF WaitTimeout, NextWait, Exit
  <2> QED
    BY <2>1, KillStep
<1>6. CASE Generator
  <2>1. PICK b \in Jobs : \/ \E p \in Progs : \/ OpenProgram(b, p) \/ CloseProgram(b, p)
                                              \/ TaskRaises(b, p) \/ WorkerDies(b, p)
                          \/ PoolReturns(b) \/ ScriptEnds(b) \/ Killed(b)
    BY <1>6 DEF Generator
  <2>2. CASE \E p \in Progs : \/ OpenProgram(b, p) \/ CloseProgram(b, p)
                              \/ TaskRaises(b, p) \/ WorkerDies(b, p)
    <3>1. UNCHANGED <<config, phase, at, job, used>>
      BY <2>2 DEF OpenProgram, CloseProgram, TaskRaises, WorkerDies
    <3> QED
      BY <3>1, MoveStep
  <2>3. CASE PoolReturns(b)
    <3>1. UNCHANGED <<config, phase, at, used>> /\ job[b] = "running"
      BY <2>3 DEF PoolReturns, Runs
    <3>2. job' = job \/ job' = [job EXCEPT ![b] = "failed"]
      BY <2>3 DEF PoolReturns
    <3> QED
      BY <3>1, <3>2, MoveStep, JobEndsStep
  <2>4. CASE ScriptEnds(b)
    BY <2>4, JobEndsStep DEF ScriptEnds
  <2>5. CASE Killed(b)
    BY <2>5, JobEndsStep DEF Killed
  <2> QED
    BY <2>1, <2>2, <2>3, <2>4, <2>5
<1>7. CASE CompileProgram \/ SimProgram \/ Compare
  <2>1. Generated /\ UNCHANGED <<config, job, used>>
        /\ phase' \in {"compile", "sim", "cmp", "exited"}
    BY <1>7 DEF CompileProgram, SimProgram, Compare, Generated, Exit
  <2> QED
    BY <2>1, MoveStep
<1>8. CASE Interrupt
  <2>1. phase # "exited" /\ phase' = "exited" /\ UNCHANGED <<config, used>>
    BY <1>8 DEF Interrupt, Exit
  <2>2. CASE phase = "run" /\ job[at] = "running"
    <3>1. job' = [job EXCEPT ![at] = "stopped"]
      BY <1>8, <2>2 DEF Interrupt
    <3> QED
      BY <2>1, <2>2, <3>1, KillStep
  <2>3. CASE ~(phase = "run" /\ job[at] = "running")
    <3>1. job' = job
      BY <1>8, <2>3 DEF Interrupt
    <3>2. phase = "run" => Ended(at)
      BY <2>3 DEF IInv, InRun, Ended
    <3>3. phase \in {"gen", "run", "wait"} \/ Generated
      BY <2>1 DEF IInv, Typed, Generated
    <3> QED
      BY <2>1, <3>1, <3>2, <3>3, MoveStep
  <2> QED
    BY <2>2, <2>3
<1>9. CASE UNCHANGED vars
  BY <1>9, MoveStep DEF vars
<1> QED
  BY <1>1, <1>2, <1>3, <1>4, <1>5, <1>6, <1>7, <1>8, <1>9 DEF Next, RunPy

LEMMA Invariance == Spec => []IInv
<1>1. IInv /\ [Next]_vars => IInv'
  BY InvStep
<1> QED
  BY InvInit, <1>1, PTL DEF Spec

-----------------------------------------------------------------------------
(* The theorems.                                                            *)

\* The batches that run.py starts give every program of the test list to one
\* generator process, and to no other, whatever the iterations and the batch
\* size are.
THEOREM BatchesAreExact == Spec => []BatchesExact
<1>1. IInv => BatchesExact
  <2> SUFFICES ASSUME IInv PROVE BatchesExact
    OBVIOUS
  <2>1. config \in Configs /\ Started \subseteq Jobs
    BY DEF IInv, Typed, Started
  <2>2. \A a, b \in Started : a # b => Given(config, a) \cap Given(config, b) = {}
    BY <2>1, GivenApart
  <2>3. Generated => Started = Jobs
    BY DEF IInv, AllEnded, Ended, Started
  <2> QED
    BY <2>1, <2>2, <2>3, GivenCover DEF BatchesExact
<1> QED
  BY <1>1, Invariance, PTL

\* When gcc reads the programs every generator process has ended, also if they
\* ran in parallel.
THEOREM DiskIsQuiet == Spec => []QuietDisk
<1>1. IInv => QuietDisk
  BY DEF IInv, AllEnded, Ended, QuietDisk
<1> QED
  BY <1>1, Invariance, PTL

\* A run that starts its generators one after the other leaves none behind.
THEOREM NothingIsLeft == Spec => []NoOrphans
<1>1. IInv => NoOrphans
  BY DEF IInv
<1> QED
  BY <1>1, Invariance, PTL

\* With --start_seed the batches of a test have different seeds.
THEOREM SeedsDiffer == Spec => []SeedsApart
<1>1. IInv => SeedsApart
  <2> SUFFICES ASSUME IInv, config.start_seed, NEW a \in Started, NEW b \in Started,
                      a # b, a[1] = b[1]
               PROVE  used[a] # used[b]
    BY DEF SeedsApart
  <2>1. config \in Configs /\ a \in Jobs /\ b \in Jobs /\ job[a] # "none" /\ job[b] # "none"
    BY DEF IInv, Typed, Started
  <2>2. /\ Cnt(a[1]) \in Nat \ {0} /\ a[2] \in 0..(Cnt(a[1]) - 1) /\ b[2] \in 0..(Cnt(b[1]) - 1)
        /\ a = <<a[1], a[2]>> /\ b = <<b[1], b[2]>>
    BY <2>1, JobsAre
  <2>3. used[a] = a[2] * Cnt(a[1]) /\ used[b] = b[2] * Cnt(a[1])
    BY <2>1 DEF IInv, SeedsCount
  <2>4. a[2] # b[2] /\ a[2] \in Nat /\ b[2] \in Nat
    BY <2>2
  <2>5. \A i, j, c \in Nat : i # j /\ c # 0 => i * c # j * c
    OBVIOUS
  <2> QED
    BY <2>2, <2>3, <2>4, <2>5
<1> QED
  BY <1>1, Invariance, PTL
-----------------------------------------------------------------------------
(* The second inductive invariant, about what is on disk: relative to the   *)
(* first, it says which seeds, generators and files belong together.        *)

LogNames  == {SimLog(p) : p \in Progs} \cup {CmpLog(p) : p \in Progs}
Name(b)   == config.tests[b[1]].gen_test
FirstName == config.tests[1].gen_test

TypeInv ==
  /\ TypeOK
  /\ Generated => at \in Progs
  /\ log \in [1..config.iss -> [LogNames -> File]]

\* sim_cmd has no test's name only before the first batch, then the first's.
ScriptIsFirsts ==
  /\ script = "<test_name>" => at = FirstJob /\ \A b \in Jobs : job[b] = "none"
  /\ script # "<test_name>" => script = FirstName

\* What a process made with its batch's seed has that seed, and seed.yaml is
\* what was used when the last batch has been started.
SeedsOf ==
  /\ \A b \in Jobs : \A p \in Given(config, b) :
       asm[p].seed \notin {NoSeed, OwnSeed} => job[b] # "none" /\ asm[p].seed = used[b]
  /\ phase = "wait" \/ Generated => yaml = used

\* A process given the script of its own test has one pool to run.
Made ==
  \A b \in Jobs :
    /\ job[b] = "none" => round[b] = 1
    /\ Name(b) = FirstName /\ job[b] \in {"running", "ok"} =>
         \/ /\ round[b] = 1 /\ job[b] = "running"
            /\ \A p \in Given(config, b) : task[p] = "done" => asm[p].by = Name(b)
         \/ /\ round[b] = 2
            /\ \A p \in Given(config, b) : asm[p].by = Name(b)

\* A process that ended badly ends run.py, unless they ran in parallel.
Outcomes ==
  /\ \A b \in Jobs : job[b] \in {"failed", "timeout", "stopped"} =>
       \/ config.lsf /\ job[b] # "stopped"
       \/ phase = "run" /\ b = at /\ job[b] = "failed"
       \/ exit \in {"fail", "130"}
  /\ exit = "success" => \A b \in Jobs : Ended(b)

Compiled ==
  /\ phase = "compile" => \A p \in Progs : Before(p, at) => elf[p] = asm[p]
  /\ phase \in {"sim", "cmp"} \/ exit = "success" => \A p \in Progs : elf[p] = asm[p]

Simulated ==
  /\ phase \in {"gen", "run", "wait", "compile"} => sim = 1
  /\ phase = "sim" =>
       \A p \in Progs : \A k \in 1..config.iss :
         k < sim \/ (k = sim /\ Before(p, at)) => log[k][SimLog(p)] = elf[p]
  /\ phase = "cmp" \/ exit = "success" =>
       \A p \in Progs : \A k \in 1..config.iss : log[k][SimLog(p)] = elf[p]

DiskInv == TypeInv /\ ScriptIsFirsts /\ SeedsOf /\ Made /\ Outcomes /\ Compiled /\ Simulated
LEMMA NamesTyped ==
  ASSUME config \in Configs
  PROVE  /\ FirstName \in GenTests /\ \A b \in Jobs : Name(b) \in GenTests
         /\ config.iss \in 1..2
<1>1. config.tests \in Seq([iterations : Nat \ {0}, gen_test : GenTests]) /\ config.iss \in 1..2
  BY ConfigAssumption
<1>2. ASSUME NEW t \in Tests(config)
      PROVE  config.tests[t].gen_test \in GenTests
  <2> DEFINE R == [iterations : Nat \ {0}, gen_test : GenTests]
  <2>1. \A r \in R : r.gen_test \in GenTests
    OBVIOUS
  <2>2. config.tests \in Seq(R) /\ t \in 1..Len(config.tests)
    BY <1>1, <1>2, ConfigTyped
  <2> HIDE DEF R
  <2>3. config.tests[t] \in R
    BY <2>2, ElementOf
  <2> QED
    BY <2>1, <2>3
<1>3. 1 \in Tests(config) /\ \A b \in Jobs : b[1] \in Tests(config)
  BY ConfigTyped, JobsAre
<1> QED
  BY <1>1, <1>2, <1>3 DEF Name, FirstName

\* A script has at most two pools, and one if it is the test's own.
LEMMA RoundsAre ==
  ASSUME NEW name \in {"<test_name>"} \cup GenTests, NEW gen_test \in GenTests
  PROVE  /\ Rounds(name, gen_test) \in Seq(GenTests) /\ Len(Rounds(name, gen_test)) <= 2
         /\ name = gen_test => Rounds(name, gen_test) = <<gen_test>>
<1> DEFINE base == IF gen_test = "riscv_instr_base_test" THEN <<"riscv_instr_base_test">> ELSE <<>>
           rand == IF name = "riscv_rand_instr_test" THEN <<"riscv_rand_instr_test">> ELSE <<>>
<1>1. /\ base \in Seq(GenTests) /\ Len(base) <= 1
      /\ rand \in Seq(GenTests) /\ Len(rand) <= 1
  <2>1. \A g \in GenTests : <<g>> \in Seq(GenTests) /\ Len(<<g>>) = 1
    OBVIOUS
  <2>2. <<>> \in Seq(GenTests) /\ Len(<<>>) = 0
    OBVIOUS
  <2>3. "riscv_instr_base_test" \in GenTests /\ "riscv_rand_instr_test" \in GenTests
    BY DEF GenTests
  <2> QED
    BY <2>1, <2>2, <2>3
<1>2. Rounds(name, gen_test) = base \o rand
  BY DEF Rounds
<1>3. name = gen_test => \/ base = <<gen_test>> /\ rand = <<>>
                         \/ base = <<>> /\ rand = <<gen_test>>
  BY DEF GenTests
<1> HIDE DEF base, rand
<1>4. name = gen_test => base \o rand = <<gen_test>>
  <2>1. <<gen_test>> \in Seq(GenTests) /\ <<>> \in Seq(GenTests)
    OBVIOUS
  <2>2. \A seq \in Seq(GenTests) : seq \o <<>> = seq /\ <<>> \o seq = seq
    OBVIOUS
  <2> QED
    BY <1>3, <2>1, <2>2
<1>5. base \o rand \in Seq(GenTests) /\ Len(base \o rand) = Len(base) + Len(rand)
  BY <1>1
<1>6. Len(base) \in Nat /\ Len(rand) \in Nat
  BY <1>1
<1> QED
  BY <1>1, <1>2, <1>4, <1>5, <1>6

\* What is made of the command line does not change with it.
LEMMA SameConfig ==
  ASSUME config' = config
  PROVE  /\ Jobs' = Jobs /\ Progs' = Progs /\ LogNames' = LogNames /\ FirstName' = FirstName
         /\ \A b : Name(b)' = Name(b)
  BY DEF Jobs, Progs, LogNames, SimLog, CmpLog, FirstName, Name

LEMMA NextKeepsConfig == [Next]_vars => config' = config
  BY DEF Next, RunPy, Generator, StartJob, JobReturns, JobTimeout, WaitJob, WaitTimeout,
         OpenProgram, CloseProgram, TaskRaises, WorkerDies, PoolReturns, ScriptEnds, Killed,
         CompileProgram, SimProgram, Compare, Interrupt, vars

LEMMA TypeInit == Init => TypeInv
<1> SUFFICES ASSUME Init PROVE TypeInv
  OBVIOUS
<1>1. /\ config \in Configs /\ phase = "gen" /\ exit = "none" /\ at = FirstJob /\ sim = 1 /\ script = "<test_name>"
      /\ job = [b \in Jobs |-> "none"] /\ round = [b \in Jobs |-> 1]
      /\ task = [p \in Progs |-> "none"] /\ compared = {} /\ faults = 0
      /\ used = [b \in Jobs |-> NoSeed] /\ yaml = [b \in Jobs |-> NoSeed]
  BY DEF Init
<1>2. PICK earlier \in {{}, Progs} :
        /\ asm = [p \in Progs |-> IF p \in earlier THEN Old ELSE Absent]
        /\ elf = asm
        /\ log = [k \in 1..config.iss |->
                    [f \in {SimLog(p) : p \in Progs} \cup {CmpLog(p) : p \in Progs} |->
                       IF f[2] = "test_i" THEN asm[f[1]] ELSE Absent]]
  BY DEF Init
<1>3. Old \in File /\ Absent \in File /\ FirstJob \in Jobs /\ config.iss \in 1..2 /\ MaxFaults \in Nat
  BY <1>1, JobOrder, NamesTyped, BoundAssumption DEF Old, Absent, File
<1>4. asm \in [Progs -> File]
  BY <1>2, <1>3
<1>5. log \in [1..config.iss -> [LogNames -> File]]
  <2>1. ASSUME NEW f \in LogNames
        PROVE  (IF f[2] = "test_i" THEN asm[f[1]] ELSE Absent) \in File
    <3>1. PICK p \in Progs : f = <<p, "test_i">> \/ f = <<p, "test.i">>
      BY <2>1 DEF LogNames, SimLog, CmpLog
    <3>2. f[1] = p
      <4>1. <<p, "test_i">>[1] = p /\ <<p, "test.i">>[1] = p
        OBVIOUS
      <4> QED
        BY <3>1, <4>1
    <3> QED
      BY <1>3, <1>4, <3>2
  <2>2. log = [k \in 1..config.iss |->
                 [f \in LogNames |-> IF f[2] = "test_i" THEN asm[f[1]] ELSE Absent]]
    BY <1>2 DEF LogNames
  <2> QED
    BY <2>1, <2>2
<1>6. \A k \in 1..config.iss : \A f \in DOMAIN log[k] : log[k][f] \in File
  BY <1>5
<1>7. /\ exit \in {"none", "success", "fail", "130"} /\ (exit = "none" <=> phase # "exited")
      /\ at \in Jobs \cup Progs /\ sim \in 1..config.iss /\ script \in {"<test_name>"} \cup GenTests
      /\ compared \subseteq Progs
  BY <1>1, <1>3
<1>9. faults \in 0..MaxFaults
  BY <1>1, <1>3
<1>8. /\ job \in [Jobs -> {"none", "running", "ok", "failed", "killed", "timeout", "stopped"}]
      /\ round \in [Jobs -> 1..3]
      /\ task \in [Progs -> {"none", "todo", "writing", "done", "raised", "lost"}]
      /\ used \in [Jobs -> Nat \cup {NoSeed}] /\ yaml \in [Jobs -> Nat \cup {NoSeed}]
  BY <1>1
<1> QED
  BY <1>1, <1>2, <1>4, <1>5, <1>6, <1>7, <1>8, <1>9 DEF TypeInv, TypeOK, Generated

LEMMA TypeStep ==
  ASSUME IInv, IInv', TypeInv, [Next]_vars
  PROVE  TypeInv'
<1>1. /\ config' = config /\ config \in Configs
      /\ Jobs' = Jobs /\ Progs' = Progs /\ LogNames' = LogNames
  BY NextKeepsConfig, SameConfig DEF IInv, Typed
<1>2. /\ FirstJob \in Jobs /\ <<1, 0>> \in Progs
      /\ \A b \in Jobs : ~LastJob(b) => NextJob(b) \in Jobs
      /\ \A p \in Progs : ~LastProg(p) => NextProg(p) \in Progs
      /\ \A b \in Jobs : Given(config, b) \subseteq Progs
      /\ config.iss \in 1..2 /\ MaxFaults \in Nat
  BY <1>1, JobOrder, ProgOrder, GivenCover, NamesTyped, BoundAssumption
<1>3. /\ phase \in {"gen", "run", "wait"} => at \in Jobs
      /\ phase' \in {"gen", "run", "wait", "compile", "sim", "cmp", "exited"}
      /\ job' \in [Jobs -> {"none", "running", "ok", "failed", "killed", "timeout", "stopped"}]
      /\ used' \in [Jobs -> Nat \cup {NoSeed}]
  BY <1>1 DEF IInv, Typed
<1>4. CASE StartJob
  <2>1. script' \in {"<test_name>"} \cup GenTests
    <3>1. script' = IF script = "<test_name>" THEN Name(at) ELSE script
      BY <1>4 DEF StartJob, Name
    <3> QED
      BY <1>1, <1>3, <1>4, <3>1, NamesTyped DEF StartJob, TypeInv, TypeOK
  <2>2. task' \in [Progs -> {"none", "todo", "writing", "done", "raised", "lost"}]
    <3>1. DOMAIN task \cup Given(config, at) = Progs
      BY <1>2, <1>3, <1>4 DEF StartJob, TypeInv, TypeOK
    <3>2. task' = [p \in Progs |-> IF p \in Given(config, at) THEN "todo" ELSE task[p]]
      BY <1>4, <3>1 DEF StartJob
    <3> QED
      BY <3>2 DEF TypeInv, TypeOK
  <2>3. /\ at' \in Jobs /\ phase' \in {"gen", "run", "wait"} /\ phase # "exited"
        /\ yaml' \in [Jobs -> Nat \cup {NoSeed}]
    BY <1>2, <1>3, <1>4 DEF StartJob, TypeInv, TypeOK
  <2> QED
    BY <1>1, <1>3, <1>4, <2>1, <2>2, <2>3 DEF StartJob, TypeInv, TypeOK, Generated
<1>5. CASE JobReturns
  <2>1. /\ at' \in Jobs \cup Progs /\ (phase' = "compile" => at' \in Progs)
        /\ phase' \in {"gen", "compile", "exited"}
        /\ exit' \in {"none", "fail"} /\ (exit' = "none" <=> phase' # "exited")
        /\ yaml' \in [Jobs -> Nat \cup {NoSeed}]
    BY <1>2, <1>3, <1>5 DEF JobReturns, Exit, TypeInv, TypeOK, IInv, Typed
  <2> QED
    BY <1>1, <1>3, <1>5, <2>1 DEF JobReturns, TypeInv, TypeOK, Generated
<1>6. CASE JobTimeout
  BY <1>1, <1>3, <1>6 DEF JobTimeout, Exit, TypeInv, TypeOK, Generated
<1>7. CASE WaitJob \/ WaitTimeout
  <2>1. /\ at' \in Jobs \cup Progs /\ (phase' = "compile" => at' \in Progs)
        /\ phase' \in {"wait", "compile", "exited"}
        /\ exit' \in {"none", "fail"} /\ (exit' = "none" <=> phase' # "exited")
    BY <1>2, <1>3, <1>7 DEF WaitJob, WaitTimeout, NextWait, Exit, TypeInv, TypeOK
  <2> QED
    BY <1>1, <1>3, <1>7, <2>1 DEF WaitJob, WaitTimeout, TypeInv, TypeOK, Generated
<1>8. CASE Generator
  <2>1. PICK b \in Jobs : \/ \E p \in Progs : \/ OpenProgram(b, p) \/ CloseProgram(b, p)
                                              \/ TaskRaises(b, p) \/ WorkerDies(b, p)
                          \/ PoolReturns(b) \/ ScriptEnds(b) \/ Killed(b)
    BY <1>8 DEF Generator
  <2>2. /\ UNCHANGED <<config, phase, exit, at, sim, script, used, yaml, elf, log, compared>>
        /\ faults' \in 0..MaxFaults
    BY <1>2, <2>1 DEF OpenProgram, CloseProgram, TaskRaises, WorkerDies, PoolReturns, ScriptEnds,
                      Killed, Fault, TypeInv, TypeOK
  <2>3. task' \in [Progs -> {"none", "todo", "writing", "done", "raised", "lost"}]
    BY <2>1 DEF OpenProgram, CloseProgram, TaskRaises, WorkerDies, PoolReturns, ScriptEnds,
                Killed, TypeInv, TypeOK
  <2>4. round' \in [Jobs -> 1..3] /\ (Runs(b) => RoundsOf(b)[round[b]] \in GenTests)
    <3>1. /\ script \in {"<test_name>"} \cup GenTests /\ config.tests[b[1]].gen_test \in GenTests
          /\ round \in [Jobs -> 1..3]
      BY <1>1, NamesTyped DEF TypeInv, TypeOK, Name
    <3>2. RoundsOf(b) \in Seq(GenTests) /\ Len(RoundsOf(b)) <= 2
      BY <3>1, RoundsAre DEF RoundsOf
    <3>3. Runs(b) => round[b] \in 1..Len(RoundsOf(b)) /\ round[b] + 1 \in 1..3
      BY <3>1, <3>2 DEF Runs
    <3>4. Runs(b) => RoundsOf(b)[round[b]] \in GenTests
      BY <3>2, <3>3, ElementOf
    <3>5. round' = round \/ (Runs(b) /\ round' = [round EXCEPT ![b] = @ + 1])
      BY <2>1 DEF OpenProgram, CloseProgram, TaskRaises, WorkerDies, PoolReturns, ScriptEnds, Killed
    <3> QED
      BY <3>1, <3>3, <3>4, <3>5
  <2>5. asm' \in [Progs -> File]
    <3>1. CASE \E p \in Progs : OpenProgram(b, p)
      BY <3>1 DEF OpenProgram, TypeInv, TypeOK, File, Part
    <3>2. ASSUME NEW p \in Progs, CloseProgram(b, p)
          PROVE  asm' \in [Progs -> File]
      <4> DEFINE seed == IF p[2] = StartIdx(config.batch_size, b[2]) THEN used[b] ELSE OwnSeed
      <4>1. seed \in Nat \cup {NoSeed, OwnSeed}
        BY DEF TypeInv, TypeOK
      <4>2. RoundsOf(b)[round[b]] \in GenTests
        BY <2>4, <3>2 DEF CloseProgram
      <4>3. asm' = [asm EXCEPT ![p] = [by |-> RoundsOf(b)[round[b]], seed |-> seed]]
        BY <3>2 DEF CloseProgram
      <4> HIDE DEF seed
      <4>4. [by |-> RoundsOf(b)[round[b]], seed |-> seed] \in File
        BY <4>1, <4>2 DEF File
      <4> QED
        BY <4>3, <4>4 DEF TypeInv, TypeOK
    <3>3. CASE asm' = asm
      BY <3>3 DEF TypeInv, TypeOK
    <3> QED
      BY <2>1, <3>1, <3>2, <3>3 DEF TaskRaises, WorkerDies, PoolReturns, ScriptEnds, Killed
  <2> QED
    BY <1>1, <1>3, <2>2, <2>3, <2>4, <2>5 DEF TypeInv, TypeOK, Generated
<1>9. CASE CompileProgram
  <2>1. /\ at' \in Progs /\ phase' \in {"compile", "sim", "exited"}
        /\ exit' \in {"none", "fail"} /\ (exit' = "none" <=> phase' # "exited")
    BY <1>2, <1>9 DEF CompileProgram, Exit, TypeInv, TypeOK, Generated
  <2>2. elf' \in [Progs -> File] /\ faults' \in 0..MaxFaults
    <3>1. elf \in [Progs -> File] /\ asm \in [Progs -> File] /\ faults \in 0..MaxFaults /\ at \in Progs
      BY <1>9 DEF CompileProgram, TypeInv, TypeOK, Generated
    <3>2. elf' = elf \/ elf' = [elf EXCEPT ![at] = asm[at]]
      BY <1>9 DEF CompileProgram
    <3>3. faults' \in 0..MaxFaults
      BY <1>2, <1>9, <3>1 DEF CompileProgram, Fault
    <3> QED
      BY <3>1, <3>2, <3>3
  <2> QED
    BY <1>1, <1>3, <1>9, <2>1, <2>2 DEF CompileProgram, TypeInv, TypeOK, Generated
<1>10. CASE SimProgram
  <2>1. /\ at' \in Progs /\ phase' \in {"sim", "cmp", "exited"}
        /\ exit' \in {"none", "fail", "130"} /\ (exit' = "none" <=> phase' # "exited")
    BY <1>2, <1>10 DEF SimProgram, Exit, TypeInv, TypeOK, Generated
  <2>4. sim' \in 1..config.iss
    <3>1. sim \in 1..config.iss /\ (sim < config.iss => sim + 1 \in 1..config.iss)
      BY <1>2 DEF TypeInv, TypeOK
    <3>2. sim' = sim \/ (sim < config.iss /\ sim' = sim + 1)
      BY <1>10 DEF SimProgram
    <3> QED
      BY <3>1, <3>2
  <2>5. faults' \in 0..MaxFaults
    BY <1>2, <1>10 DEF SimProgram, Fault, TypeInv, TypeOK
  <2>2. log' \in [1..config.iss -> [LogNames -> File]]
    <3>1. SimLog(at) \in LogNames /\ elf[at] \in File
      BY <1>10 DEF SimProgram, LogNames, TypeInv, TypeOK, Generated
    <3>2. log' = [log EXCEPT ![sim][SimLog(at)] = elf[at]]
      BY <1>10 DEF SimProgram
    <3> QED
      BY <3>1, <3>2 DEF TypeInv
  <2>3. \A k \in 1..config.iss : \A f \in DOMAIN log'[k] : log'[k][f] \in File
    BY <2>2
  <2> QED
    BY <1>1, <1>3, <1>10, <2>1, <2>2, <2>3, <2>4, <2>5 DEF SimProgram, TypeInv, TypeOK, Generated
<1>11. CASE Compare
  <2>1. /\ phase' = "exited" /\ exit' \in {"success", "fail"} /\ at' = at
        /\ compared' \subseteq Progs
    BY <1>11 DEF Compare, Exit, TypeInv, TypeOK
  <2> QED
    BY <1>1, <1>3, <1>11, <2>1 DEF Compare, TypeInv, TypeOK, Generated
<1>12. CASE Interrupt
  <2>1. phase' = "exited" /\ exit' = "130" /\ at' = at /\ faults' \in 0..MaxFaults
    BY <1>2, <1>12 DEF Interrupt, Exit, Fault, TypeInv, TypeOK
  <2> QED
    BY <1>1, <1>3, <1>12, <2>1 DEF Interrupt, TypeInv, TypeOK, Generated
<1>13. CASE UNCHANGED vars
  BY <1>1, <1>13 DEF vars, TypeInv, TypeOK, Generated
<1> QED
  BY <1>4, <1>5, <1>6, <1>7, <1>8, <1>9, <1>10, <1>11, <1>12, <1>13 DEF Next, RunPy

LEMMA DiskInit == Init => ScriptIsFirsts /\ SeedsOf /\ Made /\ Outcomes /\ Compiled /\ Simulated
<1> SUFFICES ASSUME Init
             PROVE  ScriptIsFirsts /\ SeedsOf /\ Made /\ Outcomes /\ Compiled /\ Simulated
  OBVIOUS
<1>1. /\ config \in Configs /\ phase = "gen" /\ exit = "none" /\ at = FirstJob /\ sim = 1
      /\ script = "<test_name>" /\ job = [b \in Jobs |-> "none"] /\ round = [b \in Jobs |-> 1]
  BY DEF Init
<1>2. PICK earlier \in {{}, Progs} : asm = [p \in Progs |-> IF p \in earlier THEN Old ELSE Absent]
  BY DEF Init
<1>3. \A p \in Progs : asm[p].seed = NoSeed
  BY <1>2 DEF Old, Absent
<1>4. \A b \in Jobs : Given(config, b) \subseteq Progs
  BY <1>1, GivenCover
<1> QED
  BY <1>1, <1>3, <1>4
     DEF ScriptIsFirsts, SeedsOf, Made, Outcomes, Compiled, Simulated, Generated

\* What a step of a batch's generator process may change.
GenStep(b) == \/ \E p \in Progs : \/ OpenProgram(b, p) \/ CloseProgram(b, p)
                                  \/ TaskRaises(b, p) \/ WorkerDies(b, p)
              \/ PoolReturns(b) \/ ScriptEnds(b) \/ Killed(b)

LEMMA GenStepKeeps ==
  ASSUME NEW b \in Jobs, GenStep(b)
  PROVE  /\ UNCHANGED <<config, phase, exit, at, sim, script, used, yaml, elf, log, compared>>
         /\ job[b] = "running"
         /\ job' = job \/ \E s \in {"ok", "failed", "killed"} : job' = [job EXCEPT ![b] = s]
<1>1. CASE \E p \in Progs : \/ OpenProgram(b, p) \/ CloseProgram(b, p)
                            \/ TaskRaises(b, p) \/ WorkerDies(b, p)
  BY <1>1 DEF OpenProgram, CloseProgram, TaskRaises, WorkerDies, Runs
<1>2. CASE PoolReturns(b)
  BY <1>2 DEF PoolReturns, Runs
<1>3. CASE ScriptEnds(b) \/ Killed(b)
  BY <1>3 DEF ScriptEnds, Killed
<1> QED
  BY <1>1, <1>2, <1>3 DEF GenStep

\* gcc and the simulators have the disk for themselves.
LEMMA GenStepEarly ==
  ASSUME IInv, NEW b \in Jobs, GenStep(b)
  PROVE  ~Generated
BY GenStepKeeps DEF IInv, AllEnded, Ended

LEMMA ScriptStep ==
  ASSUME IInv, ScriptIsFirsts, [Next]_vars
  PROVE  ScriptIsFirsts'
<1>1. /\ config' = config /\ config \in Configs /\ Jobs' = Jobs /\ FirstName' = FirstName
      /\ phase \in {"gen", "run", "wait"} => at \in Jobs
  BY NextKeepsConfig, SameConfig DEF IInv, Typed
<1>2. FirstJob \in Jobs /\ FirstName \in GenTests /\ FirstJob' = FirstJob
  BY <1>1, JobOrder, NamesTyped DEF FirstJob
<1>3. CASE StartJob
  <2>1. script' = IF script = "<test_name>" THEN Name(at) ELSE script
    BY <1>3 DEF StartJob, Name
  <2>2. script = "<test_name>" => Name(at) = FirstName
    BY DEF ScriptIsFirsts, Name, FirstName, FirstJob
  <2> QED
    BY <1>1, <1>2, <2>1, <2>2 DEF ScriptIsFirsts, GenTests
<1>4. CASE ~StartJob
  <2>1. script' = script
    BY <1>4 DEF Next, RunPy, Generator, JobReturns, JobTimeout, WaitJob, WaitTimeout, OpenProgram,
                CloseProgram, TaskRaises, WorkerDies, PoolReturns, ScriptEnds, Killed,
                CompileProgram, SimProgram, Compare, Interrupt, vars
  <2>2. ASSUME script = "<test_name>"
        PROVE  at' = FirstJob /\ job' = job
    <3>1. at = FirstJob /\ \A b \in Jobs : job[b] = "none"
      BY <2>2 DEF ScriptIsFirsts
    <3>2. ~Generated
      BY <1>2, <3>1 DEF IInv, AllEnded, Ended
    <3>3. ~JobReturns /\ ~JobTimeout /\ ~WaitJob /\ ~WaitTimeout
      BY <1>1, <3>1 DEF JobReturns, JobTimeout, WaitJob, WaitTimeout
    <3>4. ~Generator
      <4>1. \A b \in Jobs : ~GenStep(b)
        BY <3>1, GenStepKeeps
      <4> QED
        BY <4>1 DEF Generator, GenStep
    <3>5. ~CompileProgram /\ ~SimProgram /\ ~Compare
      BY <3>2 DEF CompileProgram, SimProgram, Compare, Generated
    <3>6. Interrupt \/ UNCHANGED vars
      BY <1>4, <3>3, <3>4, <3>5 DEF Next, RunPy
    <3> QED
      BY <1>1, <3>1, <3>6 DEF Interrupt, Exit, vars
  <2> QED
    BY <1>1, <1>2, <2>1, <2>2 DEF ScriptIsFirsts
<1> QED
  BY <1>3, <1>4

\* The batch that run.py is about to start has no process yet.
LEMMA StartsNew ==
  ASSUME IInv, phase = "gen"
  PROVE  at \in Jobs /\ job[at] = "none"
<1>1. config \in Configs /\ at \in Jobs
  BY DEF IInv, Typed
<1>2. at[1] \in Nat /\ at[2] \in Nat
  BY <1>1, ConfigTyped, JobsAre
<1>3. ~Before(at, at)
  BY <1>2 DEF Before
<1> QED
  BY <1>1, <1>3 DEF IInv, InGen

LEMMA SeedsStep ==
  ASSUME IInv, TypeInv, SeedsOf, [Next]_vars
  PROVE  SeedsOf'
<1>1. /\ config' = config /\ config \in Configs /\ Jobs' = Jobs /\ Progs' = Progs
      /\ \A b \in Jobs : Given(config, b)' = Given(config, b)
      /\ \A b \in Jobs : Given(config, b) \subseteq Progs
      /\ asm \in [Progs -> File] /\ used \in [Jobs -> Nat \cup {NoSeed}]
      /\ job \in [Jobs -> {"none", "running", "ok", "failed", "killed", "timeout", "stopped"}]
      /\ phase \in {"gen", "run", "wait"} => at \in Jobs
  BY NextKeepsConfig, SameConfig, GivenCover DEF IInv, Typed, TypeInv, TypeOK, Given
<1>2. CASE StartJob
  <2>1. /\ phase = "gen" /\ at \in Jobs /\ job[at] = "none"
        /\ asm' = asm /\ job' = [job EXCEPT ![at] = "running"]
    BY <1>1, <1>2, StartsNew DEF StartJob
  <2>2. PICK seed : used' = [used EXCEPT ![at] = seed]
    BY <1>2 DEF StartJob
  <2>3. \A b \in Jobs : b # at => used'[b] = used[b] /\ job'[b] = job[b]
    BY <1>1, <2>1, <2>2
  <2>4. \A b \in Jobs : \A p \in Given(config, b) :
          asm[p].seed \notin {NoSeed, OwnSeed} => b # at
    BY <2>1 DEF SeedsOf
  <2>5. phase' = "wait" \/ Generated' => yaml' = used'
    BY <1>2 DEF StartJob, Generated
  <2> QED
    BY <1>1, <2>1, <2>3, <2>4, <2>5 DEF SeedsOf
<1>3. CASE Generator
  <2>1. PICK b \in Jobs : GenStep(b)
    BY <1>3 DEF Generator, GenStep
  <2>2. /\ UNCHANGED <<phase, used, yaml>> /\ job[b] = "running"
        /\ \A a \in Jobs : job[a] # "none" => job'[a] # "none"
    BY <1>1, <2>1, GenStepKeeps
  <2>3. ASSUME NEW a \in Jobs, NEW p \in Given(config, a), asm'[p].seed \notin {NoSeed, OwnSeed}
        PROVE  job[a] # "none" /\ asm'[p].seed = used[a]
    <3>1. CASE asm'[p] = asm[p]
      BY <2>3, <3>1 DEF SeedsOf
    <3>2. CASE \E q \in Progs : OpenProgram(b, q)
      <4>1. asm'[p] = asm[p] \/ asm'[p] = Part
        BY <1>1, <3>2 DEF OpenProgram
      <4>2. asm'[p] # Part
        BY <2>3 DEF Part
      <4> QED
        BY <3>1, <4>1, <4>2
    <3>3. ASSUME NEW q \in Progs, CloseProgram(b, q)
          PROVE  job[a] # "none" /\ asm'[p].seed = used[a]
      <4> DEFINE seed == IF q[2] = StartIdx(config.batch_size, b[2]) THEN used[b] ELSE OwnSeed
      <4>1. /\ q \in Given(config, b)
            /\ asm' = [asm EXCEPT ![q] = [by |-> RoundsOf(b)[round[b]], seed |-> seed]]
        BY <3>3 DEF CloseProgram
      <4>2. seed \in {used[b], OwnSeed}
        OBVIOUS
      <4> HIDE DEF seed
      <4>3. CASE p # q
        BY <1>1, <3>1, <4>1, <4>3
      <4>4. CASE p = q
        <5>1. a = b
          BY <1>1, <2>3, <4>1, <4>4, GivenApart
        <5>2. asm'[p].seed = seed
          BY <1>1, <4>1, <4>4
        <5> QED
          BY <2>2, <2>3, <4>2, <5>1, <5>2
      <4> QED
        BY <4>3, <4>4
    <3>4. CASE asm' = asm
      BY <3>1, <3>4
    <3> QED
      BY <2>1, <3>2, <3>3, <3>4 DEF GenStep, TaskRaises, WorkerDies, PoolReturns, ScriptEnds, Killed
  <2> QED
    BY <1>1, <2>2, <2>3 DEF SeedsOf, Generated
<1>4. CASE ~StartJob /\ ~Generator
  <2>1. asm' = asm /\ used' = used
    BY <1>4 DEF Next, RunPy, JobReturns, JobTimeout, WaitJob, WaitTimeout,
                CompileProgram, SimProgram, Compare, Interrupt, vars
  <2>3. phase' = "wait" \/ Generated' => yaml' = used'
    <3>1. CASE JobReturns
      BY <2>1, <3>1 DEF JobReturns, Exit, Generated
    <3>2. CASE JobTimeout \/ Interrupt
      BY <3>2 DEF JobTimeout, Interrupt, Exit, Generated
    <3>3. CASE WaitJob \/ WaitTimeout
      BY <2>1, <3>3 DEF WaitJob, WaitTimeout, SeedsOf
    <3>4. CASE CompileProgram \/ SimProgram \/ Compare
      BY <2>1, <3>4 DEF CompileProgram, SimProgram, Compare, SeedsOf, Generated
    <3>5. CASE UNCHANGED vars
      BY <3>5 DEF vars, SeedsOf, Generated
    <3> QED
      BY <1>4, <3>1, <3>2, <3>3, <3>4, <3>5 DEF Next, RunPy
  <2>2. \A a \in Jobs : job[a] # "none" => job'[a] # "none"
    BY <1>1, <1>4 DEF Next, RunPy, JobReturns, JobTimeout, WaitJob, WaitTimeout,
                      CompileProgram, SimProgram, Compare, Interrupt, vars
  <2> QED
    BY <1>1, <2>1, <2>2, <2>3 DEF SeedsOf
<1> QED
  BY <1>2, <1>3, <1>4

\* A generator process leaves the other ones and their programs alone.
LEMMA GenStepElsewhere ==
  ASSUME IInv, TypeInv, NEW b \in Jobs, GenStep(b), NEW a \in Jobs, a # b
  PROVE  /\ job'[a] = job[a] /\ round'[a] = round[a]
         /\ \A p \in Given(config, a) : task'[p] = task[p] /\ asm'[p] = asm[p]
<1>1. /\ config \in Configs /\ Given(config, a) \subseteq Progs
      /\ asm \in [Progs -> File] /\ round \in [Jobs -> 1..3]
      /\ task \in [Progs -> {"none", "todo", "writing", "done", "raised", "lost"}]
      /\ job \in [Jobs -> {"none", "running", "ok", "failed", "killed", "timeout", "stopped"}]
  BY GivenCover DEF IInv, Typed, TypeInv, TypeOK
<1>2. \A p \in Given(config, a) : p \notin Given(config, b)
  BY <1>1, GivenApart
<1>3. CASE \E q \in Progs : OpenProgram(b, q) \/ CloseProgram(b, q)
  BY <1>1, <1>2, <1>3 DEF OpenProgram, CloseProgram
<1>4. CASE \E q \in Progs : TaskRaises(b, q) \/ WorkerDies(b, q)
  BY <1>1, <1>2, <1>4 DEF TaskRaises, WorkerDies
<1>5. CASE PoolReturns(b)
  BY <1>1, <1>2, <1>5 DEF PoolReturns
<1>6. CASE ScriptEnds(b) \/ Killed(b)
  BY <1>1, <1>6 DEF ScriptEnds, Killed
<1> QED
  BY <1>3, <1>4, <1>5, <1>6 DEF GenStep

\* A generator's step in a batch whose script is its own test's.
LEMMA OwnScriptStep ==
  ASSUME IInv, TypeInv, ScriptIsFirsts, Made, NEW b \in Jobs, GenStep(b),
         Name(b) = FirstName, job'[b] \in {"running", "ok"}
  PROVE  \/ /\ round'[b] = 1 /\ job'[b] = "running"
            /\ \A p \in Given(config, b) : task'[p] = "done" => asm'[p].by = Name(b)
         \/ /\ round'[b] = 2
            /\ \A p \in Given(config, b) : asm'[p].by = Name(b)
<1>1. /\ config \in Configs /\ Given(config, b) \subseteq Progs /\ Name(b) \in GenTests
      /\ asm \in [Progs -> File] /\ round \in [Jobs -> 1..3]
      /\ task \in [Progs -> {"none", "todo", "writing", "done", "raised", "lost"}]
      /\ job \in [Jobs -> {"none", "running", "ok", "failed", "killed", "timeout", "stopped"}]
  BY GivenCover, NamesTyped DEF IInv, Typed, TypeInv, TypeOK
<1>2. job[b] = "running"
  BY GenStepKeeps
<1>3. \/ /\ round[b] = 1
         /\ \A p \in Given(config, b) : task[p] = "done" => asm[p].by = Name(b)
      \/ /\ round[b] = 2
         /\ \A p \in Given(config, b) : asm[p].by = Name(b)
  BY <1>2 DEF Made
<1>4. RoundsOf(b) = <<Name(b)>>
  <2>1. script = Name(b)
    BY <1>2 DEF ScriptIsFirsts
  <2> QED
    BY <1>1, <2>1, RoundsAre DEF RoundsOf, Name
<1>5. Len(RoundsOf(b)) = 1 /\ RoundsOf(b)[1] = Name(b)
  BY <1>4
<1>6. Runs(b) => round[b] = 1 /\ \A p \in Given(config, b) : task[p] = "done" => asm[p].by = Name(b)
  BY <1>1, <1>3, <1>5 DEF Runs
<1>7. ASSUME NEW q \in Progs, OpenProgram(b, q)
      PROVE  /\ round'[b] = 1 /\ job'[b] = "running"
             /\ \A p \in Given(config, b) : task'[p] = "done" => asm'[p].by = Name(b)
  BY <1>1, <1>2, <1>6, <1>7 DEF OpenProgram
<1>8. ASSUME NEW q \in Progs, CloseProgram(b, q)
      PROVE  /\ round'[b] = 1 /\ job'[b] = "running"
             /\ \A p \in Given(config, b) : task'[p] = "done" => asm'[p].by = Name(b)
  <2>1. round[b] = 1 /\ round' = round /\ job' = job /\ task' = [task EXCEPT ![q] = "done"]
    BY <1>6, <1>8 DEF CloseProgram
  <2>2. asm'[q].by = Name(b)
    BY <1>1, <1>5, <2>1, <1>8 DEF CloseProgram
  <2>3. \A p \in Progs : p # q => asm'[p] = asm[p] /\ task'[p] = task[p]
    BY <1>1, <1>8 DEF CloseProgram
  <2>4. Runs(b)
    BY <1>8 DEF CloseProgram
  <2> QED
    BY <1>1, <1>2, <1>6, <2>1, <2>2, <2>3, <2>4
<1>9. ASSUME NEW q \in Progs, TaskRaises(b, q) \/ WorkerDies(b, q)
      PROVE  /\ round'[b] = 1 /\ job'[b] = "running"
             /\ \A p \in Given(config, b) : task'[p] = "done" => asm'[p].by = Name(b)
  BY <1>1, <1>2, <1>6, <1>9 DEF TaskRaises, WorkerDies
<1>10. CASE PoolReturns(b)
  <2>1. \A p \in Given(config, b) : task[p] = "done"
    BY <1>1, <1>2, <1>10 DEF PoolReturns
  <2>2. round'[b] = 2 /\ asm' = asm /\ Runs(b)
    BY <1>1, <1>6, <1>10, <2>1 DEF PoolReturns
  <2> QED
    BY <1>6, <2>1, <2>2
<1>11. CASE ScriptEnds(b)
  BY <1>3, <1>5, <1>11 DEF ScriptEnds
<1>12. CASE Killed(b)
  BY <1>1, <1>12 DEF Killed
<1> QED
  BY <1>7, <1>8, <1>9, <1>10, <1>11, <1>12 DEF GenStep

LEMMA MadeStep ==
  ASSUME IInv, TypeInv, ScriptIsFirsts, Made, [Next]_vars
  PROVE  Made'
<1>1. /\ config' = config /\ config \in Configs /\ Jobs' = Jobs /\ FirstName' = FirstName
      /\ \A b \in Jobs : Name(b)' = Name(b) /\ Given(config, b)' = Given(config, b)
      /\ \A b \in Jobs : Given(config, b) \subseteq Progs
      /\ task \in [Progs -> {"none", "todo", "writing", "done", "raised", "lost"}]
      /\ job \in [Jobs -> {"none", "running", "ok", "failed", "killed", "timeout", "stopped"}]
      /\ round \in [Jobs -> 1..3]
      /\ phase \in {"gen", "run", "wait"} => at \in Jobs
  BY NextKeepsConfig, SameConfig, GivenCover DEF IInv, Typed, TypeInv, TypeOK, Given
<1>2. SUFFICES ASSUME NEW a \in Jobs
               PROVE  /\ job'[a] = "none" => round'[a] = 1
                      /\ Name(a) = FirstName /\ job'[a] \in {"running", "ok"} =>
                           \/ /\ round'[a] = 1 /\ job'[a] = "running"
                              /\ \A p \in Given(config, a) :
                                   task'[p] = "done" => asm'[p].by = Name(a)
                           \/ /\ round'[a] = 2
                              /\ \A p \in Given(config, a) : asm'[p].by = Name(a)
  BY <1>1 DEF Made
<1>3. CASE StartJob
  <2>1. /\ at \in Jobs /\ job[at] = "none" /\ round' = round /\ asm' = asm
        /\ job' = [job EXCEPT ![at] = "running"]
        /\ \A p \in Progs : task'[p] = IF p \in Given(config, at) THEN "todo" ELSE task[p]
    BY <1>1, <1>3, StartsNew DEF StartJob
  <2>2. CASE a = at
    BY <1>1, <2>1, <2>2 DEF Made
  <2>3. CASE a # at
    <3>1. job'[a] = job[a]
      BY <1>1, <2>1, <2>3
    <3>2. \A p \in Given(config, a) : task'[p] = task[p]
      BY <1>1, <2>1, <2>3, GivenApart
    <3> QED
      BY <2>1, <3>1, <3>2 DEF Made
  <2> QED
    BY <2>2, <2>3
<1>4. CASE Generator
  <2>1. PICK b \in Jobs : GenStep(b)
    BY <1>4 DEF Generator, GenStep
  <2>2. CASE a = b
    <3>1. job'[a] # "none"
      BY <1>1, <2>1, <2>2, GenStepKeeps
    <3> QED
      BY <2>1, <2>2, <3>1, OwnScriptStep
  <2>3. CASE a # b
    BY <2>1, <2>3, GenStepElsewhere DEF Made
  <2> QED
    BY <2>2, <2>3
<1>5. CASE ~StartJob /\ ~Generator
  <2>1. round' = round /\ task' = task /\ asm' = asm
    BY <1>5 DEF Next, RunPy, JobReturns, JobTimeout, WaitJob, WaitTimeout,
                CompileProgram, SimProgram, Compare, Interrupt, vars
  <2>2. job'[a] = job[a] \/ job'[a] \in {"timeout", "stopped"}
    BY <1>1, <1>5 DEF Next, RunPy, JobReturns, JobTimeout, WaitJob, WaitTimeout,
                      CompileProgram, SimProgram, Compare, Interrupt, vars
  <2> QED
    BY <2>1, <2>2 DEF Made
<1> QED
  BY <1>3, <1>4, <1>5

LEMMA OutcomesStep ==
  ASSUME IInv, TypeInv, Outcomes, [Next]_vars
  PROVE  Outcomes'
<1>1. /\ config' = config /\ config \in Configs /\ Jobs' = Jobs /\ config.lsf \in BOOLEAN
      /\ job \in [Jobs -> {"none", "running", "ok", "failed", "killed", "timeout", "stopped"}]
      /\ phase \in {"gen", "run", "wait"} => at \in Jobs
      /\ exit = "none" <=> phase # "exited"
      /\ \A a \in Jobs : Ended(a)' <=> job'[a] \notin {"none", "running"}
  BY NextKeepsConfig, SameConfig, ConfigTyped DEF IInv, Typed, TypeInv, TypeOK, Ended
<1> DEFINE Bad(a) == job[a] \in {"failed", "timeout", "stopped"}
           Why(a) == \/ config.lsf /\ job[a] # "stopped"
                     \/ phase = "run" /\ a = at /\ job[a] = "failed"
                     \/ exit \in {"fail", "130"}
<1>2. CASE exit = "success"
  <2>1. phase = "exited" /\ (\A b \in Jobs : Ended(b))
    BY <1>1, <1>2 DEF Outcomes
  <2>2. \A b \in Jobs : ~GenStep(b)
    BY <2>1, GenStepKeeps DEF Ended
  <2>3. UNCHANGED <<phase, exit, at, job>>
    BY <2>1, <2>2 DEF Next, RunPy, Generator, GenStep, StartJob, JobReturns, JobTimeout, WaitJob,
                      WaitTimeout, CompileProgram, SimProgram, Compare, Interrupt, vars
  <2> QED
    BY <1>1, <1>2, <2>3 DEF Outcomes, Ended
<1>3. CASE exit # "success" /\ Generator
  <2>1. PICK b \in Jobs : GenStep(b)
    BY <1>3 DEF Generator, GenStep
  <2>2. /\ UNCHANGED <<phase, exit, at>> /\ job[b] = "running"
        /\ job' = job \/ \E s \in {"ok", "failed", "killed"} : job' = [job EXCEPT ![b] = s]
    BY <2>1, GenStepKeeps
  <2>3. ASSUME NEW a \in Jobs, job'[a] \in {"failed", "timeout", "stopped"}
        PROVE  \/ config.lsf /\ job'[a] # "stopped"
               \/ phase = "run" /\ a = at /\ job'[a] = "failed"
               \/ exit \in {"fail", "130"}
    <3>1. CASE job'[a] = job[a]
      BY <2>3, <3>1 DEF Outcomes
    <3>2. CASE job'[a] # job[a]
      <4>1. a = b /\ job'[a] = "failed" /\ job[a] = "running"
        BY <1>1, <2>2, <2>3, <3>2
      <4>2. CASE config.lsf
        BY <4>1, <4>2
      <4>3. CASE ~config.lsf
        <5>1. phase # "exited"
          BY <4>1, <4>3 DEF IInv, NoOrphans
        <5>2. ~Generated
          BY <2>1, GenStepEarly
        <5>3. phase \in {"gen", "run", "wait"}
          BY <5>1, <5>2 DEF IInv, Typed, Generated
        <5>4. phase # "wait"
          BY <4>3 DEF IInv, InWait
        <5>5. phase # "gen"
          BY <4>1, <4>3 DEF IInv, InGen, Ended
        <5>6. phase = "run"
          BY <5>3, <5>4, <5>5
        <5>7. a = at
          BY <4>1, <5>6 DEF IInv, InRun, Ended
        <5> QED
          BY <4>1, <5>6, <5>7
      <4> QED
        BY <4>2, <4>3
    <3> QED
      BY <3>1, <3>2
  <2> QED
    BY <1>1, <1>3, <2>2, <2>3 DEF Outcomes
<1>4. CASE StartJob
  <2>1. /\ phase = "gen" /\ exit' = exit /\ at \in Jobs /\ job[at] = "none"
        /\ job' = [job EXCEPT ![at] = "running"]
    BY <1>1, <1>4, StartsNew DEF StartJob
  <2> QED
    BY <1>1, <2>1 DEF Outcomes
<1>5. CASE JobReturns
  <2>1. /\ phase = "run" /\ job' = job /\ at \in Jobs
        /\ exit' = "fail" \/ (exit' = exit /\ job[at] # "failed")
    BY <1>1, <1>5 DEF JobReturns, Exit
  <2> QED
    BY <1>1, <2>1 DEF Outcomes
<1>6. CASE JobTimeout \/ Interrupt
  BY <1>1, <1>6 DEF JobTimeout, Interrupt, Exit, Outcomes
<1>7. CASE WaitJob \/ WaitTimeout
  <2>1. /\ phase = "wait" /\ config.lsf /\ at \in Jobs /\ exit' \in {exit, "fail"}
        /\ job' = job \/ job' = [job EXCEPT ![at] = "timeout"]
    BY <1>1, <1>7 DEF WaitJob, WaitTimeout, NextWait, Exit, IInv, InWait
  <2> QED
    BY <1>1, <2>1 DEF Outcomes
<1>8. CASE CompileProgram \/ SimProgram \/ Compare
  <2>1. Generated /\ job' = job /\ \A a \in Jobs : Ended(a)
    BY <1>8 DEF CompileProgram, SimProgram, Compare, IInv, AllEnded, Generated
  <2>2. exit = "none" /\ phase # "run"
    BY <1>1, <2>1 DEF Generated
  <2> QED
    BY <1>1, <2>1, <2>2 DEF Outcomes, Ended
<1>9. CASE UNCHANGED vars
  BY <1>1, <1>9 DEF vars, Outcomes, Ended
<1> QED
  BY <1>2, <1>3, <1>4, <1>5, <1>6, <1>7, <1>8, <1>9 DEF Next, RunPy

\* gcc and the simulators go through the programs in order, and nothing else
\* writes a program, its object or its log from the time gcc starts.
LEMMA CompiledStep ==
  ASSUME IInv, TypeInv, Outcomes, Compiled, [Next]_vars
  PROVE  Compiled'
<1>1. /\ config' = config /\ config \in Configs /\ Progs' = Progs
      /\ \A p \in Progs : Before(p, at)' = Before(p, at')
      /\ asm \in [Progs -> File] /\ elf \in [Progs -> File]
      /\ Generated => at \in Progs
      /\ exit = "none" <=> phase # "exited"
  BY NextKeepsConfig, SameConfig DEF IInv, Typed, TypeInv, TypeOK, Before
<1>2. CASE Generator
  <2>1. PICK b \in Jobs : GenStep(b)
    BY <1>2 DEF Generator, GenStep
  <2>2. /\ UNCHANGED <<phase, exit, at, elf>> /\ ~Generated /\ job[b] = "running"
    BY <2>1, GenStepKeeps, GenStepEarly
  <2>3. exit # "success"
    BY <2>2 DEF Outcomes, Ended
  <2> QED
    BY <2>2, <2>3 DEF Compiled, Generated
<1>3. CASE StartJob \/ JobTimeout \/ Interrupt
  BY <1>1, <1>3 DEF StartJob, JobTimeout, Interrupt, Exit, Compiled
<1>4. CASE JobReturns \/ WaitJob \/ WaitTimeout
  <2>1. /\ exit' \in {exit, "fail"} /\ exit = "none"
        /\ phase' \in {"gen", "wait", "exited"} \/ (phase' = "compile" /\ at' = <<1, 0>>)
    BY <1>1, <1>4 DEF JobReturns, WaitJob, WaitTimeout, NextWait, Exit
  <2>2. \A p \in Progs : ~Before(p, <<1, 0>>)
    BY <1>1, ProgOrder
  <2> QED
    BY <1>1, <2>1, <2>2 DEF Compiled
<1>5. CASE CompileProgram
  <2>1. /\ phase = "compile" /\ exit = "none" /\ asm' = asm /\ at \in Progs
        /\ \A p \in Progs : Before(p, at) => elf[p] = asm[p]
    BY <1>1, <1>5 DEF CompileProgram, Compiled, Generated
  <2>2. CASE phase' = "exited" /\ exit' = "fail"
    BY <2>2 DEF Compiled
  <2>3. CASE exit' = exit /\ elf' = [elf EXCEPT ![at] = asm[at]]
                          /\ IF LastProg(at) THEN phase' = "sim" /\ at' = <<1, 0>>
                             ELSE at' = NextProg(at) /\ UNCHANGED phase
    <3>1. \A p \in Progs : Before(p, at) \/ p = at => elf'[p] = asm[p]
      BY <1>1, <2>1, <2>3
    <3>2. LastProg(at) => \A p \in Progs : Before(p, at) \/ p = at
      BY <1>1, <2>1, ProgOrder
    <3>3. ~LastProg(at) => \A p \in Progs : Before(p, NextProg(at)) => Before(p, at) \/ p = at
      BY <1>1, <2>1, ProgOrder
    <3> QED
      BY <1>1, <2>1, <2>3, <3>1, <3>2, <3>3 DEF Compiled
  <2> QED
    BY <1>5, <2>2, <2>3 DEF CompileProgram, Exit
<1>6. CASE SimProgram
  <2>1. /\ phase = "sim" /\ asm' = asm /\ elf' = elf /\ phase' \in {"sim", "cmp", "exited"}
    BY <1>6 DEF SimProgram, Exit
  <2> QED
    BY <1>1, <2>1 DEF Compiled
<1>7. CASE Compare
  BY <1>1, <1>7 DEF Compare, Exit, Compiled
<1>8. CASE UNCHANGED vars
  BY <1>1, <1>8 DEF vars, Compiled
<1> QED
  BY <1>2, <1>3, <1>4, <1>5, <1>6, <1>7, <1>8 DEF Next, RunPy

LEMMA SimulatedStep ==
  ASSUME IInv, TypeInv, Outcomes, Simulated, [Next]_vars
  PROVE  Simulated'
<1>1. /\ config' = config /\ config \in Configs /\ Progs' = Progs /\ config.iss \in 1..2
      /\ \A p \in Progs : Before(p, at)' = Before(p, at') /\ SimLog(p)' = SimLog(p)
      /\ log \in [1..config.iss -> [LogNames -> File]] /\ sim \in 1..config.iss
      /\ Generated => at \in Progs
      /\ exit = "none" <=> phase # "exited"
  BY NextKeepsConfig, SameConfig, NamesTyped DEF IInv, Typed, TypeInv, TypeOK, Before, SimLog
<1>2. CASE Generator
  <2>1. PICK b \in Jobs : GenStep(b)
    BY <1>2 DEF Generator, GenStep
  <2>2. /\ UNCHANGED <<phase, exit, sim>> /\ ~Generated /\ job[b] = "running"
    BY <2>1, GenStepKeeps, GenStepEarly
  <2>3. exit # "success"
    BY <2>2 DEF Outcomes, Ended
  <2> QED
    BY <2>2, <2>3 DEF Simulated, Generated
<1>3. CASE StartJob \/ JobReturns \/ JobTimeout \/ WaitJob \/ WaitTimeout \/ Interrupt
  <2>1. phase' \notin {"sim", "cmp"} /\ exit' # "success"
    BY <1>1, <1>3 DEF StartJob, JobReturns, JobTimeout, WaitJob, WaitTimeout, NextWait, Interrupt, Exit
  <2>2. sim' = sim /\ (phase' = "exited" \/ phase \in {"gen", "run", "wait"})
    BY <1>3 DEF StartJob, JobReturns, JobTimeout, WaitJob, WaitTimeout, Interrupt, Exit
  <2> QED
    BY <2>1, <2>2 DEF Simulated
<1>4. CASE CompileProgram
  <2>1. /\ exit' # "success" /\ phase' # "cmp" /\ sim' = sim
        /\ phase' = "sim" => at' = <<1, 0>>
    BY <1>1, <1>4 DEF CompileProgram, Exit
  <2>2. sim = 1 /\ \A p \in Progs : ~Before(p, <<1, 0>>)
    BY <1>1, <1>4, ProgOrder DEF CompileProgram, Simulated
  <2>3. \A k \in 1..config.iss : ~(k < 1)
    BY <1>1
  <2> QED
    BY <1>1, <2>1, <2>2, <2>3 DEF Simulated
<1>5. CASE SimProgram
  <2>1. /\ phase = "sim" /\ exit = "none" /\ elf' = elf /\ at \in Progs
        /\ log' = [log EXCEPT ![sim][SimLog(at)] = elf[at]]
        /\ \A p \in Progs : \A k \in 1..config.iss :
             k < sim \/ (k = sim /\ Before(p, at)) => log[k][SimLog(p)] = elf[p]
    BY <1>1, <1>5 DEF SimProgram, Simulated, Generated
  <2>2. ASSUME NEW p \in Progs, NEW k \in 1..config.iss,
               k < sim \/ (k = sim /\ (Before(p, at) \/ p = at))
        PROVE  log'[k][SimLog(p)] = elf[p]
    <3>1. SimLog(p) \in LogNames /\ SimLog(at) \in LogNames
      BY <2>1 DEF LogNames
    <3>2. SimLog(p) = SimLog(at) <=> p = at
      BY DEF SimLog
    <3>3. CASE k = sim /\ p = at
      BY <1>1, <2>1, <3>1, <3>3
    <3>4. CASE ~(k = sim /\ p = at)
      BY <1>1, <2>1, <2>2, <3>1, <3>2, <3>4
    <3> QED
      BY <3>3, <3>4
  <2>3. /\ LastProg(at) => \A p \in Progs : Before(p, at) \/ p = at
        /\ ~LastProg(at) => \A p \in Progs : Before(p, NextProg(at)) => Before(p, at) \/ p = at
        /\ \A p \in Progs : ~Before(p, <<1, 0>>)
    BY <1>1, <2>1, ProgOrder
  <2>4. CASE phase' = "exited" /\ exit' \in {"fail", "130"}
    BY <2>4 DEF Simulated
  <2>5. CASE ~LastProg(at) /\ at' = NextProg(at) /\ UNCHANGED <<phase, sim, exit>>
    BY <1>1, <2>1, <2>2, <2>3, <2>5 DEF Simulated
  <2>6. CASE LastProg(at) /\ sim < config.iss /\ sim' = sim + 1 /\ at' = <<1, 0>>
                          /\ UNCHANGED <<phase, exit>>
    <3>1. \A k \in 1..config.iss : k < sim' => k < sim \/ k = sim
      BY <1>1, <2>6
    <3> QED
      BY <1>1, <2>1, <2>2, <2>3, <2>6, <3>1 DEF Simulated
  <2>7. CASE LastProg(at) /\ ~(sim < config.iss) /\ phase' = "cmp" /\ UNCHANGED <<at, sim, exit>>
    <3>1. \A k \in 1..config.iss : k < sim \/ k = sim
      BY <1>1, <2>7
    <3> QED
      BY <1>1, <2>1, <2>2, <2>3, <2>7, <3>1 DEF Simulated
  <2> QED
    BY <1>5, <2>4, <2>5, <2>6, <2>7 DEF SimProgram, Exit
<1>6. CASE Compare
  <2>1. phase = "cmp" /\ phase' = "exited" /\ log' = log /\ elf' = elf
    BY <1>6 DEF Compare, Exit
  <2> QED
    BY <1>1, <2>1 DEF Simulated
<1>7. CASE UNCHANGED vars
  BY <1>1, <1>7 DEF vars, Simulated
<1> QED
  BY <1>2, <1>3, <1>4, <1>5, <1>6, <1>7 DEF Next, RunPy

LEMMA DiskInvariance == Spec => [](IInv /\ DiskInv)
<1>1. Init => IInv /\ DiskInv
  BY InvInit, TypeInit, DiskInit DEF DiskInv
<1>2. IInv /\ DiskInv /\ [Next]_vars => IInv' /\ DiskInv'
  <2> SUFFICES ASSUME IInv, DiskInv, [Next]_vars PROVE IInv' /\ DiskInv'
    OBVIOUS
  <2>1. IInv'
    BY InvStep
  <2>2. TypeInv'
    BY <2>1, TypeStep DEF DiskInv
  <2>3. ScriptIsFirsts' /\ SeedsOf' /\ Made'
    BY ScriptStep, SeedsStep, MadeStep DEF DiskInv
  <2>4. Outcomes' /\ Compiled' /\ Simulated'
    BY OutcomesStep, CompiledStep, SimulatedStep DEF DiskInv
  <2> QED
    BY <2>1, <2>2, <2>3, <2>4 DEF DiskInv
<1> QED
  BY <1>1, <1>2, PTL DEF Spec

\* The variables of run.py's model have their types, whatever the test list:
\* the counters of the loops never leave the batches and the programs, and no
\* process goes through more than the two pools its script may have.
THEOREM RunTypeCorrect == Spec => []TypeOK
<1>1. DiskInv => TypeOK
  BY DEF DiskInv, TypeInv
<1> QED
  BY <1>1, DiskInvariance, PTL

\* seed.yaml has the seed of every program on disk that was made with its
\* batch's seed, also when the batches run in parallel, die or fail: do_simulate
\* writes it with the seeds of all batches, and no program is written after.
THEOREM SeedYamlReproduces == Spec => []SeedReproduces
<1>1. DiskInv => SeedReproduces
  BY DEF DiskInv, SeedsOf, SeedReproduces
<1> QED
  BY <1>1, DiskInvariance, PTL

\* When run.py ends successfully, every object and every simulator's log is
\* that of the program on disk, and the program is the one this run's generator
\* test made, unless the generator was killed, failed or was late in a parallel
\* run, or the first test of the list has another generator test.
THEOREM SuccessIsOwn == Spec => []BuiltIsOwn
<1>1. IInv /\ DiskInv => BuiltIsOwn
  <2> SUFFICES ASSUME IInv, DiskInv, exit = "success", NEW p \in Progs
               PROVE  /\ elf[p] = asm[p] /\ \A k \in 1..config.iss : log[k][SimLog(p)] = elf[p]
                      /\ \/ elf[p].by = config.tests[p[1]].gen_test
                         \/ job[BatchOf(p)] = "killed"
                         \/ config.lsf /\ job[BatchOf(p)] \in {"failed", "timeout"}
                         \/ config.tests[p[1]].gen_test # config.tests[1].gen_test
    BY DEF BuiltIsOwn
  <2>1. /\ config \in Configs
        /\ job \in [Jobs -> {"none", "running", "ok", "failed", "killed", "timeout", "stopped"}]
    BY DEF IInv, Typed
  <2>2. elf[p] = asm[p] /\ \A k \in 1..config.iss : log[k][SimLog(p)] = elf[p]
    BY DEF DiskInv, Compiled, Simulated
  <2>3. BatchOf(p) \in Jobs /\ p \in Given(config, BatchOf(p))
    <3>1. \E b \in Jobs : p \in Given(config, b)
      BY <2>1, GivenCover
    <3> QED
      BY <3>1 DEF BatchOf
  <2>4. PICK b \in Jobs : b = BatchOf(p) /\ p \in Given(config, b)
    BY <2>3
  <2>5. Name(b) = config.tests[p[1]].gen_test
    <3>1. PICK k \in Nat : p = <<b[1], k>>
      BY <2>1, <2>4, GivenAre
    <3> QED
      BY <3>1 DEF Name
  <2>6. \/ job[b] \in {"ok", "killed"}
        \/ config.lsf /\ job[b] \in {"failed", "timeout"}
    <3>1. job[b] \notin {"none", "running"}
      BY DEF DiskInv, Outcomes, Ended
    <3>2. job[b] \in {"failed", "timeout", "stopped"} => config.lsf /\ job[b] # "stopped"
      BY DEF DiskInv, Outcomes, TypeInv, TypeOK
    <3> QED
      BY <2>1, <3>1, <3>2
  <2>7. job[b] = "ok" /\ Name(b) = FirstName => asm[p].by = Name(b)
    BY <2>4 DEF DiskInv, Made
  <2> QED
    BY <2>2, <2>4, <2>5, <2>6, <2>7 DEF FirstName
<1> QED
  BY <1>1, DiskInvariance, PTL
=============================================================================
