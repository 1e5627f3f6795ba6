-------------------------- MODULE CanphyLinkProofs --------------------------
(***************************************************************************)
(* The CAN PHY agent for every set of frames, every number of them and     *)
(* every idle time between them: the monitor misses no start of frame, and *)
(* a frame with idle time around it is reported once, or, if it is a flag, *)
(* not at all.                                                             *)
(***************************************************************************)
EXTENDS CanphyLink, TLAPS

-----------------------------------------------------------------------------
(* What destuffing leaves.                                                  *)

\* The loop of parse_frame after some passes.
Loop == [i : Nat, same : 1..4, last : 0..1, size : Nat]

LEMMA PassValue ==
  ASSUME NEW q \in Seq(0..1), NEW s \in Loop
  PROVE  /\ Pass(q, s) \in Loop
         /\ \/ Pass(q, s) = s /\ Over(q, s)
            \/ s.i < Len(q) /\ Pass(q, s).i = s.i + 1 /\ Pass(q, s).same = 1
               /\ Pass(q, s).size = s.size + 1
            \/ s.i < Len(q) /\ Pass(q, s).i = s.i + 1 /\ Pass(q, s).same = s.same + 1
               /\ Pass(q, s).size = s.size + 1
            \/ s.i + 2 < Len(q) /\ s.same = 4 /\ Pass(q, s).i = s.i + 2
               /\ Pass(q, s).same = 1 /\ Pass(q, s).size = s.size + 1
            \/ s.i < Len(q) /\ s.i + 2 >= Len(q) /\ Pass(q, s).i \in {s.i + 1, s.i + 2}
               /\ Pass(q, s).same = 1 /\ Pass(q, s).size = s.size
<1>1. s.i \in Nat /\ s.same \in 1..4 /\ s.last \in 0..1 /\ s.size \in Nat /\ Len(q) \in Nat
  BY DEF Loop
<1>2. \A i \in Nat : i < Len(q) => q[i + 1] \in 0..1
  BY <1>1
<1>3. CASE Over(q, s)
  BY <1>3 DEF Pass
<1>4. CASE ~Over(q, s) /\ q[s.i + 1] # s.last
  <2>1. Pass(q, s) = OtherBit(q, s)
    BY <1>4 DEF Pass
  <2>2. s.i < Len(q) /\ q[s.i + 1] \in 0..1
    BY <1>1, <1>2, <1>4 DEF Over
  <2>3. OtherBit(q, s) \in Loop
    BY <1>1, <2>2 DEF OtherBit, Loop
  <2>4. /\ OtherBit(q, s).i = s.i + 1 /\ OtherBit(q, s).same = 1
        /\ OtherBit(q, s).size = s.size + 1
    BY DEF OtherBit
  <2> QED
    BY <2>1, <2>2, <2>3, <2>4
<1>5. CASE ~Over(q, s) /\ q[s.i + 1] = s.last /\ s.same + 1 < 5
  <2>1. Pass(q, s) = EqualBit(s)
    BY <1>5 DEF Pass
  <2>2. s.i < Len(q) /\ s.same + 1 \in 1..4
    BY <1>1, <1>5 DEF Over
  <2>3. EqualBit(s) \in Loop
    BY <1>1, <2>2 DEF EqualBit, Loop
  <2>4. /\ EqualBit(s).i = s.i + 1 /\ EqualBit(s).same = s.same + 1
        /\ EqualBit(s).size = s.size + 1
    BY DEF EqualBit
  <2> QED
    BY <2>1, <2>2, <2>3, <2>4
<1>6. CASE ~Over(q, s) /\ q[s.i + 1] = s.last /\ ~(s.same + 1 < 5)
  <2>1. Pass(q, s) = Skip(q, s)
    BY <1>6 DEF Pass
  <2>2. s.same = 4 /\ s.i < Len(q)
    BY <1>1, <1>6 DEF Over
  <2>3. CASE s.i + 2 < Len(q)
    <3>1. Skip(q, s) = [i |-> s.i + 2, same |-> 1, last |-> q[s.i + 2 + 1], size |-> s.size + 1]
      BY <1>1, <2>3 DEF Skip
    <3>2. q[s.i + 2 + 1] \in 0..1 /\ s.i + 2 \in Nat
      BY <1>1, <1>2, <2>3
    <3>3. Skip(q, s) \in Loop
      BY <1>1, <3>1, <3>2 DEF Loop
    <3>4. Skip(q, s).i = s.i + 2 /\ Skip(q, s).same = 1 /\ Skip(q, s).size = s.size + 1
      BY <3>1
    <3> QED
      BY <2>1, <2>2, <2>3, <3>3, <3>4
  <2>4. CASE s.i + 2 >= Len(q)
    <3>1. PICK next \in {s.i + 1, s.i + 2} :
            Skip(q, s) = [i |-> next, same |-> 1, last |-> s.last, size |-> s.size]
      BY <1>1, <2>2, <2>4 DEF Skip
    <3>2. next \in Nat
      BY <1>1
    <3>3. Skip(q, s) \in Loop
      BY <1>1, <3>1, <3>2 DEF Loop
    <3>4. Skip(q, s).i \in {s.i + 1, s.i + 2} /\ Skip(q, s).same = 1 /\ Skip(q, s).size = s.size
      BY <3>1
    <3> QED
      BY <2>1, <2>2, <2>4, <3>3, <3>4
  <2> QED
    BY <1>1, <2>3, <2>4
<1> QED
  BY <1>3, <1>4, <1>5, <1>6

\* While there are enough bits, every pass takes one, and a bit is skipped at
\* most with every fourth.
Taking(s, n) == s \in Loop /\ s.size = n + 1 /\ 4 * s.i + s.same <= 5 * s.size

LEMMA TakingBound ==
  ASSUME NEW i \in Nat, NEW m \in 1..4, NEW z \in Nat, 4 * i + m <= 5 * z
  PROVE  /\ 4 * (i + 1) + 1 <= 5 * (z + 1) /\ 4 * (i + 1) + (m + 1) <= 5 * (z + 1)
         /\ m = 4 => 4 * (i + 2) + 1 <= 5 * (z + 1)
OBVIOUS

LEMMA PassTakes ==
  ASSUME NEW q \in Seq(0..1), Len(q) >= 27, NEW n \in 0..19, NEW s, Taking(s, n)
  PROVE  Taking(Pass(q, s), n + 1)
<1> DEFINE t == Pass(q, s)
<1>1. /\ s \in Loop /\ s.i \in Nat /\ s.same \in 1..4 /\ s.size = n + 1
      /\ 4 * s.i + s.same <= 5 * s.size /\ Len(q) \in Nat
  BY DEF Taking, Loop
<1>2. s.i <= 24
  BY <1>1
<1>3. /\ t \in Loop
      /\ \/ t.i = s.i + 1 /\ t.same = 1 /\ t.size = s.size + 1
         \/ t.i = s.i + 1 /\ t.same = s.same + 1 /\ t.size = s.size + 1
         \/ s.same = 4 /\ t.i = s.i + 2 /\ t.same = 1 /\ t.size = s.size + 1
  <2>1. ~Over(q, s) /\ ~(s.i + 2 >= Len(q))
    BY <1>1, <1>2 DEF Over
  <2> QED
    BY <1>1, <2>1, PassValue
<1> HIDE DEF t
<1>4. t.size = (n + 1) + 1
  BY <1>1, <1>3
<1>5. 4 * t.i + t.same <= 5 * t.size
  <2>1. /\ 4 * (s.i + 1) + 1 <= 5 * (s.size + 1)
        /\ 4 * (s.i + 1) + (s.same + 1) <= 5 * (s.size + 1)
        /\ s.same = 4 => 4 * (s.i + 2) + 1 <= 5 * (s.size + 1)
    BY <1>1, TakingBound DEF Loop
  <2> QED
    BY <1>3, <2>1
<1> QED
  BY <1>3, <1>4, <1>5 DEF Taking, t

LEMMA FiveTake ==
  ASSUME NEW q \in Seq(0..1), Len(q) >= 27, NEW n \in 0..15, NEW s, Taking(s, n)
  PROVE  Taking(FivePasses(q, s), n + 5)
<1> DEFINE s1 == Pass(q, s)
           s2 == Pass(q, s1)
           s3 == Pass(q, s2)
           s4 == Pass(q, s3)
<1>7. FivePasses(q, s) = Pass(q, s4)
  BY DEF FivePasses
<1> HIDE DEF s1, s2, s3, s4
<1>1. Taking(s1, n + 1)
  BY PassTakes DEF s1
<1>2. n + 1 \in 0..19 /\ n + 2 \in 0..19 /\ n + 3 \in 0..19 /\ n + 4 \in 0..19
      /\ (n + 1) + 1 = n + 2 /\ (n + 2) + 1 = n + 3 /\ (n + 3) + 1 = n + 4 /\ (n + 4) + 1 = n + 5
  OBVIOUS
<1>3. Taking(s2, n + 2)
  BY <1>1, <1>2, PassTakes DEF s2
<1>4. Taking(s3, n + 3)
  BY <1>2, <1>3, PassTakes DEF s3
<1>5. Taking(s4, n + 4)
  BY <1>2, <1>4, PassTakes DEF s4
<1>6. Taking(Pass(q, s4), n + 5)
  BY <1>2, <1>5, PassTakes
<1> QED
  BY <1>6, <1>7

\* No pass takes a bit that is not there.
Bounded(q, s) == s \in Loop /\ s.size <= s.i /\ s.size <= Len(q)

LEMMA PassBounded ==
  ASSUME NEW q \in Seq(0..1), NEW s, Bounded(q, s)
  PROVE  Bounded(q, Pass(q, s))
<1> DEFINE t == Pass(q, s)
<1>1. /\ s \in Loop /\ s.i \in Nat /\ s.size \in Nat /\ Len(q) \in Nat
      /\ s.size <= s.i /\ s.size <= Len(q)
  BY DEF Bounded, Loop
<1>2. /\ t \in Loop
      /\ \/ t = s
         \/ s.i < Len(q) /\ t.i \in {s.i + 1, s.i + 2} /\ t.size \in {s.size, s.size + 1}
  BY <1>1, PassValue
<1> HIDE DEF t
<1>3. t.size <= t.i /\ t.size <= Len(q)
  BY <1>1, <1>2
<1> QED
  BY <1>2, <1>3 DEF Bounded, t

LEMMA FiveBounded ==
  ASSUME NEW q \in Seq(0..1), NEW s, Bounded(q, s)
  PROVE  Bounded(q, FivePasses(q, s))
<1> DEFINE s1 == Pass(q, s)
           s2 == Pass(q, s1)
           s3 == Pass(q, s2)
           s4 == Pass(q, s3)
<1>1. FivePasses(q, s) = Pass(q, s4)
  BY DEF FivePasses
<1> HIDE DEF s1, s2, s3, s4
<1>2. Bounded(q, s1)
  BY PassBounded DEF s1
<1>3. Bounded(q, s2)
  BY <1>2, PassBounded DEF s2
<1>4. Bounded(q, s3)
  BY <1>3, PassBounded DEF s3
<1>5. Bounded(q, s4)
  BY <1>4, PassBounded DEF s4
<1> QED
  BY <1>1, <1>5, PassBounded

\* parse_frame keeps what has 27 bits or more, and drops what has fewer than 20.
LEMMA DestuffedSize ==
  ASSUME NEW q \in Seq(0..1), Len(q) >= 1
  PROVE  /\ Len(q) >= 27 => LongEnough(q)
         /\ Len(q) < 20 => ~LongEnough(q)
<1> DEFINE start == [i |-> 1, same |-> 1, last |-> q[1], size |-> 1]
           s1 == FivePasses(q, start)
           s2 == FivePasses(q, s1)
           s3 == FivePasses(q, s2)
           s4 == FivePasses(q, s3)
<1>1. Len(q) \in Nat /\ q[1] \in 0..1
  OBVIOUS
<1>2. start \in Loop /\ start.i = 1 /\ start.same = 1 /\ start.size = 1
  BY <1>1 DEF Loop
<1> HIDE DEF start
<1>3. Taking(start, 0) /\ Bounded(q, start)
  BY <1>1, <1>2 DEF Taking, Bounded
<1>4. Destuffed(q) = s4.size
  BY DEF Destuffed, start
<1> HIDE DEF s1, s2, s3, s4
<1>5. ASSUME Len(q) >= 27 PROVE s4.size = 21
  <2>1. Taking(s1, 5)
    BY <1>3, <1>5, FiveTake DEF s1
  <2>2. Taking(s2, 10)
    BY <1>5, <2>1, FiveTake DEF s2
  <2>3. Taking(s3, 15)
    BY <1>5, <2>2, FiveTake DEF s3
  <2>4. Taking(s4, 20)
    BY <1>5, <2>3, FiveTake DEF s4
  <2> QED
    BY <2>4 DEF Taking
<1>6. s4.size <= Len(q) /\ s4.size \in Nat
  <2>1. Bounded(q, s1)
    BY <1>3, FiveBounded DEF s1
  <2>2. Bounded(q, s2)
    BY <2>1, FiveBounded DEF s2
  <2>3. Bounded(q, s3)
    BY <2>2, FiveBounded DEF s3
  <2>4. Bounded(q, s4)
    BY <2>3, FiveBounded DEF s4
  <2> QED
    BY <2>4 DEF Bounded, Loop
<1> QED
  BY <1>1, <1>4, <1>5, <1>6 DEF LongEnough, Shortest

-----------------------------------------------------------------------------
USE FrameAssumption

(* Whatever a frame is, its length is a positive number and its bits are    *)
(* bits; behind its end the line is recessive.                              *)
LEMMA FrameBits ==
  ASSUME NEW f \in Frames
  PROVE  /\ Length(f) \in Nat \ {0}
         /\ \A i \in Nat : Driven(f, i) \in 0..1
         /\ \A i \in Nat : i >= Length(f) => Driven(f, i) = 1
<1>1. Length(f) \in Nat \ {0}
  <2>1. CASE f.kind = "data"
    <3>1. f.bits - f.last \in Nat
      BY <2>1
    <3>2. StuffBits(f) \in Nat
      BY <3>1 DEF StuffBits
    <3> QED
      BY <2>1, <3>2 DEF Length, DataLength
  <2>2. CASE f.kind # "data"
    BY <2>2 DEF Length
  <2> QED
    BY <2>1, <2>2
<1>2. \A i \in Nat : Built(f, i) \in 0..1
  BY DEF Built
<1>3. \A i \in Nat : Driven(f, i) \in 0..1
  BY <1>2 DEF Driven
<1> QED
  BY <1>1, <1>3 DEF Driven

LEMMA Appended ==
  ASSUME NEW S, NEW s \in Seq(S), NEW e \in S
  PROVE  Append(s, e) \in Seq(S)
OBVIOUS

-----------------------------------------------------------------------------
(* A capture that goes on is below its limits; the monitor compares with    *)
(* the bit that was on the line last; between frames the line is recessive. *)
Capturing == state = "capture" => Len(queue) <= MaxBits /\ ones < EofBits
PrevIsLine == state = "watch" => prev = line
Recessive == ~Busy => line = 1

IInv == TypeOK /\ Capturing /\ PrevIsLine /\ Recessive /\ EverySofSeen

(* What one bit does to the monitor, whichever action puts it on the line.  *)
LEMMA MonitorStep ==
  ASSUME TypeOK, Capturing, PrevIsLine,
         NEW bit \in 0..1, NEW k \in SUBSET (1..NFrames), NEW first \in BOOLEAN,
         Monitor(bit, k, first), line' = bit
  PROVE  /\ prev' \in 0..1 /\ state' \in {"watch", "capture"}
         /\ queue' \in Seq(0..1) /\ Len(queue') <= MaxBits + 1 /\ ones' \in 0..EofBits
         /\ published' \in Seq(SUBSET (1..NFrames))
         /\ Capturing' /\ PrevIsLine'
         /\ inside' \subseteq inside \cup k
         /\ seen \subseteq seen' /\ seen' \subseteq seen \cup k
         /\ first /\ bit = 0 /\ line = 1 => k \subseteq seen'
<1>1. CASE state = "capture"
  <2>1. Sample(bit, k, first)
    BY <1>1 DEF Monitor
  <2>2. inside \subseteq 1..NFrames
    BY DEF TypeOK
  <2>3. /\ queue' \in Seq(0..1) /\ Len(queue') = Len(queue) + 1
        /\ ones' \in 0..EofBits
    BY <2>1, <1>1 DEF Sample, TypeOK, Capturing, EofBits
  <2>4. published' \in Seq(SUBSET (1..NFrames))
    <3>1. inside' \in SUBSET (1..NFrames)
      BY <2>1, <2>2 DEF Sample
    <3>2. published \in Seq(SUBSET (1..NFrames))
      BY DEF TypeOK
    <3>3. published' \in {published, Append(published, inside')}
      BY <2>1 DEF Sample
    <3>4. Append(published, inside') \in Seq(SUBSET (1..NFrames))
      BY <3>1, <3>2, Appended, Zenon
    <3> QED
      BY <3>2, <3>3, <3>4, Zenon
  <2>5. Capturing' /\ PrevIsLine'
    <3>1. Len(queue) \in Nat /\ Len(queue) <= MaxBits
      BY <1>1 DEF TypeOK, Capturing
    <3>2. state' = "capture" => ~(ones' >= EofBits) /\ Len(queue) # MaxBits
      BY <2>1 DEF Sample
    <3>3. state' = "watch" => prev' = bit
      BY <2>1 DEF Sample
    <3>4. state' = "capture" => Len(queue') <= MaxBits
      <4>1. Len(queue') = Len(queue) + 1 /\ MaxBits \in Nat
        BY <2>3 DEF MaxBits
      <4>2. Len(queue) # MaxBits => Len(queue) + 1 <= MaxBits
        BY <3>1, <4>1
      <4> QED
        BY <3>2, <4>1, <4>2
    <3>5. state' = "capture" => ones' < EofBits
      BY <2>3, <3>2 DEF EofBits
    <3> QED
      BY <3>3, <3>4, <3>5 DEF Capturing, PrevIsLine
  <2>6. prev' \in 0..1 /\ state' \in {"watch", "capture"} /\ Len(queue') <= MaxBits + 1
    BY <2>1, <2>3, <1>1 DEF Sample, TypeOK, Capturing, MaxBits
  <2>7. /\ inside' \subseteq inside \cup k
        /\ seen \subseteq seen' /\ seen' \subseteq seen \cup k
        /\ first => k \subseteq seen'
    BY <2>1 DEF Sample
  <2> QED
    BY <2>3, <2>4, <2>5, <2>6, <2>7
<1>2. CASE state = "watch"
  <2>1. Watch(bit, k, first)
    BY <1>2 DEF Monitor
  <2>2. /\ prev' \in 0..1 /\ state' \in {"watch", "capture"}
        /\ published' \in Seq(SUBSET (1..NFrames))
    BY <2>1, <1>2 DEF Watch, TypeOK
  <2>3. CASE prev = 1 /\ bit = 0
    <3>1. queue' = <<0>> /\ ones' = 0 /\ inside' = k /\ state' = "capture"
      BY <2>1, <2>3 DEF Watch
    <3>2. queue' \in Seq(0..1) /\ Len(queue') = 1
      BY <3>1
    <3> QED
      BY <2>1, <2>2, <2>3, <3>1, <3>2 DEF Watch, Capturing, PrevIsLine, MaxBits, EofBits
  <2>4. CASE ~(prev = 1 /\ bit = 0)
    <3>1. UNCHANGED <<state, queue, ones, inside, seen>>
      BY <2>1, <2>4 DEF Watch
    <3> QED
      BY <2>1, <2>2, <2>4, <3>1, <1>2 DEF Watch, TypeOK, Capturing, PrevIsLine
  <2> QED
    BY <2>3, <2>4
<1> QED
  BY <1>1, <1>2 DEF TypeOK
-----------------------------------------------------------------------------
LEMMA InitInvariant == Init => IInv
<1> SUFFICES ASSUME Init PROVE IInv
  OBVIOUS
<1>1. ~Busy
  BY DEF Init, Busy
<1>2. EverySofSeen
  BY DEF Init, EverySofSeen
<1> QED
  BY <1>1, <1>2 DEF Init, IInv, TypeOK, Capturing, PrevIsLine, Recessive, MaxBits, EofBits

LEMMA StepInvariant == IInv /\ [Next]_vars => IInv'
<1> SUFFICES ASSUME IInv, [Next]_vars PROVE IInv'
  OBVIOUS
<1> USE DEF IInv
<1>1. ASSUME Bit PROVE IInv'
  <2> DEFINE k == IF pos < Length(Current) THEN {Len(driven)} ELSE {}
  <2>1. driven # <<>> /\ Len(driven) \in 1..NFrames /\ Current \in Frames /\ pos \in Nat
    BY <1>1 DEF Bit, Busy, TypeOK, Current
  <2>2. line' \in 0..1 /\ (pos >= Length(Current) => line' = 1)
    BY <1>1, <2>1, FrameBits DEF Bit
  <2>3. k \in SUBSET (1..NFrames) /\ k \subseteq DOMAIN driven /\ Monitor(line', k, FALSE)
    <3>1. k \subseteq {Len(driven)} /\ Len(driven) \in DOMAIN driven
      BY <2>1 DEF TypeOK
    <3>2. Monitor(line', k, FALSE)
      BY <1>1 DEF Bit
    <3> QED
      BY <2>1, <3>1, <3>2
  <2> HIDE DEF k
  <2>4. /\ prev' \in 0..1 /\ state' \in {"watch", "capture"}
        /\ queue' \in Seq(0..1) /\ Len(queue') <= MaxBits + 1 /\ ones' \in 0..EofBits
        /\ published' \in Seq(SUBSET (1..NFrames))
        /\ Capturing' /\ PrevIsLine'
        /\ inside' \subseteq inside \cup k
        /\ seen \subseteq seen' /\ seen' \subseteq seen \cup k
    BY <2>2, <2>3, MonitorStep
  <2>5. driven' = driven /\ idle' = idle /\ pos' = pos + 1 /\ Current' = Current
    BY <1>1 DEF Bit, Current
  <2>6. TypeOK'
    <3>1. pos' \in 0..(Length(Current) + IFS)
      BY <1>1, <2>1, <2>5, FrameBits DEF Bit, Busy, IFS
    <3>2. inside' \cup seen' \subseteq DOMAIN driven'
      <4>1. inside \cup seen \subseteq DOMAIN driven
        BY DEF TypeOK
      <4> QED
        BY <2>3, <2>4, <2>5, <4>1
    <3>3. Length(Current)' = Length(Current)
      BY <2>5 DEF Length, DataLength, StuffBits
    <3> QED
      BY <2>1, <2>2, <2>4, <2>5, <3>1, <3>2, <3>3 DEF TypeOK
  <2>7. Recessive'
    <3>1. Length(Current)' = Length(Current) /\ Length(Current) \in Nat
      BY <2>1, <2>5, FrameBits DEF Length, DataLength, StuffBits
    <3> QED
      BY <2>1, <2>2, <2>5, <3>1 DEF Recessive, Busy, IFS
  <2>8. EverySofSeen'
    BY <2>4, <2>5 DEF EverySofSeen, Driven, Length, DataLength, StuffBits, Built
  <2> QED
    BY <2>4, <2>6, <2>7, <2>8
<1>2. ASSUME Start PROVE IInv'
  <2> DEFINE n == Len(driven) + 1
  <2>1. PICK f \in Frames :
          /\ driven' = Append(driven, f) /\ pos' = 1
          /\ line' = Driven(f, 0) /\ idle' = Append(idle, 0)
          /\ Monitor(line', {n}, line' = 0)
    BY <1>2 DEF Start
  <2>2. /\ n \in 1..NFrames /\ line = 1
        /\ driven' \in Seq(Frames) /\ Len(driven') = n /\ driven'[n] = f
        /\ DOMAIN driven' = DOMAIN driven \cup {n}
        /\ \A i \in DOMAIN driven : driven'[i] = driven[i]
    <3>1. driven \in Seq(Frames) /\ NFrames \in Nat /\ ~Busy /\ Len(driven) < NFrames
      BY <1>2 DEF Start, TypeOK
    <3>2. line = 1
      BY <3>1 DEF Recessive
    <3> QED
      BY <2>1, <3>1, <3>2
  <2>3. line' \in 0..1 /\ Length(f) \in Nat \ {0}
    BY <2>1, FrameBits
  <2>4. Current' = f /\ Length(Current)' = Length(f)
    BY <2>2 DEF Current, Length, DataLength, StuffBits
  <2> HIDE DEF n
  <2>5. /\ prev' \in 0..1 /\ state' \in {"watch", "capture"}
        /\ queue' \in Seq(0..1) /\ Len(queue') <= MaxBits + 1 /\ ones' \in 0..EofBits
        /\ published' \in Seq(SUBSET (1..NFrames))
        /\ Capturing' /\ PrevIsLine'
        /\ inside' \subseteq inside \cup {n}
        /\ seen \subseteq seen' /\ seen' \subseteq seen \cup {n}
        /\ line' = 0 => n \in seen'
    <3>1. {n} \in SUBSET (1..NFrames)
      BY <2>2
    <3>2. CASE line' = 0
      <4>1. Monitor(line', {n}, TRUE)
        BY <2>1, <3>2
      <4> QED
        BY <2>2, <2>3, <3>1, <3>2, <4>1, MonitorStep
    <3>3. CASE line' # 0
      <4>1. Monitor(line', {n}, FALSE)
        BY <2>1, <3>3
      <4> QED
        BY <2>3, <3>1, <3>3, <4>1, MonitorStep
    <3> QED
      BY <3>2, <3>3
  <2>6. TypeOK'
    <3>1. idle' \in Seq(0..MaxIdle) /\ Len(idle') = Len(driven') + 1
      BY <2>1, <2>2 DEF TypeOK, n
    <3>2. inside' \cup seen' \subseteq DOMAIN driven'
      <4>1. inside \cup seen \subseteq DOMAIN driven
        BY DEF TypeOK
      <4> QED
        BY <2>2, <2>5, <4>1
    <3>3. pos' \in 0..(Length(Current)' + IFS) /\ driven' # <<>>
      BY <2>1, <2>2, <2>3, <2>4 DEF IFS
    <3>4. Len(driven') <= NFrames
      BY <2>2
    <3>5. pos' \in 0..(IF driven' = <<>> THEN 0 ELSE Length(Current)' + IFS)
      BY <3>3
    <3> QED
      BY <2>2, <2>3, <2>5, <3>1, <3>2, <3>4, <3>5 DEF TypeOK, Current, Length, DataLength, StuffBits
  <2>7. Recessive'
    BY <2>1, <2>2, <2>3, <2>4 DEF Recessive, Busy, IFS
  <2>8. EverySofSeen'
    <3>1. ASSUME NEW i \in DOMAIN driven', Driven(driven'[i], 0) = 0 PROVE i \in seen'
      <4>1. CASE i = n
        BY <2>1, <2>2, <2>5, <3>1, <4>1
      <4>2. CASE i # n
        <5>1. i \in DOMAIN driven /\ driven'[i] = driven[i]
          BY <2>2, <3>1, <4>2
        <5>2. i \in seen
          BY <3>1, <5>1 DEF EverySofSeen
        <5> QED
          BY <2>5, <5>2
      <4> QED
        BY <4>1, <4>2
    <3> QED
      BY <3>1 DEF EverySofSeen, Driven, Length, DataLength, StuffBits, Built
  <2> QED
    BY <2>5, <2>6, <2>7, <2>8
<1>3. ASSUME Idle PROVE IInv'
  <2>1. Monitor(line', {}, FALSE) /\ line' = 1 /\ driven' = driven /\ pos' = pos
    BY <1>3 DEF Idle
  <2>2. /\ prev' \in 0..1 /\ state' \in {"watch", "capture"}
        /\ queue' \in Seq(0..1) /\ Len(queue') <= MaxBits + 1 /\ ones' \in 0..EofBits
        /\ published' \in Seq(SUBSET (1..NFrames))
        /\ Capturing' /\ PrevIsLine'
        /\ inside' \subseteq inside \cup {}
        /\ seen \subseteq seen' /\ seen' \subseteq seen \cup {}
    <3>1. {} \in SUBSET (1..NFrames) /\ line' \in 0..1
      BY <2>1
    <3> QED
      BY <2>1, <3>1, MonitorStep
  <2>3. idle' \in Seq(0..MaxIdle) /\ Len(idle') = Len(idle)
    BY <1>3 DEF Idle, TypeOK
  <2>4. TypeOK'
    BY <2>1, <2>2, <2>3 DEF TypeOK, Current, Length, DataLength, StuffBits
  <2>5. Recessive' /\ EverySofSeen'
    BY <2>1, <2>2 DEF Recessive, EverySofSeen, Driven, Length, DataLength, StuffBits, Built
  <2> QED
    BY <2>2, <2>4, <2>5
<1>4. ASSUME UNCHANGED vars PROVE IInv'
  BY <1>4 DEF vars, TypeOK, Capturing, PrevIsLine, Recessive, EverySofSeen, Busy, Current,
              Driven, Length, DataLength, StuffBits, Built
<1> QED
  BY <1>1, <1>2, <1>3, <1>4 DEF Next

LEMMA Invariance == Spec => []IInv
BY InitInvariant, StepInvariant, PTL DEF Spec

(* The capture never holds more bits than it may, and what the monitor      *)
(* keeps refers to frames that were driven (capture_frame).                 *)
THEOREM TypeCorrect == Spec => []TypeOK
<1>1. IInv => TypeOK
  BY DEF IInv
<1> QED
  BY <1>1, Invariance, PTL

(* No start of a frame is missed: monitor_rx_bus compares with the bit at   *)
(* which capture_frame ended, and that is recessive before every frame.     *)
THEOREM NoSofMissed == Spec => []EverySofSeen
<1>1. IInv => EverySofSeen
  BY DEF IInv
<1> QED
  BY <1>1, Invariance, PTL
-----------------------------------------------------------------------------
(* What the line shows of a frame.                                          *)

LEMMA DataBits ==
  ASSUME NEW f \in Frames, f.kind = "data"
  PROVE  /\ Length(f) \in Nat /\ Length(f) >= 26
         /\ \A i \in Nat : i < Length(f) - 1 => Driven(f, i) = IF i = f.err THEN 1 ELSE 0
         /\ \A i \in Nat : i >= Length(f) => Driven(f, i) = 1
<1>1. f.bits \in Nat \ {0} /\ f.last \in 0..1
  OBVIOUS
<1>2. StuffBits(f) \in Nat
  <2>1. f.bits - f.last \in Nat
    BY <1>1
  <2> QED
    BY <2>1 DEF StuffBits
<1>3. Length(f) = DataLength(f) /\ DataLength(f) \in Nat /\ DataLength(f) >= 26
  BY <1>1, <1>2 DEF Length, DataLength
<1>4. ASSUME NEW i \in Nat, i < Length(f) - 1 PROVE Driven(f, i) = IF i = f.err THEN 1 ELSE 0
  <2>1. Built(f, i) = 0
    BY <1>3, <1>4 DEF Built
  <2> QED
    BY <1>3, <1>4, <2>1 DEF Driven
<1> QED
  BY <1>3, <1>4 DEF Driven

LEMMA FlagBits ==
  ASSUME NEW f \in Frames, f.kind = "flag"
  PROVE  Length(f) = 14 /\ \A i \in Nat : Driven(f, i) = IF i < 6 THEN 0 ELSE 1
BY DEF Length, Driven, Built

-----------------------------------------------------------------------------
(* What becomes of a frame that finds the monitor waiting.                  *)

\* Bits on the line since the frame's first one, it included.
Since == pos + idle[Len(idle)]

\* Recessive bits on the line since the frame's end.
Ending == IF pos >= Length(Current) THEN pos - Length(Current) + idle[Len(idle)] ELSE 0

\* The bit a capture of the frame begins with.
First(f) == IF Driven(f, 0) = 0 THEN 0 ELSE 1

\* The frames of which ApartPublishedOnce speaks, and what it says of them.
Fit(f) == f.kind = "flag" \/ f.err < 0 \/ Length(f) < MaxBits

Once(k) ==
  IF driven[k].kind = "flag" THEN Publications(k) = {}
  ELSE \E n \in DOMAIN published : Publications(k) = {n} /\ published[n] = {k}

\* No falling edge is left in the frame.
Quiet(f) ==
  \/ Since >= Length(f)
  \/ f.kind = "flag" /\ Since >= 6
  \/ f.kind = "data" /\ f.err < 0 /\ prev = 0

\* The recessive bits a capture of the frame has counted.
Counted(f) ==
  /\ f.kind = "flag" => ones = IF Since <= 6 THEN 0 ELSE Since - 6
  /\ f.kind = "data" => IF Since < Length(f) THEN ones <= Driven(f, Since - 1)
                        ELSE ones <= Since - Length(f) + 2

Expected(k) ==
  /\ state = "watch" /\ prev = 1 /\ Since = 1 /\ First(driven[k]) = 1
  /\ Publications(k) = {}

Captured(k) ==
  /\ state = "capture" /\ inside = {k} /\ Since > First(driven[k])
  /\ Len(queue) = Since - First(driven[k])
  /\ Counted(driven[k]) /\ Publications(k) = {}

Finished(k) == state = "watch" /\ Quiet(driven[k]) /\ Once(k)

\* The line has been recessive long enough before frame k.
Clear(k) == k = 1 \/ idle[k] >= EndOfFrame - IFS

UnderWay ==
  driven # <<>> /\ Clear(Len(driven)) /\ Fit(Current) =>
    Expected(Len(driven)) \/ Captured(Len(driven)) \/ Finished(Len(driven))

Past ==
  \A k \in 1..(Len(driven) - 1) :
    idle[k + 1] >= EndOfFrame - IFS =>
      /\ Clear(k) /\ Fit(driven[k]) => Once(k)
      /\ state = "capture" => k \notin inside

\* Before the first frame there is nothing to capture; idle bits come when the
\* driver is done; a capture has counted the recessive bits at the end.
Order ==
  /\ driven = <<>> => state = "watch"
  /\ idle[Len(idle)] > 0 => ~Busy
  /\ driven # <<>> /\ state = "capture" => ones >= Ending
  /\ driven # <<>> => pos >= 1
  /\ \A n \in DOMAIN published : published[n] \subseteq DOMAIN driven

LinkInv == Order /\ UnderWay /\ Past

LEMMA LinkFacts ==
  ASSUME TypeOK
  PROVE  /\ Len(driven) \in Nat /\ Len(idle) = Len(driven) + 1
         /\ \A k \in 1..Len(idle) : idle[k] \in Nat
         /\ Len(idle) \in 1..Len(idle) /\ idle[Len(idle)] \in Nat
         /\ pos \in Nat /\ Since \in Nat
         /\ \A k \in 1..Len(driven) : driven[k] \in Frames
         /\ driven # <<>> => Len(driven) \in 1..Len(driven) /\ Current \in Frames
<1>1. /\ driven \in Seq(Frames) /\ idle \in Seq(0..MaxIdle) /\ Len(idle) = Len(driven) + 1
      /\ MaxIdle \in Nat
  BY DEF TypeOK
<1>2. Len(driven) \in Nat /\ Len(idle) \in 1..Len(idle)
  BY <1>1
<1>3. \A k \in 1..Len(idle) : idle[k] \in Nat
  BY <1>1
<1>4. pos \in Nat
  <2>1. CASE driven = <<>>
    BY <2>1 DEF TypeOK
  <2>2. CASE driven # <<>>
    <3>1. Current \in Frames
      BY <1>1, <2>2 DEF Current
    <3> QED
      BY <2>2, <3>1, FrameBits DEF TypeOK, IFS
  <2> QED
    BY <2>1, <2>2
<1>5. driven # <<>> => Len(driven) \in 1..Len(driven) /\ Current \in Frames
  BY <1>1 DEF Current
<1> QED
  BY <1>1, <1>2, <1>3, <1>4, <1>5 DEF Since

\* Whatever is published was captured.
LEMMA MonitorPublished ==
  ASSUME TypeOK, NEW bit \in 0..1, NEW k, NEW first, Monitor(bit, k, first)
  PROVE  /\ \/ published' = published
            \/ /\ state = "capture" /\ state' = "watch"
               /\ published' = Append(published, inside')
         /\ state = "capture" => inside' = inside \cup k
         /\ state = "watch" => published' = published
         /\ state = "watch" /\ state' = "capture" => inside' = k /\ bit = 0
         /\ state = "capture" /\ bit = 1 => ones' = ones + 1
<1>1. CASE state = "capture"
  <2>1. Sample(bit, k, first)
    BY <1>1 DEF Monitor
  <2> QED
    BY <1>1, <2>1 DEF Sample
<1>2. CASE state # "capture"
  <2>1. Watch(bit, k, first)
    BY <1>2 DEF Monitor
  <2> QED
    BY <1>2, <2>1 DEF Watch
<1> QED
  BY <1>1, <1>2

LEMMA OnceKept ==
  ASSUME NEW k, driven'[k] = driven[k], published \in Seq(SUBSET (1..NFrames)),
         published' = published \/ \E S : published' = Append(published, S) /\ k \notin S
  PROVE  Publications(k)' = Publications(k) /\ (Once(k) => Once(k)')
<1>1. CASE published' = published
  BY <1>1 DEF Publications, Once
<1>2. ASSUME NEW S, published' = Append(published, S), k \notin S
      PROVE  Publications(k)' = Publications(k) /\ (Once(k) => Once(k)')
  <2>1. /\ DOMAIN published = 1..Len(published) /\ Len(published) \in Nat
        /\ DOMAIN published' = 1..(Len(published) + 1)
        /\ published'[Len(published) + 1] = S
        /\ \A m \in DOMAIN published : published'[m] = published[m]
    BY <1>2
  <2>2. \A m : m \in DOMAIN published' <=> m \in DOMAIN published \/ m = Len(published) + 1
    BY <2>1
  <2>3. Publications(k)' = Publications(k)
    <3>1. \A m : m \in DOMAIN published' /\ k \in published'[m]
                <=> m \in DOMAIN published /\ k \in published[m]
      BY <1>2, <2>1, <2>2, Zenon
    <3> QED
      BY <3>1, Zenon DEF Publications
  <2>4. Once(k) => Once(k)'
    BY <2>1, <2>2, <2>3 DEF Once
  <2> QED
    BY <2>3, <2>4
<1> QED
  BY <1>1, <1>2

LEMMA PublishedNow ==
  ASSUME NEW k, published \in Seq(SUBSET (1..NFrames)), published' = Append(published, {k}),
         Publications(k) = {}
  PROVE  \E m \in DOMAIN published' : Publications(k)' = {m} /\ published'[m] = {k}
<1>1. /\ DOMAIN published = 1..Len(published) /\ Len(published) \in Nat
      /\ DOMAIN published' = 1..(Len(published) + 1)
      /\ published'[Len(published) + 1] = {k}
      /\ \A m \in DOMAIN published : published'[m] = published[m]
  OBVIOUS
<1>2. \A m : m \in DOMAIN published' <=> m \in DOMAIN published \/ m = Len(published) + 1
  BY <1>1
<1>3. Publications(k)' = {Len(published) + 1}
  BY <1>1, <1>2 DEF Publications
<1> QED
  BY <1>1, <1>2, <1>3

\* With enough idle bits behind a frame its capture is over.
LEMMA Rested ==
  ASSUME TypeOK, Capturing, LinkInv, driven # <<>>, idle[Len(idle)] >= EndOfFrame - IFS
  PROVE  /\ state = "watch"
         /\ Clear(Len(driven)) /\ Fit(Current) => Once(Len(driven))
<1>1. /\ idle[Len(idle)] \in Nat /\ pos \in Nat /\ Current \in Frames
      /\ idle[Len(idle)] >= 4
  BY LinkFacts DEF EndOfFrame, IFS
<1>2. Length(Current) \in Nat /\ Length(Current) >= 2
  BY <1>1, DataBits, FlagBits
<1>3. pos >= Length(Current) + 3
  <2>1. ~Busy
    BY <1>1 DEF LinkInv, Order
  <2> QED
    BY <1>1, <1>2, <2>1 DEF Busy, IFS
<1>4. Ending >= 7
  BY <1>1, <1>2, <1>3 DEF Ending
<1>5. state = "watch"
  <2>1. state = "capture" => ones >= Ending /\ ones < 7
    BY DEF LinkInv, Order, Capturing, EofBits
  <2>2. Ending \in Nat
    BY <1>1, <1>2, <1>3 DEF Ending
  <2>3. ones \in Nat
    BY DEF TypeOK
  <2> QED
    BY <1>4, <2>1, <2>2, <2>3 DEF TypeOK
<1>6. ASSUME Clear(Len(driven)), Fit(Current) PROVE Once(Len(driven))
  <2>1. ~Expected(Len(driven))
    BY <1>1, <1>2, <1>3 DEF Expected, Since
  <2>2. ~Captured(Len(driven))
    BY <1>5 DEF Captured
  <2> QED
    BY <1>6, <2>1, <2>2 DEF LinkInv, UnderWay, Finished
<1> QED
  BY <1>5, <1>6

-----------------------------------------------------------------------------
(* The frame under way, at the line's next bit.                             *)

\* The line shows frame n's next bit, or a recessive one behind its end.
FrameBit(n) ==
  /\ driven # <<>> /\ n = Len(driven) /\ driven' = driven
  /\ Since \in Nat \ {0} /\ Since' = Since + 1
  /\ Monitor(Driven(driven[n], Since),
             IF Since < Length(driven[n]) THEN {n} ELSE {}, FALSE)

LEMMA ExpectedStep ==
  ASSUME TypeOK, NEW n, FrameBit(n), Expected(n)
  PROVE  Captured(n)'
<1> DEFINE f == driven[n]
<1>1. f \in Frames /\ driven' = driven /\ Since' = 2 /\ Since = 1
  BY LinkFacts DEF FrameBit, Expected
<1>2. f.kind = "data" /\ f.err = 0
  <2>1. First(f) = 1
    BY DEF Expected
  <2>2. f.kind # "flag"
    BY <1>1, <2>1, FlagBits DEF First
  <2>3. f.kind = "data"
    BY <1>1, <2>2
  <2>4. 0 < Length(f) - 1
    BY <1>1, <2>3, DataBits
  <2>5. f.err # 0 => Driven(f, 0) = 0
    BY <1>1, <2>3, <2>4, DataBits
  <2> QED
    BY <2>1, <2>3, <2>5 DEF First
<1>3. Length(f) \in Nat /\ Length(f) >= 26 /\ Driven(f, 1) = 0
  <2>1. Length(f) \in Nat /\ Length(f) >= 26
    BY <1>1, <1>2, DataBits
  <2>2. 1 < Length(f) - 1 /\ 1 # f.err
    BY <1>2, <2>1
  <2> QED
    BY <1>1, <1>2, <2>1, <2>2, DataBits
<1>4. Monitor(0, {n}, FALSE)
  <2>1. Monitor(Driven(f, Since), IF Since < Length(f) THEN {n} ELSE {}, FALSE)
    BY DEF FrameBit
  <2>2. Driven(f, Since) = 0 /\ (IF Since < Length(f) THEN {n} ELSE {}) = {n}
    BY <1>1, <1>3
  <2> HIDE DEF f
  <2> QED
    BY <2>1, <2>2
<1>5. /\ state' = "capture" /\ queue' = <<0>> /\ ones' = 0 /\ inside' = {n}
      /\ published' = published
  BY <1>4 DEF Monitor, Watch, Expected
<1>6. Publications(n)' = {}
  BY <1>5 DEF Expected, Publications
<1>7. First(f) = 1 /\ Len(queue') = 1
  BY <1>5 DEF Expected
<1>8. Counted(driven[n])'
  <2>1. Since' - 1 = 1 /\ Since' < Length(f) /\ f.kind # "flag"
    BY <1>1, <1>2, <1>3
  <2>2. ones' <= Driven(f, Since' - 1)
    BY <1>3, <1>5, <2>1
  <2> QED
    BY <1>1, <1>2, <2>1, <2>2 DEF Counted
<1> QED
  BY <1>1, <1>5, <1>6, <1>7, <1>8 DEF Captured

\* No recessive bit of a captured frame is counted wrong.
LEMMA CountStep ==
  ASSUME TypeOK, Capturing, NEW n, FrameBit(n), Captured(n)
  PROVE  Counted(driven[n])'
<1> DEFINE f == driven[n]
           z == Since
           bit == Driven(f, z)
<1>1. f \in Frames /\ z \in Nat /\ z >= 1 /\ Since' = z + 1 /\ driven' = driven
  BY LinkFacts DEF FrameBit
<1>2. Sample(bit, IF z < Length(f) THEN {n} ELSE {}, FALSE)
  BY DEF FrameBit, Captured, Monitor
<1>3. ones \in Nat /\ bit \in 0..1 /\ ones' = IF bit = 1 THEN ones + 1 ELSE 0
  BY <1>1, <1>2, FrameBits DEF Sample, TypeOK
<1>4. Counted(f)
  BY DEF Captured
<1> HIDE DEF z, bit
<1>5. CASE f.kind = "flag"
  <2>1. bit = IF z < 6 THEN 0 ELSE 1
    BY <1>1, <1>5, FlagBits DEF bit
  <2>2. ones = IF z <= 6 THEN 0 ELSE z - 6
    BY <1>4, <1>5 DEF Counted, z
  <2>3. ones' = IF z + 1 <= 6 THEN 0 ELSE (z + 1) - 6
    BY <1>1, <1>3, <2>1, <2>2
  <2> QED
    BY <1>1, <1>5, <2>3 DEF Counted
<1>6. CASE f.kind = "data"
  <2>1. /\ Length(f) \in Nat /\ Length(f) >= 26
        /\ \A i \in Nat : i < Length(f) - 1 => Driven(f, i) = IF i = f.err THEN 1 ELSE 0
        /\ \A i \in Nat : i >= Length(f) => Driven(f, i) = 1
    BY <1>1, <1>6, DataBits
  <2>2. IF z < Length(f) THEN ones <= Driven(f, z - 1) ELSE ones <= z - Length(f) + 2
    BY <1>4, <1>6 DEF Counted, z
  <2>3. z - 1 \in Nat /\ Driven(f, z - 1) \in 0..1
    <3>1. z - 1 \in Nat
      BY <1>1
    <3> QED
      BY <1>1, <3>1, FrameBits
  <2>4. CASE z + 1 < Length(f)
    <3>1. z < Length(f) - 1 /\ z - 1 < Length(f) - 1 /\ z < Length(f) /\ z - 1 # z
      BY <1>1, <2>1, <2>4
    <3>2. bit = (IF z = f.err THEN 1 ELSE 0) /\ Driven(f, z - 1) = IF z - 1 = f.err THEN 1 ELSE 0
      BY <1>1, <2>1, <2>3, <3>1 DEF bit
    <3>3. ones <= Driven(f, z - 1)
      BY <2>2, <3>1
    <3>4. ones' <= bit
      <4>1. CASE z = f.err
        BY <1>3, <3>1, <3>2, <3>3, <4>1
      <4>2. CASE z # f.err
        BY <1>3, <3>2, <4>2
      <4> QED
        BY <4>1, <4>2
    <3>5. (z + 1) - 1 = z
      BY <1>1
    <3>6. ones' <= Driven(f, (z + 1) - 1)
      BY <3>4, <3>5 DEF bit
    <3> QED
      BY <1>1, <1>6, <2>4, <3>6 DEF Counted
  <2>5. CASE z + 1 = Length(f)
    <3>1. z < Length(f) /\ ones <= 1
      BY <1>1, <1>3, <2>1, <2>2, <2>3, <2>5
    <3>2. ones' <= (z + 1) - Length(f) + 2
      BY <1>1, <1>3, <2>1, <2>5, <3>1
    <3> QED
      BY <1>1, <1>6, <2>1, <2>5, <3>2 DEF Counted
  <2>6. CASE z >= Length(f)
    <3>1. bit = 1 /\ ~(z < Length(f))
      BY <1>1, <2>1, <2>6 DEF bit
    <3>2. ones' <= (z + 1) - Length(f) + 2
      BY <1>1, <1>3, <2>1, <2>2, <3>1
    <3>3. ~(z + 1 < Length(f))
      BY <1>1, <2>1, <2>6
    <3> QED
      BY <1>1, <1>6, <3>2, <3>3 DEF Counted
  <2> QED
    BY <1>1, <2>1, <2>4, <2>5, <2>6
<1>7. f.kind = "flag" \/ f.kind = "data"
  BY <1>1
<1>8. Counted(f)'
  BY <1>5, <1>6, <1>7
<1> QED
  BY <1>1, <1>8

\* A capture of the frame goes on, or ends with the frame reported once.
LEMMA CapturedStep ==
  ASSUME TypeOK, Capturing, NEW n, FrameBit(n), Captured(n), Fit(driven[n])
  PROVE  Captured(n)' \/ Finished(n)'
<1> DEFINE f == driven[n]
           z == Since
           bit == Driven(f, z)
           k == IF z < Length(f) THEN {n} ELSE {}
           ends == ones' >= EofBits \/ Len(queue) = MaxBits
<1>1. /\ f \in Frames /\ z \in Nat /\ z >= 1 /\ Since' = z + 1 /\ driven' = driven
      /\ driven'[n] = driven[n]
  BY LinkFacts DEF FrameBit
<1>2. Sample(bit, k, FALSE)
  BY DEF FrameBit, Captured, Monitor
<1>3. Counted(driven[n])'
  BY CountStep
<1>4. /\ inside = {n} /\ z > First(f) /\ Len(queue) = z - First(f) /\ Publications(n) = {}
      /\ First(f) \in 0..1 /\ Length(f) \in Nat /\ bit \in 0..1
  BY <1>1, FrameBits DEF Captured, First
<1>5. /\ queue' = Append(queue, bit) /\ inside' = {n}
      /\ prev' = IF ends THEN bit ELSE prev
      /\ state' = IF ends THEN "watch" ELSE "capture"
      /\ published' = IF ends /\ LongEnough(queue') THEN Append(published, inside') ELSE published
  BY <1>2, <1>4 DEF Sample
<1>6. Fit(f)
  OBVIOUS
<1> HIDE DEF z, bit, k, ends
<1>7. /\ queue' \in Seq(0..1) /\ Len(queue') = Len(queue) + 1 /\ Len(queue') = (z + 1) - First(f)
      /\ z + 1 > First(f) /\ Len(queue') >= 1
  <2>1. queue' \in Seq(0..1) /\ Len(queue') = Len(queue) + 1 /\ Len(queue) \in Nat
    <3>1. queue \in Seq(0..1)
      BY DEF TypeOK
    <3> QED
      BY <1>4, <1>5, <3>1
  <2> QED
    BY <1>1, <1>4, <2>1
<1>8. CASE ~ends
  <2>1. state' = "capture" /\ published' = published
    BY <1>5, <1>8
  <2>2. Publications(n)' = {}
    BY <1>4, <2>1 DEF Publications
  <2> QED
    BY <1>1, <1>3, <1>5, <1>7, <2>1, <2>2 DEF Captured
<1>9. CASE ends /\ f.kind = "flag"
  <2>1. First(f) = 0 /\ f.kind # "data"
    BY <1>1, <1>9, FlagBits DEF First
  <2>2. ones' = IF z + 1 <= 6 THEN 0 ELSE (z + 1) - 6
    BY <1>1, <1>3, <1>9 DEF Counted
  <2>3. ones = (IF z <= 6 THEN 0 ELSE z - 6) /\ ones < 7
    BY <1>9 DEF Captured, Counted, Capturing, EofBits, z
  <2>4. z + 1 = 13
    <3>1. ones' >= 7 \/ Len(queue) = 200
      BY <1>9 DEF ends, EofBits, MaxBits
    <3>2. z <= 12
      BY <1>1, <2>3
    <3>3. ~(Len(queue) = 200)
      BY <1>1, <1>4, <2>1, <3>2
    <3> QED
      BY <1>1, <2>2, <3>1, <3>2, <3>3
  <2>5. published' = published
    <3>1. Len(queue') < 20
      BY <1>7, <2>1, <2>4
    <3> QED
      BY <1>5, <1>7, <3>1, DestuffedSize
  <2>6. Once(n)'
    BY <1>1, <1>4, <1>9, <2>5 DEF Once, Publications
  <2>7. Quiet(driven[n])'
    BY <1>1, <1>9, <2>4 DEF Quiet
  <2>8. state' = "watch"
    BY <1>5, <1>9
  <2> QED
    BY <2>6, <2>7, <2>8 DEF Finished
<1>10. CASE ends /\ f.kind = "data"
  <2>1. /\ Length(f) \in Nat /\ Length(f) >= 26
        /\ \A i \in Nat : i < Length(f) - 1 => Driven(f, i) = IF i = f.err THEN 1 ELSE 0
    BY <1>1, <1>10, DataBits
  <2>2. IF z + 1 < Length(f) THEN ones' <= Driven(f, (z + 1) - 1)
        ELSE ones' <= (z + 1) - Length(f) + 2
    BY <1>1, <1>3, <1>10 DEF Counted
  <2>3. Driven(f, (z + 1) - 1) \in 0..1
    BY <1>1, FrameBits
  <2>4. ones' \in Nat
    BY <1>2 DEF Sample, TypeOK
  <2>5. Len(queue) = MaxBits \/ z + 1 >= Length(f) + 5
    BY <1>1, <1>10, <2>1, <2>2, <2>3, <2>4 DEF ends, EofBits
  <2>6. Len(queue') >= 27
    BY <1>1, <1>4, <1>7, <2>1, <2>5 DEF MaxBits
  <2>7. published' = Append(published, {n})
    BY <1>5, <1>7, <1>10, <2>6, DestuffedSize
  <2>8. \E m \in DOMAIN published' : Publications(n)' = {m} /\ published'[m] = {n}
    BY <1>4, <2>7, PublishedNow DEF TypeOK
  <2>9. Once(n)'
    BY <1>1, <1>10, <2>8 DEF Once
  <2>10. Quiet(driven[n])'
    <3>1. CASE z + 1 >= Length(f)
      BY <1>1, <3>1 DEF Quiet
    <3>2. CASE z + 1 < Length(f)
      <4>1. Len(queue) = 200 /\ z >= 200
        BY <1>1, <1>4, <2>1, <2>5, <3>2 DEF MaxBits
      <4>2. f.err < 0
        BY <1>1, <1>6, <1>10, <2>1, <3>2, <4>1 DEF Fit, MaxBits
      <4>3. z # f.err /\ z < Length(f) - 1
        BY <1>1, <2>1, <3>2, <4>2
      <4>4. bit = 0
        BY <1>1, <2>1, <4>3 DEF bit
      <4>5. prev' = 0
        BY <1>5, <1>10, <4>4
      <4> QED
        BY <1>1, <1>10, <4>2, <4>5 DEF Quiet
    <3> QED
      BY <1>1, <2>1, <3>1, <3>2
  <2>11. state' = "watch"
    BY <1>5, <1>10
  <2> QED
    BY <2>9, <2>10, <2>11 DEF Finished
<1> QED
  BY <1>1, <1>8, <1>9, <1>10

\* No capture begins in what is left of a reported frame.
LEMMA FinishedStep ==
  ASSUME TypeOK, PrevIsLine, NEW n, FrameBit(n), Finished(n)
  PROVE  Finished(n)'
<1> DEFINE f == driven[n]
           z == Since
           bit == Driven(f, z)
<1>1. /\ f \in Frames /\ z \in Nat /\ z >= 1 /\ Since' = z + 1 /\ driven' = driven
      /\ driven'[n] = driven[n]
  BY LinkFacts DEF FrameBit
<1>2. Watch(bit, IF z < Length(f) THEN {n} ELSE {}, FALSE)
  BY DEF FrameBit, Finished, Monitor
<1>3. Quiet(f) /\ Once(n)
  BY DEF Finished
<1> HIDE DEF z, bit
<1>4. (bit = 1 \/ prev = 0) /\ Quiet(driven[n])'
  <2>1. CASE z >= Length(f)
    <3>1. bit = 1 /\ z + 1 >= Length(f)
      BY <1>1, <2>1, FrameBits DEF bit
    <3> QED
      BY <1>1, <3>1 DEF Quiet
  <2>2. CASE f.kind = "flag" /\ z >= 6
    <3>1. bit = 1 /\ z + 1 >= 6
      BY <1>1, <2>2, FlagBits DEF bit
    <3> QED
      BY <1>1, <2>2, <3>1 DEF Quiet
  <2>3. CASE f.kind = "data" /\ f.err < 0 /\ prev = 0
    <3>1. /\ Length(f) \in Nat
          /\ \A i \in Nat : i < Length(f) - 1 => Driven(f, i) = IF i = f.err THEN 1 ELSE 0
      BY <1>1, <2>3, DataBits
    <3>2. CASE z + 1 >= Length(f)
      BY <1>1, <2>3, <3>2 DEF Quiet
    <3>3. CASE z + 1 < Length(f)
      <4>1. z < Length(f) - 1 /\ z # f.err
        BY <1>1, <2>3, <3>1, <3>3
      <4>2. prev' = 0
        BY <1>1, <1>2, <3>1, <4>1 DEF Watch, bit
      <4> QED
        BY <1>1, <2>3, <4>2 DEF Quiet
    <3> QED
      BY <1>1, <3>1, <3>2, <3>3
  <2> QED
    BY <1>3, <2>1, <2>2, <2>3 DEF Quiet, z
<1>5. state' = state /\ published' = published
  BY <1>2, <1>4 DEF Watch
<1>6. Once(n)'
  BY <1>1, <1>3, <1>5, OnceKept DEF TypeOK
<1> QED
  BY <1>4, <1>5, <1>6 DEF Finished

-----------------------------------------------------------------------------
(* The other frames, and what every step keeps.                             *)

\* A frame that is not on the line is as it was: its bits enter no capture.
LEMMA OtherKept ==
  ASSUME TypeOK, NEW bit \in 0..1, NEW S, NEW first, Monitor(bit, S, first),
         NEW k, k \notin S, driven'[k] = driven[k], state = "capture" => k \notin inside
  PROVE  /\ Once(k) => Once(k)'
         /\ state' = "capture" => k \notin inside'
<1>1. /\ \/ published' = published
         \/ state = "capture" /\ published' = Append(published, inside')
      /\ state = "capture" => inside' = inside \cup S
      /\ state = "watch" /\ state' = "capture" => inside' = S
  BY MonitorPublished
<1>2. state = "capture" => k \notin inside'
  BY <1>1
<1>3. Once(k) => Once(k)'
  BY <1>1, <1>2, OnceKept DEF TypeOK
<1> QED
  BY <1>1, <1>2, <1>3 DEF TypeOK

LEMMA PublishedKnown ==
  ASSUME TypeOK, TypeOK', Order, NEW bit \in 0..1, NEW S, NEW first, Monitor(bit, S, first),
         DOMAIN driven \subseteq DOMAIN driven'
  PROVE  \A m \in DOMAIN published' : published'[m] \subseteq DOMAIN driven'
<1>1. published' = published \/ published' = Append(published, inside')
  BY MonitorPublished
<1>2. \A m \in DOMAIN published : published[m] \subseteq DOMAIN driven'
  BY DEF Order
<1>3. inside' \subseteq DOMAIN driven'
  BY DEF TypeOK
<1>4. CASE published' = published
  BY <1>2, <1>4
<1>5. CASE published' = Append(published, inside')
  <2>1. published \in Seq(SUBSET (1..NFrames))
    BY DEF TypeOK
  <2>2. /\ \A m \in DOMAIN published' : m \in DOMAIN published \/ m = Len(published) + 1
        /\ \A m \in DOMAIN published : published'[m] = published[m]
        /\ published'[Len(published) + 1] = inside'
    BY <1>5, <2>1
  <2> QED
    BY <1>2, <1>3, <2>2
<1> QED
  BY <1>1, <1>4, <1>5

-----------------------------------------------------------------------------
(* The driver goes on with the frame, or leaves the line recessive.         *)

LEMMA SameFrame ==
  ASSUME IInv, LinkInv, Bit \/ Idle, driven # <<>>
  PROVE  /\ FrameBit(Len(driven))
         /\ \A k \in 1..Len(driven) : idle'[k] = idle[k]
<1>1. /\ TypeOK /\ Len(driven) \in Nat /\ Len(idle) = Len(driven) + 1
      /\ Len(idle) \in 1..Len(idle) /\ idle[Len(idle)] \in Nat /\ pos \in Nat
      /\ Current \in Frames /\ Current = driven[Len(driven)]
  BY LinkFacts DEF IInv, Current
<1>2. pos >= 1 /\ (idle[Len(idle)] > 0 => ~Busy)
  BY DEF LinkInv, Order
<1>3. Length(Current) \in Nat
  BY <1>1, FrameBits
<1>4. CASE Bit
  <2>1. /\ driven' = driven /\ idle' = idle /\ pos' = pos + 1 /\ Busy
        /\ Monitor(Driven(Current, pos),
                   IF pos < Length(Current) THEN {Len(driven)} ELSE {}, FALSE)
    BY <1>4 DEF Bit
  <2>2. Since = pos /\ Since' = pos + 1
    BY <1>1, <1>2, <2>1 DEF Since
  <2>3. Monitor(Driven(driven[Len(driven)], Since),
                IF Since < Length(driven[Len(driven)]) THEN {Len(driven)} ELSE {}, FALSE)
    BY <1>1, <2>1, <2>2
  <2>4. Since \in Nat \ {0} /\ Since' = Since + 1
    BY <1>1, <1>2, <2>2
  <2> QED
    BY <1>1, <2>1, <2>3, <2>4, Zenon DEF FrameBit
<1>5. CASE Idle
  <2>1. /\ driven' = driven /\ pos' = pos /\ ~Busy /\ Monitor(1, {}, FALSE)
        /\ idle' = [idle EXCEPT ![Len(idle)] = @ + 1]
    BY <1>5 DEF Idle
  <2>2. /\ Len(idle') = Len(idle) /\ idle'[Len(idle)] = idle[Len(idle)] + 1
        /\ \A k \in 1..Len(driven) : idle'[k] = idle[k]
    BY <1>1, <2>1 DEF TypeOK
  <2>3. Since \in Nat \ {0} /\ Since' = Since + 1 /\ Since >= Length(Current)
    <3>1. pos >= Length(Current)
      BY <1>1, <1>3, <2>1 DEF Busy, IFS
    <3>2. Since = pos + idle[Len(idle)] /\ Since' = pos + (idle[Len(idle)] + 1)
      BY <2>1, <2>2 DEF Since
    <3> QED
      BY <1>1, <1>2, <1>3, <3>1, <3>2
  <2>4. Driven(Current, Since) = 1 /\ (IF Since < Length(Current) THEN {Len(driven)} ELSE {}) = {}
    BY <1>1, <1>3, <2>3, FrameBits
  <2>5. Monitor(Driven(driven[Len(driven)], Since),
                IF Since < Length(driven[Len(driven)]) THEN {Len(driven)} ELSE {}, FALSE)
    BY <1>1, <2>1, <2>4
  <2> QED
    BY <2>1, <2>2, <2>3, <2>5, Zenon DEF FrameBit
<1> QED
  BY <1>4, <1>5

LEMMA UnderWayStep ==
  ASSUME IInv, LinkInv, Bit \/ Idle, driven # <<>>
  PROVE  UnderWay'
<1>1. PICK n : n = Len(driven)
  OBVIOUS
<1>2. FrameBit(n) /\ \A k \in 1..n : idle'[k] = idle[k]
  BY <1>1, SameFrame
<1>3. /\ driven' = driven /\ n \in 1..n /\ n = Len(driven')
      /\ Current' = driven[n] /\ Current = driven[n]
  BY <1>1, <1>2, LinkFacts DEF FrameBit, IInv, Current
<1>4. ASSUME Clear(n)', Fit(driven[n]) PROVE Expected(n)' \/ Captured(n)' \/ Finished(n)'
  <2>1. Clear(n)
    BY <1>2, <1>3, <1>4 DEF Clear
  <2>2. Expected(n) \/ Captured(n) \/ Finished(n)
    BY <1>1, <1>3, <1>4, <2>1 DEF LinkInv, UnderWay
  <2>3. Expected(n) => Captured(n)'
    BY <1>2, ExpectedStep DEF IInv
  <2>4. Captured(n) => Captured(n)' \/ Finished(n)'
    BY <1>2, <1>4, CapturedStep DEF IInv
  <2>5. Finished(n) => Finished(n)'
    BY <1>2, FinishedStep DEF IInv
  <2> QED
    BY <2>2, <2>3, <2>4, <2>5
<1>5. Fit(Current)' => Fit(driven[n])
  BY <1>3 DEF Fit, Length, DataLength, StuffBits
<1> QED
  BY <1>3, <1>4, <1>5 DEF UnderWay

LEMMA PastStep ==
  ASSUME IInv, LinkInv, Bit \/ Idle, driven # <<>>
  PROVE  Past'
<1> DEFINE n == Len(driven)
<1>1. FrameBit(n) /\ \A k \in 1..n : idle'[k] = idle[k]
  BY SameFrame
<1>2. driven' = driven /\ n \in Nat /\ Current \in Frames /\ Current = driven[n]
  BY <1>1, LinkFacts DEF FrameBit, IInv, Current
<1> SUFFICES ASSUME NEW k \in 1..(n - 1), idle'[k + 1] >= EndOfFrame - IFS
             PROVE  /\ Clear(k)' /\ Fit(driven[k]) => Once(k)'
                    /\ state' = "capture" => k \notin inside'
  BY <1>2 DEF Past
<1>3. k \in 1..n /\ k + 1 \in 1..n /\ k # n
  BY <1>2
<1>4. idle[k + 1] >= EndOfFrame - IFS /\ (Clear(k)' => Clear(k))
  BY <1>1, <1>3 DEF Clear
<1>5. /\ Clear(k) /\ Fit(driven[k]) => Once(k)
      /\ state = "capture" => k \notin inside
  BY <1>4 DEF LinkInv, Past
<1>6. PICK S \in SUBSET {n}, bit \in 0..1 : Monitor(bit, S, FALSE)
  BY <1>1, <1>2, FrameBits DEF FrameBit
<1>7. /\ Once(k) => Once(k)'
      /\ state' = "capture" => k \notin inside'
  BY <1>2, <1>3, <1>5, <1>6, OtherKept DEF IInv
<1> QED
  BY <1>4, <1>5, <1>7

LEMMA OrderStep ==
  ASSUME IInv, TypeOK', LinkInv, Bit \/ Idle
  PROVE  Order'
<1>1. /\ TypeOK /\ Len(driven) \in Nat /\ Len(idle) = Len(driven) + 1
      /\ Len(idle) \in 1..Len(idle) /\ idle[Len(idle)] \in Nat /\ pos \in Nat
  BY LinkFacts DEF IInv
<1>2. /\ idle[Len(idle)] > 0 => ~Busy
      /\ driven # <<>> /\ state = "capture" => ones >= Ending
      /\ driven # <<>> => pos >= 1
      /\ driven = <<>> => state = "watch"
  BY DEF LinkInv, Order
<1>3. driven' = driven /\ (driven # <<>> => Current' = Current)
  BY DEF Bit, Idle, Current
<1>4. PICK S :
        /\ Monitor(line', S, FALSE) /\ line' \in 0..1
        /\ driven # <<>> /\ pos >= Length(Current) => line' = 1
        /\ Idle => line' = 1
  <2>1. CASE Bit
    <3>1. driven # <<>> /\ Busy /\ line' = Driven(Current, pos)
      BY <2>1 DEF Bit, Busy
    <3>2. Current \in Frames
      BY <3>1, LinkFacts DEF IInv
    <3>3. line' \in 0..1 /\ (pos >= Length(Current) => line' = 1)
      BY <1>1, <3>1, <3>2, FrameBits
    <3>4. \E S : Monitor(line', S, FALSE)
      BY <2>1 DEF Bit
    <3>5. ~Idle
      BY <3>1 DEF Idle
    <3> QED
      BY <3>3, <3>4, <3>5
  <2>2. CASE Idle
    <3>1. Monitor(line', {}, FALSE) /\ line' = 1
      BY <2>2 DEF Idle
    <3>2. line' \in 0..1
      BY <3>1
    <3> QED
      BY <3>1, <3>2, Zenon
  <2> QED
    BY <2>1, <2>2
<1>5. /\ state = "capture" /\ line' = 1 => ones' = ones + 1
      /\ state = "watch" /\ state' = "capture" => line' = 0
  BY <1>1, <1>4, MonitorPublished
<1>6. ones \in Nat /\ ones' \in Nat /\ state \in {"watch", "capture"} /\ state' \in {"watch", "capture"}
  BY <1>1 DEF TypeOK
<1>7. driven' = <<>> => state' = "watch"
  <2>1. driven = <<>> => Idle
    BY DEF Bit, Busy
  <2> QED
    BY <1>2, <1>3, <1>4, <1>5, <1>6, <2>1
<1>8. idle'[Len(idle')] > 0 => ~Busy'
  <2>1. CASE Bit
    <3>1. idle' = idle /\ Busy
      BY <2>1 DEF Bit
    <3> QED
      BY <1>1, <1>2, <3>1
  <2>2. CASE Idle
    BY <1>3, <2>2 DEF Idle, Busy
  <2> QED
    BY <2>1, <2>2
<1>9. driven' # <<>> => pos' >= 1
  <2>1. Bit => pos' = pos + 1
    BY DEF Bit
  <2>2. Idle => pos' = pos
    BY DEF Idle
  <2> QED
    BY <1>1, <1>2, <1>3, <2>1, <2>2
<1>10. ASSUME driven # <<>>, state' = "capture" PROVE ones' >= Ending'
  <2>1. Length(Current) \in Nat /\ Length(Current)' = Length(Current)
    <3>1. Current \in Frames
      BY <1>10, LinkFacts DEF IInv
    <3> QED
      BY <1>3, <1>10, <3>1, FrameBits
  <2>2. Ending' = 0 \/ (pos >= Length(Current) /\ Ending' = Ending + 1)
    <3>1. CASE Bit
      <4>1. pos' = pos + 1 /\ idle' = idle /\ idle[Len(idle)] = 0
        BY <1>1, <1>2, <3>1 DEF Bit
      <4>2. Ending' = IF pos + 1 >= Length(Current) THEN (pos + 1) - Length(Current) + 0 ELSE 0
        BY <1>3, <1>10, <4>1 DEF Ending
      <4>3. Ending = IF pos >= Length(Current) THEN pos - Length(Current) + 0 ELSE 0
        BY <4>1 DEF Ending
      <4> QED
        BY <1>1, <2>1, <4>2, <4>3
    <3>2. CASE Idle
      <4>1. pos' = pos /\ idle' = [idle EXCEPT ![Len(idle)] = @ + 1] /\ ~Busy
        BY <3>2 DEF Idle
      <4>2. Len(idle') = Len(idle) /\ idle'[Len(idle)] = idle[Len(idle)] + 1
        BY <1>1, <4>1 DEF TypeOK
      <4>3. pos >= Length(Current)
        BY <1>1, <1>10, <2>1, <4>1 DEF Busy, IFS
      <4>4. /\ Ending' = pos - Length(Current) + (idle[Len(idle)] + 1)
            /\ Ending = pos - Length(Current) + idle[Len(idle)]
        BY <1>3, <1>10, <4>1, <4>2, <4>3 DEF Ending
      <4> QED
        BY <1>1, <2>1, <4>3, <4>4
    <3> QED
      BY <3>1, <3>2
  <2>3. CASE Ending' = 0
    BY <1>6, <2>3
  <2>4. CASE pos >= Length(Current) /\ Ending' = Ending + 1
    <3>1. line' = 1 /\ state = "capture"
      BY <1>4, <1>5, <1>6, <1>10, <2>4
    <3>2. ones' = ones + 1 /\ ones >= Ending
      BY <1>2, <1>5, <1>10, <3>1
    <3>3. Ending \in Nat
      BY <1>1, <2>1, <2>4 DEF Ending
    <3> QED
      BY <1>6, <2>4, <3>2, <3>3
  <2> QED
    BY <2>2, <2>3, <2>4
<1>11. \A m \in DOMAIN published' : published'[m] \subseteq DOMAIN driven'
  BY <1>1, <1>3, <1>4, PublishedKnown DEF LinkInv
<1> QED
  BY <1>3, <1>7, <1>8, <1>9, <1>10, <1>11 DEF Order

LEMMA LineStep ==
  ASSUME IInv, TypeOK', LinkInv, Bit \/ Idle
  PROVE  LinkInv'
<1>1. Order'
  BY OrderStep
<1>2. CASE driven # <<>>
  BY <1>1, <1>2, UnderWayStep, PastStep DEF LinkInv
<1>3. CASE driven = <<>>
  <2>1. driven' = <<>>
    BY <1>3 DEF Bit, Idle
  <2>2. UnderWay' /\ Past'
    BY <2>1 DEF UnderWay, Past
  <2> QED
    BY <1>1, <2>2 DEF LinkInv
<1> QED
  BY <1>2, <1>3

-----------------------------------------------------------------------------
(* The driver starts a frame.                                               *)

LEMMA StartFacts ==
  ASSUME IInv, LinkInv, Start, NEW n, n = Len(driven) + 1
  PROVE  \E f \in Frames :
           /\ driven' = Append(driven, f) /\ pos' = 1 /\ line' = Driven(f, 0)
           /\ Monitor(line', {n}, line' = 0) /\ line' \in 0..1
           /\ n \in Nat /\ Len(driven') = n /\ n \in 1..n /\ driven'[n] = f
           /\ \A k \in 1..(n - 1) : driven'[k] = driven[k]
           /\ Len(idle') = n + 1 /\ idle'[n + 1] = 0
           /\ \A k \in 1..n : idle'[k] = idle[k]
           /\ Since' = 1 /\ Length(f) \in Nat /\ Length(f) >= 2
<1>1. PICK f \in Frames :
        /\ driven' = Append(driven, f) /\ pos' = 1 /\ line' = Driven(f, 0)
        /\ idle' = Append(idle, 0) /\ Monitor(line', {n}, line' = 0)
  BY DEF Start
<1>2. /\ driven \in Seq(Frames) /\ idle \in Seq(0..MaxIdle) /\ Len(idle) = Len(driven) + 1
      /\ Len(driven) \in Nat
  BY DEF IInv, TypeOK
<1>3. /\ n \in Nat /\ Len(driven') = n /\ n \in 1..n /\ driven'[n] = f
      /\ \A k \in 1..(n - 1) : driven'[k] = driven[k]
  BY <1>1, <1>2
<1>4. /\ Len(idle') = n + 1 /\ idle'[n + 1] = 0
      /\ \A k \in 1..n : idle'[k] = idle[k]
  BY <1>1, <1>2
<1>5. Since' = 1
  BY <1>1, <1>3, <1>4 DEF Since
<1>6. Length(f) \in Nat /\ Length(f) >= 2
  BY <1>1, DataBits, FlagBits
<1>7. line' \in 0..1
  BY <1>1, FrameBits
<1> QED
  BY <1>1, <1>3, <1>4, <1>5, <1>6, <1>7

\* A frame that starts behind enough idle time finds the monitor waiting.
LEMMA StartUnderWay ==
  ASSUME IInv, LinkInv, Start
  PROVE  UnderWay'
<1>1. PICK n : n = Len(driven) + 1
  OBVIOUS
<1>2. PICK f \in Frames :
        /\ driven' = Append(driven, f) /\ line' = Driven(f, 0)
        /\ Monitor(line', {n}, line' = 0) /\ line' \in 0..1
        /\ n \in Nat /\ Len(driven') = n /\ n \in 1..n /\ driven'[n] = f
        /\ \A k \in 1..n : idle'[k] = idle[k]
        /\ Since' = 1 /\ Length(f) \in Nat /\ Length(f) >= 2
  BY <1>1, StartFacts
<1>3. ASSUME Clear(n)' PROVE Expected(n)' \/ Captured(n)'
  <2>1. state = "watch"
    <3>1. CASE driven = <<>>
      BY <3>1 DEF LinkInv, Order
    <3>2. CASE driven # <<>>
      <4>1. n # 1 /\ n = Len(idle)
        BY <1>1, <1>2, <3>2 DEF IInv, TypeOK
      <4>2. idle[Len(idle)] >= EndOfFrame - IFS
        BY <1>2, <1>3, <4>1 DEF Clear
      <4> QED
        BY <3>2, <4>2, Rested DEF IInv
    <3> QED
      BY <3>1, <3>2
  <2>2. prev = 1 /\ line = 1
    BY <2>1 DEF IInv, PrevIsLine, Recessive, Start
  <2>3. Watch(line', {n}, line' = 0)
    BY <1>2, <2>1 DEF Monitor
  <2>4. published' = published
    BY <2>3 DEF Watch
  <2>5. Publications(n)' = {}
    <3>1. n \notin DOMAIN driven
      BY <1>1, <1>2 DEF IInv, TypeOK
    <3>2. \A m \in DOMAIN published : n \notin published[m]
      BY <3>1 DEF LinkInv, Order
    <3> QED
      BY <2>4, <3>2 DEF Publications
  <2>6. CASE line' = 0
    <3>1. state' = "capture" /\ queue' = <<0>> /\ ones' = 0 /\ inside' = {n}
      BY <2>2, <2>3, <2>6 DEF Watch
    <3>2. First(driven[n])' = 0 /\ Len(queue') = 1
      BY <1>2, <2>6, <3>1 DEF First, Driven, Length, DataLength, StuffBits, Built
    <3>3. Counted(driven[n])'
      <4>1. 1 < Length(f) /\ Driven(f, 1 - 1) = 0 /\ 1 <= 6
        BY <1>2, <2>6
      <4> QED
        BY <1>2, <3>1, <4>1 DEF Counted, Driven, Length, DataLength, StuffBits, Built
    <3> QED
      BY <1>2, <2>5, <3>1, <3>2, <3>3 DEF Captured
  <2>7. CASE line' = 1
    <3>1. state' = state /\ prev' = 1
      BY <2>2, <2>3, <2>7 DEF Watch
    <3>2. First(driven[n])' = 1
      BY <1>2, <2>7 DEF First, Driven, Length, DataLength, StuffBits, Built
    <3> QED
      BY <1>2, <2>1, <2>5, <3>1, <3>2 DEF Expected
  <2> QED
    BY <1>2, <2>6, <2>7
<1> QED
  BY <1>2, <1>3 DEF UnderWay

LEMMA StartPast ==
  ASSUME IInv, LinkInv, Start
  PROVE  Past'
<1>1. PICK n : n = Len(driven) + 1
  OBVIOUS
<1>2. PICK f \in Frames :
        /\ Monitor(line', {n}, line' = 0) /\ line' \in 0..1
        /\ n \in Nat /\ Len(driven') = n
        /\ \A k \in 1..(n - 1) : driven'[k] = driven[k]
        /\ \A k \in 1..n : idle'[k] = idle[k]
  BY <1>1, StartFacts
<1> SUFFICES ASSUME NEW k \in 1..(n - 1), idle'[k + 1] >= EndOfFrame - IFS
             PROVE  /\ Clear(k)' /\ Fit(driven[k])' => Once(k)'
                    /\ state' = "capture" => k \notin inside'
  BY <1>2 DEF Past
<1>3. k \in 1..n /\ k + 1 \in 1..n /\ k # n /\ driven'[k] = driven[k] /\ Len(idle) = n
      /\ Len(driven) = n - 1 /\ Len(driven) \in Nat
  BY <1>1, <1>2 DEF IInv, TypeOK
<1>4. idle[k + 1] >= EndOfFrame - IFS /\ (Clear(k)' => Clear(k))
  BY <1>2, <1>3 DEF Clear
<1>5. Fit(driven[k])' => Fit(driven[k])
  BY <1>3 DEF Fit, Length, DataLength, StuffBits
<1>6. /\ Clear(k) /\ Fit(driven[k]) => Once(k)
      /\ state = "capture" => k \notin inside
  <2>1. CASE k < n - 1
    <3>1. k \in 1..(Len(driven) - 1)
      BY <1>2, <1>3, <2>1
    <3> QED
      BY <1>4, <3>1 DEF LinkInv, Past
  <2>2. CASE k = n - 1
    <3>1. k = Len(driven) /\ k + 1 = Len(idle) /\ driven # <<>>
      BY <1>2, <1>3, <2>2
    <3>2. state = "watch" /\ (Clear(Len(driven)) /\ Fit(Current) => Once(Len(driven)))
      BY <1>4, <3>1, Rested DEF IInv
    <3> QED
      BY <3>1, <3>2 DEF Current
  <2> QED
    BY <1>2, <2>1, <2>2
<1>7. k \notin {n}
  BY <1>3
<1>8. /\ Once(k) => Once(k)'
      /\ state' = "capture" => k \notin inside'
  BY <1>2, <1>3, <1>6, <1>7, OtherKept DEF IInv
<1> QED
  BY <1>4, <1>5, <1>6, <1>8

LEMMA StartStep ==
  ASSUME IInv, TypeOK', LinkInv, Start
  PROVE  LinkInv'
<1>1. PICK n : n = Len(driven) + 1
  OBVIOUS
<1>2. PICK f \in Frames :
        /\ driven' = Append(driven, f) /\ pos' = 1
        /\ Monitor(line', {n}, line' = 0) /\ line' \in 0..1
        /\ n \in Nat /\ Len(driven') = n /\ n \in 1..n /\ driven'[n] = f
        /\ Len(idle') = n + 1 /\ idle'[n + 1] = 0
        /\ Length(f) \in Nat /\ Length(f) >= 2
  BY <1>1, StartFacts
<1>3. driven' # <<>> /\ DOMAIN driven \subseteq DOMAIN driven'
  <2>1. driven \in Seq(Frames) /\ driven' \in Seq(Frames)
    BY DEF IInv, TypeOK
  <2>2. DOMAIN driven = 1..(n - 1) /\ DOMAIN driven' = 1..n
    BY <1>1, <1>2, <2>1
  <2> QED
    BY <1>2, <2>2
<1>4. ~(idle'[Len(idle')] > 0)
  BY <1>2
<1>5. ones' >= Ending'
  <2>1. ones' \in Nat
    BY DEF TypeOK
  <2>2. Current' = f
    BY <1>2 DEF Current
  <2>3. ~(pos' >= Length(f))
    BY <1>2
  <2>4. Ending' = 0
    BY <2>2, <2>3 DEF Ending, Length, DataLength, StuffBits
  <2> QED
    BY <2>1, <2>4
<1>6. \A m \in DOMAIN published' : published'[m] \subseteq DOMAIN driven'
  BY <1>2, <1>3, PublishedKnown DEF IInv, LinkInv
<1>7. Order'
  BY <1>2, <1>3, <1>4, <1>5, <1>6 DEF Order
<1> QED
  BY <1>7, StartUnderWay, StartPast DEF LinkInv

-----------------------------------------------------------------------------
LEMMA LinkStart == Init => LinkInv
<1> SUFFICES ASSUME Init PROVE LinkInv
  OBVIOUS
<1>1. driven = <<>> /\ state = "watch" /\ published = <<>> /\ idle = <<0>> /\ Len(driven) = 0
  BY DEF Init
<1>2. Order
  <2>1. Len(idle) = 1 /\ ~(idle[Len(idle)] > 0) /\ DOMAIN published = {}
    BY <1>1
  <2> QED
    BY <1>1, <2>1 DEF Order
<1>3. UnderWay /\ Past
  BY <1>1 DEF UnderWay, Past
<1> QED
  BY <1>2, <1>3 DEF LinkInv

LEMMA LinkStays ==
  ASSUME TypeOK, UNCHANGED vars, LinkInv
  PROVE  LinkInv'
<1>1. /\ driven' = driven /\ pos' = pos /\ idle' = idle /\ state' = state /\ prev' = prev
      /\ queue' = queue /\ ones' = ones /\ inside' = inside /\ published' = published
  BY DEF vars
<1>2. Order'
  <2>1. Order
    BY DEF LinkInv
  <2> QED
    BY <1>1, <2>1 DEF Order, Ending, Busy, Current, Length, DataLength, StuffBits
<1>3. UnderWay'
  <2>1. UnderWay
    BY DEF LinkInv
  <2> QED
    BY <1>1, <2>1 DEF UnderWay, Expected, Captured, Finished, Clear, Counted, Quiet, Once, Fit,
       First, Since, Publications, Current, Driven, Length, DataLength, StuffBits, Built
<1>4. Past'
  <2>1. \A k : Once(k) => Once(k)'
    BY <1>1, OnceKept DEF TypeOK
  <2>2. \A k : (Clear(k)' => Clear(k)) /\ (Fit(driven[k])' => Fit(driven[k]))
    BY <1>1 DEF Clear, Fit, Length, DataLength, StuffBits
  <2> QED
    BY <1>1, <2>1, <2>2 DEF LinkInv, Past
<1> QED
  BY <1>2, <1>3, <1>4 DEF LinkInv

(* Traffic that leaves the monitor time is reported exactly: capture_frame  *)
(* cuts the frame out of the line in one piece or begins no second one, and *)
(* parse_frame keeps it if it is a data frame and drops a flag.             *)
THEOREM ApartReportedOnce == Spec => []ApartPublishedOnce
<1>1. Init => IInv /\ LinkInv
  BY InitInvariant, LinkStart
<1>2. IInv /\ LinkInv /\ [Next]_vars => (IInv /\ LinkInv)'
  <2> SUFFICES ASSUME IInv, LinkInv, [Next]_vars PROVE (IInv /\ LinkInv)'
    OBVIOUS
  <2>1. IInv' /\ TypeOK'
    BY StepInvariant DEF IInv
  <2>2. CASE Bit \/ Idle
    BY <2>1, <2>2, LineStep
  <2>3. CASE Start
    BY <2>1, <2>3, StartStep
  <2>4. CASE UNCHANGED vars
    BY <2>1, <2>4, LinkStays DEF IInv
  <2> QED
    BY <2>2, <2>3, <2>4 DEF Next
<1>3. IInv /\ LinkInv => ApartPublishedOnce
  <2> SUFFICES ASSUME IInv, LinkInv, NEW k \in DOMAIN driven, Apart(k)
               PROVE  Fit(driven[k]) => Once(k)
    BY DEF ApartPublishedOnce, Fit, Once
  <2>1. k \in 1..Len(driven) /\ Len(driven) \in Nat /\ Len(idle) = Len(driven) + 1
    BY DEF IInv, TypeOK
  <2>2. Clear(k) /\ idle[k + 1] >= EndOfFrame - IFS
    BY DEF Apart, Clear
  <2>3. CASE k < Len(driven)
    <3>1. k \in 1..(Len(driven) - 1)
      BY <2>1, <2>3
    <3> QED
      BY <2>2, <3>1 DEF LinkInv, Past
  <2>4. CASE k = Len(driven)
    <3>1. driven # <<>> /\ idle[Len(idle)] >= EndOfFrame - IFS
      BY <2>1, <2>2, <2>4
    <3> QED
      BY <2>2, <2>4, <3>1, Rested DEF IInv, Current
  <2> QED
    BY <2>1, <2>3, <2>4
<1> QED
  BY <1>1, <1>2, <1>3, PTL DEF Spec
=============================================================================
